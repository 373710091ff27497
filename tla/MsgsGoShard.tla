---------------------------- MODULE MsgsGoShard -----------------------------
(***************************************************************************)
(* The messages of a shard that clients send as the Go code holds them     *)
(* (the structs of go/msgs/msgs.go), and the functions that pack and       *)
(* unpack them (go/msgs/msgs_bincode.go). T is the struct; TPack the calls *)
(* that T.Pack makes, with the kind that T's RequestKind or ResponseKind   *)
(* method gives; TUnpack the calls that T.Unpack makes.                    *)
(***************************************************************************)
EXTENDS MsgsKinds

(* The structs. *)
LookupReq == StructOf(<<"DirId", InodeId, "Name", Text>>)
LookupResp == StructOf(<<"TargetId", InodeId, "CreationTime", U64>>)
StatFileReq == StructOf(<<"Id", InodeId>>)
StatFileResp == StructOf(<<"Mtime", U64, "Atime", U64, "Size", U64>>)
StatDirectoryReq == StructOf(<<"Id", InodeId>>)
DirectoryInfoEntry == StructOf(<<"Tag", U8, "Body", Text>>)
DirectoryInfo == StructOf(<<"Entries", ListOf(DirectoryInfoEntry)>>)
StatDirectoryResp == StructOf(<<"Mtime", U64, "Owner", InodeId, "Info", DirectoryInfo>>)
ReadDirReq == StructOf(<<"DirId", InodeId, "StartHash", U64, "Mtu", U16>>)
CurrentEdge == StructOf(<<"TargetId", InodeId, "NameHash", U64, "Name", Text, "CreationTime", U64>>)
ReadDirResp == StructOf(<<"NextHash", U64, "Results", ListOf(CurrentEdge)>>)
ConstructFileReq == StructOf(<<"Type", U8, "Note", Text>>)
ConstructFileResp == StructOf(<<"Id", InodeId, "Cookie", Octets(8)>>)
FailureDomain == StructOf(<<"Name", Octets(16)>>)
BlacklistEntry == StructOf(<<"FailureDomain", FailureDomain, "BlockService", U64>>)
AddSpanInitiateReq == StructOf(<<
  "FileId", InodeId, "Cookie", Octets(8), "ByteOffset", U64, "Size", U32, "Crc", U32,
  "StorageClass", StorageClass, "Blacklist", ListOf(BlacklistEntry), "Parity", U8, "Stripes", U8,
  "CellSize", U32, "Crcs", ListOf(U32)>>)
IpPort == StructOf(<<"Addrs", Octets(4), "Port", U16>>)
AddrsInfo == StructOf(<<"Addr1", IpPort, "Addr2", IpPort>>)
AddSpanInitiateBlockInfo == StructOf(<<
  "BlockServiceAddrs", AddrsInfo, "BlockServiceId", U64, "BlockServiceFailureDomain", FailureDomain,
  "BlockId", U64, "Certificate", Octets(8)>>)
AddSpanInitiateResp == StructOf(<<"Blocks", ListOf(AddSpanInitiateBlockInfo)>>)
BlockProof == StructOf(<<"BlockId", U64, "Proof", Octets(8)>>)
AddSpanCertifyReq == StructOf(<<
  "FileId", InodeId, "Cookie", Octets(8), "ByteOffset", U64, "Proofs", ListOf(BlockProof)>>)
AddSpanCertifyResp == StructOf(<<>>)
LinkFileReq == StructOf(<<"FileId", InodeId, "Cookie", Octets(8), "OwnerId", InodeId, "Name", Text>>)
LinkFileResp == StructOf(<<"CreationTime", U64>>)
SoftUnlinkFileReq == StructOf(<<"OwnerId", InodeId, "FileId", InodeId, "Name", Text, "CreationTime", U64>>)
SoftUnlinkFileResp == StructOf(<<"DeleteCreationTime", U64>>)
LocalFileSpansReq == StructOf(<<"FileId", InodeId, "ByteOffset", U64, "Limit", U32, "Mtu", U16>>)
BlockService == StructOf(<<"Addrs", AddrsInfo, "Id", U64, "Flags", U8>>)
FetchedSpanHeader == StructOf(<<"ByteOffset", U64, "Size", U32, "Crc", U32, "StorageClass", StorageClass>>)
FetchedInlineSpan == StructOf(<<"Body", Text>>)
FetchedBlock == StructOf(<<"BlockServiceIx", U8, "BlockId", U64, "Crc", U32>>)
FetchedBlocksSpan == StructOf(<<
  "Parity", U8, "Stripes", U8, "CellSize", U32, "Blocks", ListOf(FetchedBlock), "StripesCrc", ListOf(U32)>>)
FetchedSpan == Span(FetchedSpanHeader, "StorageClass", <<1>>, <<2>>, FetchedInlineSpan, FetchedBlocksSpan)
LocalFileSpansResp == StructOf(<<
  "NextOffset", U64, "BlockServices", ListOf(BlockService), "Spans", ListOf(FetchedSpan)>>)
SameDirectoryRenameReq == StructOf(<<
  "TargetId", InodeId, "DirId", InodeId, "OldName", Text, "OldCreationTime", U64, "NewName", Text>>)
SameDirectoryRenameResp == StructOf(<<"NewCreationTime", U64>>)
AddInlineSpanReq == StructOf(<<
  "FileId", InodeId, "Cookie", Octets(8), "StorageClass", StorageClass, "ByteOffset", U64, "Size", U32,
  "Crc", U32, "Body", Text>>)
AddInlineSpanResp == StructOf(<<>>)
SetTimeReq == StructOf(<<"Id", InodeId, "Mtime", U64, "Atime", U64>>)
SetTimeResp == StructOf(<<>>)
FullReadDirReq == StructOf(<<
  "DirId", InodeId, "Flags", U8, "StartName", Text, "StartTime", U64, "Limit", U16, "Mtu", U16>>)
FullReadDirCursor == StructOf(<<"Current", Bool, "StartName", Text, "StartTime", U64>>)
Edge == StructOf(<<
  "Current", Bool, "TargetId", InodeIdExtra, "NameHash", U64, "Name", Text, "CreationTime", U64>>)
FullReadDirResp == StructOf(<<"Next", FullReadDirCursor, "Results", ListOf(Edge)>>)
MoveSpanReq == StructOf(<<
  "SpanSize", U32, "FileId1", InodeId, "ByteOffset1", U64, "Cookie1", Octets(8), "FileId2", InodeId,
  "ByteOffset2", U64, "Cookie2", Octets(8)>>)
MoveSpanResp == StructOf(<<>>)
RemoveNonOwnedEdgeReq == StructOf(<<"DirId", InodeId, "TargetId", InodeId, "Name", Text, "CreationTime", U64>>)
RemoveNonOwnedEdgeResp == StructOf(<<>>)
SameShardHardFileUnlinkReq == StructOf(<<
  "OwnerId", InodeId, "TargetId", InodeId, "Name", Text, "CreationTime", U64>>)
SameShardHardFileUnlinkResp == StructOf(<<>>)
StatTransientFileReq == StructOf(<<"Id", InodeId>>)
StatTransientFileResp == StructOf(<<"Mtime", U64, "Size", U64, "Note", Text>>)
ShardSnapshotReq == StructOf(<<"SnapshotId", U64>>)
ShardSnapshotResp == StructOf(<<>>)
FileSpansReq == StructOf(<<"FileId", InodeId, "ByteOffset", U64, "Limit", U32, "Mtu", U16>>)
FetchedSpanHeaderFull == StructOf(<<"ByteOffset", U64, "Size", U32, "Crc", U32, "IsInline", Bool>>)
FetchedBlockServices == StructOf(<<
  "LocationId", U8, "StorageClass", StorageClass, "Parity", U8, "Stripes", U8, "CellSize", U32,
  "Blocks", ListOf(FetchedBlock), "StripesCrc", ListOf(U32)>>)
FetchedLocations == StructOf(<<"Locations", ListOf(FetchedBlockServices)>>)
FetchedFullSpan == Span(FetchedSpanHeaderFull, "IsInline", <<1>>, <<0>>, FetchedInlineSpan, FetchedLocations)
FileSpansResp == StructOf(<<
  "NextOffset", U64, "BlockServices", ListOf(BlockService), "Spans", ListOf(FetchedFullSpan)>>)
AddSpanLocationReq == StructOf(<<
  "FileId1", InodeId, "ByteOffset1", U64, "Blocks1", ListOf(U64), "FileId2", InodeId, "ByteOffset2", U64>>)
AddSpanLocationResp == StructOf(<<>>)
ScrapTransientFileReq == StructOf(<<"Id", InodeId, "Cookie", Octets(8)>>)
ScrapTransientFileResp == StructOf(<<>>)

(* Pack. *)
LookupReqPack == Msg(ShardMessageKind.LOOKUP, <<Scalar(8, "DirId"), ByteString("Name")>>)
LookupRespPack == Msg(ShardMessageKind.LOOKUP, <<Scalar(8, "TargetId"), Scalar(8, "CreationTime")>>)
StatFileReqPack == Msg(ShardMessageKind.STAT_FILE, <<Scalar(8, "Id")>>)
StatFileRespPack == Msg(ShardMessageKind.STAT_FILE, <<
  Scalar(8, "Mtime"), Scalar(8, "Atime"), Scalar(8, "Size")>>)
StatDirectoryReqPack == Msg(ShardMessageKind.STAT_DIRECTORY, <<Scalar(8, "Id")>>)
DirectoryInfoEntryPack == StepList(<<Scalar(1, "Tag"), ByteString("Body")>>)
DirectoryInfoPack == StepList(<<List(2, "Entries", Nested("", DirectoryInfoEntryPack))>>)
StatDirectoryRespPack == Msg(ShardMessageKind.STAT_DIRECTORY, <<
  Scalar(8, "Mtime"), Scalar(8, "Owner"), Nested("Info", DirectoryInfoPack)>>)
ReadDirReqPack == Msg(ShardMessageKind.READ_DIR, <<
  Scalar(8, "DirId"), Scalar(8, "StartHash"), Scalar(2, "Mtu")>>)
CurrentEdgePack == StepList(<<
  Scalar(8, "TargetId"), Scalar(8, "NameHash"), ByteString("Name"), Scalar(8, "CreationTime")>>)
ReadDirRespPack == Msg(ShardMessageKind.READ_DIR, <<
  Scalar(8, "NextHash"), List(2, "Results", Nested("", CurrentEdgePack))>>)
ConstructFileReqPack == Msg(ShardMessageKind.CONSTRUCT_FILE, <<Scalar(1, "Type"), ByteString("Note")>>)
ConstructFileRespPack == Msg(ShardMessageKind.CONSTRUCT_FILE, <<Scalar(8, "Id"), FixedBytes(8, "Cookie")>>)
FailureDomainPack == StepList(<<FixedBytes(16, "Name")>>)
BlacklistEntryPack == StepList(<<Nested("FailureDomain", FailureDomainPack), Scalar(8, "BlockService")>>)
AddSpanInitiateReqPack == Msg(ShardMessageKind.ADD_SPAN_INITIATE, <<
  Scalar(8, "FileId"), FixedBytes(8, "Cookie"), Scalar(8, "ByteOffset"), Scalar(4, "Size"), Scalar(4, "Crc"),
  Scalar(1, "StorageClass"), List(2, "Blacklist", Nested("", BlacklistEntryPack)), Scalar(1, "Parity"),
  Scalar(1, "Stripes"), Scalar(4, "CellSize"), List(2, "Crcs", Scalar(4, ""))>>)
IpPortPack == StepList(<<FixedBytes(4, "Addrs"), Scalar(2, "Port")>>)
AddrsInfoPack == StepList(<<Nested("Addr1", IpPortPack), Nested("Addr2", IpPortPack)>>)
AddSpanInitiateBlockInfoPack == StepList(<<
  Nested("BlockServiceAddrs", AddrsInfoPack), Scalar(8, "BlockServiceId"),
  Nested("BlockServiceFailureDomain", FailureDomainPack), Scalar(8, "BlockId"), FixedBytes(8, "Certificate")>>)
AddSpanInitiateRespPack == Msg(ShardMessageKind.ADD_SPAN_INITIATE, <<
  List(2, "Blocks", Nested("", AddSpanInitiateBlockInfoPack))>>)
BlockProofPack == StepList(<<Scalar(8, "BlockId"), FixedBytes(8, "Proof")>>)
AddSpanCertifyReqPack == Msg(ShardMessageKind.ADD_SPAN_CERTIFY, <<
  Scalar(8, "FileId"), FixedBytes(8, "Cookie"), Scalar(8, "ByteOffset"),
  List(2, "Proofs", Nested("", BlockProofPack))>>)
AddSpanCertifyRespPack == Msg(ShardMessageKind.ADD_SPAN_CERTIFY, <<>>)
LinkFileReqPack == Msg(ShardMessageKind.LINK_FILE, <<
  Scalar(8, "FileId"), FixedBytes(8, "Cookie"), Scalar(8, "OwnerId"), ByteString("Name")>>)
LinkFileRespPack == Msg(ShardMessageKind.LINK_FILE, <<Scalar(8, "CreationTime")>>)
SoftUnlinkFileReqPack == Msg(ShardMessageKind.SOFT_UNLINK_FILE, <<
  Scalar(8, "OwnerId"), Scalar(8, "FileId"), ByteString("Name"), Scalar(8, "CreationTime")>>)
SoftUnlinkFileRespPack == Msg(ShardMessageKind.SOFT_UNLINK_FILE, <<Scalar(8, "DeleteCreationTime")>>)
LocalFileSpansReqPack == Msg(ShardMessageKind.LOCAL_FILE_SPANS, <<
  Scalar(8, "FileId"), Scalar(8, "ByteOffset"), Scalar(4, "Limit"), Scalar(2, "Mtu")>>)
BlockServicePack == StepList(<<Nested("Addrs", AddrsInfoPack), Scalar(8, "Id"), Scalar(1, "Flags")>>)
FetchedSpanHeaderPack == StepList(<<
  Scalar(8, "ByteOffset"), Scalar(4, "Size"), Scalar(4, "Crc"), Scalar(1, "StorageClass")>>)
FetchedInlineSpanPack == StepList(<<ByteString("Body")>>)
FetchedBlockPack == StepList(<<Scalar(1, "BlockServiceIx"), Scalar(8, "BlockId"), Scalar(4, "Crc")>>)
FetchedBlocksSpanPack == StepList(<<
  Scalar(1, "Parity"), Scalar(1, "Stripes"), Scalar(4, "CellSize"),
  List(2, "Blocks", Nested("", FetchedBlockPack)), List(2, "StripesCrc", Scalar(4, ""))>>)
FetchedSpanPack == StepList(<<
  Nested("Header", FetchedSpanHeaderPack),
  Body("StorageClass", {<<0>>}, <<1>>, FetchedInlineSpanPack, FetchedBlocksSpanPack)>>)
LocalFileSpansRespPack == Msg(ShardMessageKind.LOCAL_FILE_SPANS, <<
  Scalar(8, "NextOffset"), List(2, "BlockServices", Nested("", BlockServicePack)),
  List(2, "Spans", Nested("", FetchedSpanPack))>>)
SameDirectoryRenameReqPack == Msg(ShardMessageKind.SAME_DIRECTORY_RENAME, <<
  Scalar(8, "TargetId"), Scalar(8, "DirId"), ByteString("OldName"), Scalar(8, "OldCreationTime"),
  ByteString("NewName")>>)
SameDirectoryRenameRespPack == Msg(ShardMessageKind.SAME_DIRECTORY_RENAME, <<Scalar(8, "NewCreationTime")>>)
AddInlineSpanReqPack == Msg(ShardMessageKind.ADD_INLINE_SPAN, <<
  Scalar(8, "FileId"), FixedBytes(8, "Cookie"), Scalar(1, "StorageClass"), Scalar(8, "ByteOffset"),
  Scalar(4, "Size"), Scalar(4, "Crc"), ByteString("Body")>>)
AddInlineSpanRespPack == Msg(ShardMessageKind.ADD_INLINE_SPAN, <<>>)
SetTimeReqPack == Msg(ShardMessageKind.SET_TIME, <<Scalar(8, "Id"), Scalar(8, "Mtime"), Scalar(8, "Atime")>>)
SetTimeRespPack == Msg(ShardMessageKind.SET_TIME, <<>>)
FullReadDirReqPack == Msg(ShardMessageKind.FULL_READ_DIR, <<
  Scalar(8, "DirId"), Scalar(1, "Flags"), ByteString("StartName"), Scalar(8, "StartTime"), Scalar(2, "Limit"),
  Scalar(2, "Mtu")>>)
FullReadDirCursorPack == StepList(<<Flag("Current"), ByteString("StartName"), Scalar(8, "StartTime")>>)
EdgePack == StepList(<<
  Flag("Current"), Scalar(8, "TargetId"), Scalar(8, "NameHash"), ByteString("Name"), Scalar(8, "CreationTime")>>)
FullReadDirRespPack == Msg(ShardMessageKind.FULL_READ_DIR, <<
  Nested("Next", FullReadDirCursorPack), List(2, "Results", Nested("", EdgePack))>>)
MoveSpanReqPack == Msg(ShardMessageKind.MOVE_SPAN, <<
  Scalar(4, "SpanSize"), Scalar(8, "FileId1"), Scalar(8, "ByteOffset1"), FixedBytes(8, "Cookie1"),
  Scalar(8, "FileId2"), Scalar(8, "ByteOffset2"), FixedBytes(8, "Cookie2")>>)
MoveSpanRespPack == Msg(ShardMessageKind.MOVE_SPAN, <<>>)
RemoveNonOwnedEdgeReqPack == Msg(ShardMessageKind.REMOVE_NON_OWNED_EDGE, <<
  Scalar(8, "DirId"), Scalar(8, "TargetId"), ByteString("Name"), Scalar(8, "CreationTime")>>)
RemoveNonOwnedEdgeRespPack == Msg(ShardMessageKind.REMOVE_NON_OWNED_EDGE, <<>>)
SameShardHardFileUnlinkReqPack == Msg(ShardMessageKind.SAME_SHARD_HARD_FILE_UNLINK, <<
  Scalar(8, "OwnerId"), Scalar(8, "TargetId"), ByteString("Name"), Scalar(8, "CreationTime")>>)
SameShardHardFileUnlinkRespPack == Msg(ShardMessageKind.SAME_SHARD_HARD_FILE_UNLINK, <<>>)
StatTransientFileReqPack == Msg(ShardMessageKind.STAT_TRANSIENT_FILE, <<Scalar(8, "Id")>>)
StatTransientFileRespPack == Msg(ShardMessageKind.STAT_TRANSIENT_FILE, <<
  Scalar(8, "Mtime"), Scalar(8, "Size"), ByteString("Note")>>)
ShardSnapshotReqPack == Msg(ShardMessageKind.SHARD_SNAPSHOT, <<Scalar(8, "SnapshotId")>>)
ShardSnapshotRespPack == Msg(ShardMessageKind.SHARD_SNAPSHOT, <<>>)
FileSpansReqPack == Msg(ShardMessageKind.FILE_SPANS, <<
  Scalar(8, "FileId"), Scalar(8, "ByteOffset"), Scalar(4, "Limit"), Scalar(2, "Mtu")>>)
FetchedSpanHeaderFullPack == StepList(<<
  Scalar(8, "ByteOffset"), Scalar(4, "Size"), Scalar(4, "Crc"), Flag("IsInline")>>)
FetchedBlockServicesPack == StepList(<<
  Scalar(1, "LocationId"), Scalar(1, "StorageClass"), Scalar(1, "Parity"), Scalar(1, "Stripes"),
  Scalar(4, "CellSize"), List(2, "Blocks", Nested("", FetchedBlockPack)), List(2, "StripesCrc", Scalar(4, ""))>>)
FetchedLocationsPack == StepList(<<List(2, "Locations", Nested("", FetchedBlockServicesPack))>>)
FetchedFullSpanPack == StepList(<<
  Nested("Header", FetchedSpanHeaderFullPack),
  Body("IsInline", {}, <<1>>, FetchedInlineSpanPack, FetchedLocationsPack)>>)
FileSpansRespPack == Msg(ShardMessageKind.FILE_SPANS, <<
  Scalar(8, "NextOffset"), List(2, "BlockServices", Nested("", BlockServicePack)),
  List(2, "Spans", Nested("", FetchedFullSpanPack))>>)
AddSpanLocationReqPack == Msg(ShardMessageKind.ADD_SPAN_LOCATION, <<
  Scalar(8, "FileId1"), Scalar(8, "ByteOffset1"), List(2, "Blocks1", Scalar(8, "")), Scalar(8, "FileId2"),
  Scalar(8, "ByteOffset2")>>)
AddSpanLocationRespPack == Msg(ShardMessageKind.ADD_SPAN_LOCATION, <<>>)
ScrapTransientFileReqPack == Msg(ShardMessageKind.SCRAP_TRANSIENT_FILE, <<
  Scalar(8, "Id"), FixedBytes(8, "Cookie")>>)
ScrapTransientFileRespPack == Msg(ShardMessageKind.SCRAP_TRANSIENT_FILE, <<>>)

(* Unpack. *)
LookupReqUnpack == StepList(<<Scalar(8, "DirId"), ByteString("Name")>>)
LookupRespUnpack == StepList(<<Scalar(8, "TargetId"), Scalar(8, "CreationTime")>>)
StatFileReqUnpack == StepList(<<Scalar(8, "Id")>>)
StatFileRespUnpack == StepList(<<Scalar(8, "Mtime"), Scalar(8, "Atime"), Scalar(8, "Size")>>)
StatDirectoryReqUnpack == StepList(<<Scalar(8, "Id")>>)
DirectoryInfoEntryUnpack == StepList(<<Scalar(1, "Tag"), ByteString("Body")>>)
DirectoryInfoUnpack == StepList(<<List(2, "Entries", Nested("", DirectoryInfoEntryUnpack))>>)
StatDirectoryRespUnpack == StepList(<<Scalar(8, "Mtime"), Scalar(8, "Owner"), Nested("Info", DirectoryInfoUnpack)>>)
ReadDirReqUnpack == StepList(<<Scalar(8, "DirId"), Scalar(8, "StartHash"), Scalar(2, "Mtu")>>)
CurrentEdgeUnpack == StepList(<<
  Scalar(8, "TargetId"), Scalar(8, "NameHash"), ByteString("Name"), Scalar(8, "CreationTime")>>)
ReadDirRespUnpack == StepList(<<Scalar(8, "NextHash"), List(2, "Results", Nested("", CurrentEdgeUnpack))>>)
ConstructFileReqUnpack == StepList(<<Scalar(1, "Type"), ByteString("Note")>>)
ConstructFileRespUnpack == StepList(<<Scalar(8, "Id"), FixedBytes(8, "Cookie")>>)
FailureDomainUnpack == StepList(<<FixedBytes(16, "Name")>>)
BlacklistEntryUnpack == StepList(<<Nested("FailureDomain", FailureDomainUnpack), Scalar(8, "BlockService")>>)
AddSpanInitiateReqUnpack == StepList(<<
  Scalar(8, "FileId"), FixedBytes(8, "Cookie"), Scalar(8, "ByteOffset"), Scalar(4, "Size"), Scalar(4, "Crc"),
  Scalar(1, "StorageClass"), List(2, "Blacklist", Nested("", BlacklistEntryUnpack)), Scalar(1, "Parity"),
  Scalar(1, "Stripes"), Scalar(4, "CellSize"), List(2, "Crcs", Scalar(4, ""))>>)
IpPortUnpack == StepList(<<FixedBytes(4, "Addrs"), Scalar(2, "Port")>>)
AddrsInfoUnpack == StepList(<<Nested("Addr1", IpPortUnpack), Nested("Addr2", IpPortUnpack)>>)
AddSpanInitiateBlockInfoUnpack == StepList(<<
  Nested("BlockServiceAddrs", AddrsInfoUnpack), Scalar(8, "BlockServiceId"),
  Nested("BlockServiceFailureDomain", FailureDomainUnpack), Scalar(8, "BlockId"), FixedBytes(8, "Certificate")>>)
AddSpanInitiateRespUnpack == StepList(<<List(2, "Blocks", Nested("", AddSpanInitiateBlockInfoUnpack))>>)
BlockProofUnpack == StepList(<<Scalar(8, "BlockId"), FixedBytes(8, "Proof")>>)
AddSpanCertifyReqUnpack == StepList(<<
  Scalar(8, "FileId"), FixedBytes(8, "Cookie"), Scalar(8, "ByteOffset"),
  List(2, "Proofs", Nested("", BlockProofUnpack))>>)
AddSpanCertifyRespUnpack == StepList(<<>>)
LinkFileReqUnpack == StepList(<<Scalar(8, "FileId"), FixedBytes(8, "Cookie"), Scalar(8, "OwnerId"), ByteString("Name")>>)
LinkFileRespUnpack == StepList(<<Scalar(8, "CreationTime")>>)
SoftUnlinkFileReqUnpack == StepList(<<
  Scalar(8, "OwnerId"), Scalar(8, "FileId"), ByteString("Name"), Scalar(8, "CreationTime")>>)
SoftUnlinkFileRespUnpack == StepList(<<Scalar(8, "DeleteCreationTime")>>)
LocalFileSpansReqUnpack == StepList(<<
  Scalar(8, "FileId"), Scalar(8, "ByteOffset"), Scalar(4, "Limit"), Scalar(2, "Mtu")>>)
BlockServiceUnpack == StepList(<<Nested("Addrs", AddrsInfoUnpack), Scalar(8, "Id"), Scalar(1, "Flags")>>)
FetchedSpanHeaderUnpack == StepList(<<
  Scalar(8, "ByteOffset"), Scalar(4, "Size"), Scalar(4, "Crc"), Scalar(1, "StorageClass")>>)
FetchedInlineSpanUnpack == StepList(<<ByteString("Body")>>)
FetchedBlockUnpack == StepList(<<Scalar(1, "BlockServiceIx"), Scalar(8, "BlockId"), Scalar(4, "Crc")>>)
FetchedBlocksSpanUnpack == StepList(<<
  Scalar(1, "Parity"), Scalar(1, "Stripes"), Scalar(4, "CellSize"),
  List(2, "Blocks", Nested("", FetchedBlockUnpack)), List(2, "StripesCrc", Scalar(4, ""))>>)
FetchedSpanUnpack == StepList(<<
  Nested("Header", FetchedSpanHeaderUnpack),
  Body("StorageClass", {<<0>>}, <<1>>, FetchedInlineSpanUnpack, FetchedBlocksSpanUnpack)>>)
LocalFileSpansRespUnpack == StepList(<<
  Scalar(8, "NextOffset"), List(2, "BlockServices", Nested("", BlockServiceUnpack)),
  List(2, "Spans", Nested("", FetchedSpanUnpack))>>)
SameDirectoryRenameReqUnpack == StepList(<<
  Scalar(8, "TargetId"), Scalar(8, "DirId"), ByteString("OldName"), Scalar(8, "OldCreationTime"),
  ByteString("NewName")>>)
SameDirectoryRenameRespUnpack == StepList(<<Scalar(8, "NewCreationTime")>>)
AddInlineSpanReqUnpack == StepList(<<
  Scalar(8, "FileId"), FixedBytes(8, "Cookie"), Scalar(1, "StorageClass"), Scalar(8, "ByteOffset"),
  Scalar(4, "Size"), Scalar(4, "Crc"), ByteString("Body")>>)
AddInlineSpanRespUnpack == StepList(<<>>)
SetTimeReqUnpack == StepList(<<Scalar(8, "Id"), Scalar(8, "Mtime"), Scalar(8, "Atime")>>)
SetTimeRespUnpack == StepList(<<>>)
FullReadDirReqUnpack == StepList(<<
  Scalar(8, "DirId"), Scalar(1, "Flags"), ByteString("StartName"), Scalar(8, "StartTime"), Scalar(2, "Limit"),
  Scalar(2, "Mtu")>>)
FullReadDirCursorUnpack == StepList(<<Flag("Current"), ByteString("StartName"), Scalar(8, "StartTime")>>)
EdgeUnpack == StepList(<<
  Flag("Current"), Scalar(8, "TargetId"), Scalar(8, "NameHash"), ByteString("Name"), Scalar(8, "CreationTime")>>)
FullReadDirRespUnpack == StepList(<<
  Nested("Next", FullReadDirCursorUnpack), List(2, "Results", Nested("", EdgeUnpack))>>)
MoveSpanReqUnpack == StepList(<<
  Scalar(4, "SpanSize"), Scalar(8, "FileId1"), Scalar(8, "ByteOffset1"), FixedBytes(8, "Cookie1"),
  Scalar(8, "FileId2"), Scalar(8, "ByteOffset2"), FixedBytes(8, "Cookie2")>>)
MoveSpanRespUnpack == StepList(<<>>)
RemoveNonOwnedEdgeReqUnpack == StepList(<<
  Scalar(8, "DirId"), Scalar(8, "TargetId"), ByteString("Name"), Scalar(8, "CreationTime")>>)
RemoveNonOwnedEdgeRespUnpack == StepList(<<>>)
SameShardHardFileUnlinkReqUnpack == StepList(<<
  Scalar(8, "OwnerId"), Scalar(8, "TargetId"), ByteString("Name"), Scalar(8, "CreationTime")>>)
SameShardHardFileUnlinkRespUnpack == StepList(<<>>)
StatTransientFileReqUnpack == StepList(<<Scalar(8, "Id")>>)
StatTransientFileRespUnpack == StepList(<<Scalar(8, "Mtime"), Scalar(8, "Size"), ByteString("Note")>>)
ShardSnapshotReqUnpack == StepList(<<Scalar(8, "SnapshotId")>>)
ShardSnapshotRespUnpack == StepList(<<>>)
FileSpansReqUnpack == StepList(<<
  Scalar(8, "FileId"), Scalar(8, "ByteOffset"), Scalar(4, "Limit"), Scalar(2, "Mtu")>>)
FetchedSpanHeaderFullUnpack == StepList(<<
  Scalar(8, "ByteOffset"), Scalar(4, "Size"), Scalar(4, "Crc"), Flag("IsInline")>>)
FetchedBlockServicesUnpack == StepList(<<
  Scalar(1, "LocationId"), Scalar(1, "StorageClass"), Scalar(1, "Parity"), Scalar(1, "Stripes"),
  Scalar(4, "CellSize"), List(2, "Blocks", Nested("", FetchedBlockUnpack)),
  List(2, "StripesCrc", Scalar(4, ""))>>)
FetchedLocationsUnpack == StepList(<<List(2, "Locations", Nested("", FetchedBlockServicesUnpack))>>)
FetchedFullSpanUnpack == StepList(<<
  Nested("Header", FetchedSpanHeaderFullUnpack),
  Body("IsInline", {}, <<1>>, FetchedInlineSpanUnpack, FetchedLocationsUnpack)>>)
FileSpansRespUnpack == StepList(<<
  Scalar(8, "NextOffset"), List(2, "BlockServices", Nested("", BlockServiceUnpack)),
  List(2, "Spans", Nested("", FetchedFullSpanUnpack))>>)
AddSpanLocationReqUnpack == StepList(<<
  Scalar(8, "FileId1"), Scalar(8, "ByteOffset1"), List(2, "Blocks1", Scalar(8, "")), Scalar(8, "FileId2"),
  Scalar(8, "ByteOffset2")>>)
AddSpanLocationRespUnpack == StepList(<<>>)
ScrapTransientFileReqUnpack == StepList(<<Scalar(8, "Id"), FixedBytes(8, "Cookie")>>)
ScrapTransientFileRespUnpack == StepList(<<>>)
=============================================================================
