---------------------------- MODULE MsgsCppShard ----------------------------
(***************************************************************************)
(* The messages of a shard in the C++ code (cpp/core/MsgsGen.cpp,          *)
(* MsgsGen.hpp and Msgs.hpp): T_pack and T_unpack are the calls that       *)
(* T::pack and T::unpack make. A field has the name that operator<< prints *)
(* for it, which is that of the Go one.                                    *)
(***************************************************************************)
EXTENDS MsgsKinds

(* pack. *)
LookupReq_pack == StepList(<<Checked("InodeId", 8, "DirId"), ByteString("Name")>>)
LookupResp_pack == StepList(<<Checked("InodeId", 8, "TargetId"), Scalar(8, "CreationTime")>>)
StatFileReq_pack == StepList(<<Checked("InodeId", 8, "Id")>>)
StatFileResp_pack == StepList(<<Scalar(8, "Mtime"), Scalar(8, "Atime"), Scalar(8, "Size")>>)
StatDirectoryReq_pack == StepList(<<Checked("InodeId", 8, "Id")>>)
DirectoryInfoEntry_pack == StepList(<<Scalar(1, "Tag"), ByteString("Body")>>)
DirectoryInfo_pack == StepList(<<List(2, "Entries", Nested("", DirectoryInfoEntry_pack))>>)
StatDirectoryResp_pack == StepList(<<
  Scalar(8, "Mtime"), Checked("InodeId", 8, "Owner"), Nested("Info", DirectoryInfo_pack)>>)
ReadDirReq_pack == StepList(<<Checked("InodeId", 8, "DirId"), Scalar(8, "StartHash"), Scalar(2, "Mtu")>>)
CurrentEdge_pack == StepList(<<
  Checked("InodeId", 8, "TargetId"), Scalar(8, "NameHash"), ByteString("Name"), Scalar(8, "CreationTime")>>)
ReadDirResp_pack == StepList(<<Scalar(8, "NextHash"), List(2, "Results", Nested("", CurrentEdge_pack))>>)
ConstructFileReq_pack == StepList(<<Scalar(1, "Type"), ByteString("Note")>>)
ConstructFileResp_pack == StepList(<<Checked("InodeId", 8, "Id"), FixedBytes(8, "Cookie")>>)
FailureDomain_pack == StepList(<<FixedBytes(16, "Name")>>)
BlacklistEntry_pack == StepList(<<Nested("FailureDomain", FailureDomain_pack), Scalar(8, "BlockService")>>)
AddSpanInitiateReq_pack == StepList(<<
  Checked("InodeId", 8, "FileId"), FixedBytes(8, "Cookie"), Scalar(8, "ByteOffset"), Scalar(4, "Size"),
  Scalar(4, "Crc"), Scalar(1, "StorageClass"), List(2, "Blacklist", Nested("", BlacklistEntry_pack)),
  Scalar(1, "Parity"), Scalar(1, "Stripes"), Scalar(4, "CellSize"), List(2, "Crcs", Scalar(4, ""))>>)
IpPort_pack == StepList(<<FixedBytes(4, "Addrs"), Scalar(2, "Port")>>)
AddrsInfo_pack == StepList(<<Nested("Addr1", IpPort_pack), Nested("Addr2", IpPort_pack)>>)
AddSpanInitiateBlockInfo_pack == StepList(<<
  Nested("BlockServiceAddrs", AddrsInfo_pack), Scalar(8, "BlockServiceId"),
  Nested("BlockServiceFailureDomain", FailureDomain_pack), Scalar(8, "BlockId"), FixedBytes(8, "Certificate")>>)
AddSpanInitiateResp_pack == StepList(<<List(2, "Blocks", Nested("", AddSpanInitiateBlockInfo_pack))>>)
BlockProof_pack == StepList(<<Scalar(8, "BlockId"), FixedBytes(8, "Proof")>>)
AddSpanCertifyReq_pack == StepList(<<
  Checked("InodeId", 8, "FileId"), FixedBytes(8, "Cookie"), Scalar(8, "ByteOffset"),
  List(2, "Proofs", Nested("", BlockProof_pack))>>)
AddSpanCertifyResp_pack == StepList(<<>>)
LinkFileReq_pack == StepList(<<
  Checked("InodeId", 8, "FileId"), FixedBytes(8, "Cookie"), Checked("InodeId", 8, "OwnerId"), ByteString("Name")>>)
LinkFileResp_pack == StepList(<<Scalar(8, "CreationTime")>>)
SoftUnlinkFileReq_pack == StepList(<<
  Checked("InodeId", 8, "OwnerId"), Checked("InodeId", 8, "FileId"), ByteString("Name"),
  Scalar(8, "CreationTime")>>)
SoftUnlinkFileResp_pack == StepList(<<Scalar(8, "DeleteCreationTime")>>)
LocalFileSpansReq_pack == StepList(<<
  Checked("InodeId", 8, "FileId"), Scalar(8, "ByteOffset"), Scalar(4, "Limit"), Scalar(2, "Mtu")>>)
BlockService_pack == StepList(<<Nested("Addrs", AddrsInfo_pack), Scalar(8, "Id"), Scalar(1, "Flags")>>)
FetchedSpanHeader_pack == StepList(<<
  Scalar(8, "ByteOffset"), Scalar(4, "Size"), Scalar(4, "Crc"), Scalar(1, "StorageClass")>>)
FetchedInlineSpan_pack == StepList(<<ByteString("Body")>>)
FetchedBlock_pack == StepList(<<Scalar(1, "BlockServiceIx"), Scalar(8, "BlockId"), Scalar(4, "Crc")>>)
FetchedBlocksSpan_pack == StepList(<<
  Scalar(1, "Parity"), Scalar(1, "Stripes"), Scalar(4, "CellSize"),
  List(2, "Blocks", Nested("", FetchedBlock_pack)), List(2, "StripesCrc", Scalar(4, ""))>>)
FetchedSpan_pack == StepList(<<
  Nested("Header", FetchedSpanHeader_pack),
  Body("StorageClass", {<<0>>}, <<1>>, FetchedInlineSpan_pack, FetchedBlocksSpan_pack)>>)
LocalFileSpansResp_pack == StepList(<<
  Scalar(8, "NextOffset"), List(2, "BlockServices", Nested("", BlockService_pack)),
  List(2, "Spans", Nested("", FetchedSpan_pack))>>)
SameDirectoryRenameReq_pack == StepList(<<
  Checked("InodeId", 8, "TargetId"), Checked("InodeId", 8, "DirId"), ByteString("OldName"),
  Scalar(8, "OldCreationTime"), ByteString("NewName")>>)
SameDirectoryRenameResp_pack == StepList(<<Scalar(8, "NewCreationTime")>>)
AddInlineSpanReq_pack == StepList(<<
  Checked("InodeId", 8, "FileId"), FixedBytes(8, "Cookie"), Scalar(1, "StorageClass"), Scalar(8, "ByteOffset"),
  Scalar(4, "Size"), Scalar(4, "Crc"), ByteString("Body")>>)
AddInlineSpanResp_pack == StepList(<<>>)
SetTimeReq_pack == StepList(<<Checked("InodeId", 8, "Id"), Scalar(8, "Mtime"), Scalar(8, "Atime")>>)
SetTimeResp_pack == StepList(<<>>)
FullReadDirReq_pack == StepList(<<
  Checked("InodeId", 8, "DirId"), Scalar(1, "Flags"), ByteString("StartName"), Scalar(8, "StartTime"),
  Scalar(2, "Limit"), Scalar(2, "Mtu")>>)
FullReadDirCursor_pack == StepList(<<Flag("Current"), ByteString("StartName"), Scalar(8, "StartTime")>>)
Edge_pack == StepList(<<
  Flag("Current"), Checked("InodeIdExtra", 8, "TargetId"), Scalar(8, "NameHash"), ByteString("Name"),
  Scalar(8, "CreationTime")>>)
FullReadDirResp_pack == StepList(<<Nested("Next", FullReadDirCursor_pack), List(2, "Results", Nested("", Edge_pack))>>)
MoveSpanReq_pack == StepList(<<
  Scalar(4, "SpanSize"), Checked("InodeId", 8, "FileId1"), Scalar(8, "ByteOffset1"), FixedBytes(8, "Cookie1"),
  Checked("InodeId", 8, "FileId2"), Scalar(8, "ByteOffset2"), FixedBytes(8, "Cookie2")>>)
MoveSpanResp_pack == StepList(<<>>)
RemoveNonOwnedEdgeReq_pack == StepList(<<
  Checked("InodeId", 8, "DirId"), Checked("InodeId", 8, "TargetId"), ByteString("Name"),
  Scalar(8, "CreationTime")>>)
RemoveNonOwnedEdgeResp_pack == StepList(<<>>)
SameShardHardFileUnlinkReq_pack == StepList(<<
  Checked("InodeId", 8, "OwnerId"), Checked("InodeId", 8, "TargetId"), ByteString("Name"),
  Scalar(8, "CreationTime")>>)
SameShardHardFileUnlinkResp_pack == StepList(<<>>)
StatTransientFileReq_pack == StepList(<<Checked("InodeId", 8, "Id")>>)
StatTransientFileResp_pack == StepList(<<Scalar(8, "Mtime"), Scalar(8, "Size"), ByteString("Note")>>)
ShardSnapshotReq_pack == StepList(<<Scalar(8, "SnapshotId")>>)
ShardSnapshotResp_pack == StepList(<<>>)
FileSpansReq_pack == StepList(<<
  Checked("InodeId", 8, "FileId"), Scalar(8, "ByteOffset"), Scalar(4, "Limit"), Scalar(2, "Mtu")>>)
FetchedSpanHeaderFull_pack == StepList(<<
  Scalar(8, "ByteOffset"), Scalar(4, "Size"), Scalar(4, "Crc"), Flag("IsInline")>>)
FetchedBlockServices_pack == StepList(<<
  Scalar(1, "LocationId"), Scalar(1, "StorageClass"), Scalar(1, "Parity"), Scalar(1, "Stripes"),
  Scalar(4, "CellSize"), List(2, "Blocks", Nested("", FetchedBlock_pack)),
  List(2, "StripesCrc", Scalar(4, ""))>>)
FetchedLocations_pack == StepList(<<List(2, "Locations", Nested("", FetchedBlockServices_pack))>>)
FetchedFullSpan_pack == StepList(<<
  Nested("Header", FetchedSpanHeaderFull_pack),
  Body("IsInline", {}, <<1>>, FetchedInlineSpan_pack, FetchedLocations_pack)>>)
FileSpansResp_pack == StepList(<<
  Scalar(8, "NextOffset"), List(2, "BlockServices", Nested("", BlockService_pack)),
  List(2, "Spans", Nested("", FetchedFullSpan_pack))>>)
AddSpanLocationReq_pack == StepList(<<
  Checked("InodeId", 8, "FileId1"), Scalar(8, "ByteOffset1"), List(2, "Blocks1", Scalar(8, "")),
  Checked("InodeId", 8, "FileId2"), Scalar(8, "ByteOffset2")>>)
AddSpanLocationResp_pack == StepList(<<>>)
ScrapTransientFileReq_pack == StepList(<<Checked("InodeId", 8, "Id"), FixedBytes(8, "Cookie")>>)
ScrapTransientFileResp_pack == StepList(<<>>)
SetDirectoryInfoReq_pack == StepList(<<Checked("InodeId", 8, "Id"), Nested("Info", DirectoryInfo_pack)>>)
SetDirectoryInfoResp_pack == StepList(<<>>)
GetLinkEntriesReq_pack == StepList(<<Scalar(8, "FromIdx"), Scalar(2, "Mtu")>>)
LinkEntry_pack == StepList(<<Checked("InodeId", 8, "Id"), Checked("InodeId", 8, "OwnerId"), Scalar(8, "Time")>>)
GetLinkEntriesResp_pack == StepList(<<List(2, "Entries", Nested("", LinkEntry_pack)), Scalar(8, "NextIdx")>>)
WaitStateAppliedReq_pack == StepList(<<Scalar(8, "Idx")>>)
WaitStateAppliedResp_pack == StepList(<<>>)
VisitDirectoriesReq_pack == StepList(<<Checked("InodeId", 8, "BeginId"), Scalar(2, "Mtu")>>)
VisitDirectoriesResp_pack == StepList(<<
  Checked("InodeId", 8, "NextId"), List(2, "Ids", Checked("InodeId", 8, ""))>>)
VisitFilesReq_pack == StepList(<<Checked("InodeId", 8, "BeginId"), Scalar(2, "Mtu")>>)
VisitFilesResp_pack == StepList(<<Checked("InodeId", 8, "NextId"), List(2, "Ids", Checked("InodeId", 8, ""))>>)
VisitTransientFilesReq_pack == StepList(<<Checked("InodeId", 8, "BeginId"), Scalar(2, "Mtu")>>)
TransientFile_pack == StepList(<<Checked("InodeId", 8, "Id"), FixedBytes(8, "Cookie"), Scalar(8, "DeadlineTime")>>)
VisitTransientFilesResp_pack == StepList(<<
  Checked("InodeId", 8, "NextId"), List(2, "Files", Nested("", TransientFile_pack))>>)
RemoveSpanInitiateReq_pack == StepList(<<Checked("InodeId", 8, "FileId"), FixedBytes(8, "Cookie")>>)
RemoveSpanInitiateBlockInfo_pack == StepList(<<
  Nested("BlockServiceAddrs", AddrsInfo_pack), Scalar(8, "BlockServiceId"),
  Nested("BlockServiceFailureDomain", FailureDomain_pack), Scalar(1, "BlockServiceFlags"), Scalar(8, "BlockId"),
  FixedBytes(8, "Certificate")>>)
RemoveSpanInitiateResp_pack == StepList(<<
  Scalar(8, "ByteOffset"), List(2, "Blocks", Nested("", RemoveSpanInitiateBlockInfo_pack))>>)
RemoveSpanCertifyReq_pack == StepList(<<
  Checked("InodeId", 8, "FileId"), FixedBytes(8, "Cookie"), Scalar(8, "ByteOffset"),
  List(2, "Proofs", Nested("", BlockProof_pack))>>)
RemoveSpanCertifyResp_pack == StepList(<<>>)
SwapBlocksReq_pack == StepList(<<
  Checked("InodeId", 8, "FileId1"), Scalar(8, "ByteOffset1"), Scalar(8, "BlockId1"),
  Checked("InodeId", 8, "FileId2"), Scalar(8, "ByteOffset2"), Scalar(8, "BlockId2")>>)
SwapBlocksResp_pack == StepList(<<>>)
BlockServiceFilesReq_pack == StepList(<<Scalar(8, "BlockServiceId"), Checked("InodeId", 8, "StartFrom")>>)
BlockServiceFilesResp_pack == StepList(<<List(2, "FileIds", Checked("InodeId", 8, ""))>>)
RemoveInodeReq_pack == StepList(<<Checked("InodeId", 8, "Id")>>)
RemoveInodeResp_pack == StepList(<<>>)
AddSpanInitiateWithReferenceReq_pack == StepList(<<
  Nested("Req", AddSpanInitiateReq_pack), Checked("InodeId", 8, "Reference")>>)
AddSpanInitiateWithReferenceResp_pack == StepList(<<Nested("Resp", AddSpanInitiateResp_pack)>>)
RemoveZeroBlockServiceFilesReq_pack == StepList(<<
  Scalar(8, "StartBlockService"), Checked("InodeId", 8, "StartFile")>>)
RemoveZeroBlockServiceFilesResp_pack == StepList(<<
  Scalar(8, "Removed"), Scalar(8, "NextBlockService"), Checked("InodeId", 8, "NextFile")>>)
SwapSpansReq_pack == StepList(<<
  Checked("InodeId", 8, "FileId1"), Scalar(8, "ByteOffset1"), List(2, "Blocks1", Scalar(8, "")),
  Checked("InodeId", 8, "FileId2"), Scalar(8, "ByteOffset2"), List(2, "Blocks2", Scalar(8, ""))>>)
SwapSpansResp_pack == StepList(<<>>)
SameDirectoryRenameSnapshotReq_pack == StepList(<<
  Checked("InodeId", 8, "TargetId"), Checked("InodeId", 8, "DirId"), ByteString("OldName"),
  Scalar(8, "OldCreationTime"), ByteString("NewName")>>)
SameDirectoryRenameSnapshotResp_pack == StepList(<<Scalar(8, "NewCreationTime")>>)
AddSpanAtLocationInitiateReq_pack == StepList(<<
  Scalar(1, "LocationId"), Nested("Req", AddSpanInitiateWithReferenceReq_pack)>>)
AddSpanAtLocationInitiateResp_pack == StepList(<<Nested("Resp", AddSpanInitiateResp_pack)>>)

(* unpack. *)
LookupReq_unpack == StepList(<<Checked("InodeId", 8, "DirId"), ByteString("Name")>>)
LookupResp_unpack == StepList(<<Checked("InodeId", 8, "TargetId"), Scalar(8, "CreationTime")>>)
StatFileReq_unpack == StepList(<<Checked("InodeId", 8, "Id")>>)
StatFileResp_unpack == StepList(<<Scalar(8, "Mtime"), Scalar(8, "Atime"), Scalar(8, "Size")>>)
StatDirectoryReq_unpack == StepList(<<Checked("InodeId", 8, "Id")>>)
DirectoryInfoEntry_unpack == StepList(<<Scalar(1, "Tag"), ByteString("Body")>>)
DirectoryInfo_unpack == StepList(<<
  ListMin(2, "Entries", Nested("", DirectoryInfoEntry_unpack), DirectoryInfoEntry_STATIC_SIZE)>>)
StatDirectoryResp_unpack == StepList(<<
  Scalar(8, "Mtime"), Checked("InodeId", 8, "Owner"), Nested("Info", DirectoryInfo_unpack)>>)
ReadDirReq_unpack == StepList(<<Checked("InodeId", 8, "DirId"), Scalar(8, "StartHash"), Scalar(2, "Mtu")>>)
CurrentEdge_unpack == StepList(<<
  Checked("InodeId", 8, "TargetId"), Scalar(8, "NameHash"), ByteString("Name"), Scalar(8, "CreationTime")>>)
ReadDirResp_unpack == StepList(<<
  Scalar(8, "NextHash"), ListMin(2, "Results", Nested("", CurrentEdge_unpack), CurrentEdge_STATIC_SIZE)>>)
ConstructFileReq_unpack == StepList(<<Scalar(1, "Type"), ByteString("Note")>>)
ConstructFileResp_unpack == StepList(<<Checked("InodeId", 8, "Id"), FixedBytes(8, "Cookie")>>)
FailureDomain_unpack == StepList(<<FixedBytes(16, "Name")>>)
BlacklistEntry_unpack == StepList(<<Nested("FailureDomain", FailureDomain_unpack), Scalar(8, "BlockService")>>)
AddSpanInitiateReq_unpack == StepList(<<
  Checked("InodeId", 8, "FileId"), FixedBytes(8, "Cookie"), Scalar(8, "ByteOffset"), Scalar(4, "Size"),
  Scalar(4, "Crc"), Scalar(1, "StorageClass"),
  ListMin(2, "Blacklist", Nested("", BlacklistEntry_unpack), BlacklistEntry_STATIC_SIZE), Scalar(1, "Parity"),
  Scalar(1, "Stripes"), Scalar(4, "CellSize"), ListMin(2, "Crcs", Scalar(4, ""), 4)>>)
IpPort_unpack == StepList(<<FixedBytes(4, "Addrs"), Scalar(2, "Port")>>)
AddrsInfo_unpack == StepList(<<Nested("Addr1", IpPort_unpack), Nested("Addr2", IpPort_unpack)>>)
AddSpanInitiateBlockInfo_unpack == StepList(<<
  Nested("BlockServiceAddrs", AddrsInfo_unpack), Scalar(8, "BlockServiceId"),
  Nested("BlockServiceFailureDomain", FailureDomain_unpack), Scalar(8, "BlockId"), FixedBytes(8, "Certificate")>>)
AddSpanInitiateResp_unpack == StepList(<<
  ListMin(2, "Blocks", Nested("", AddSpanInitiateBlockInfo_unpack), AddSpanInitiateBlockInfo_STATIC_SIZE)>>)
BlockProof_unpack == StepList(<<Scalar(8, "BlockId"), FixedBytes(8, "Proof")>>)
AddSpanCertifyReq_unpack == StepList(<<
  Checked("InodeId", 8, "FileId"), FixedBytes(8, "Cookie"), Scalar(8, "ByteOffset"),
  ListMin(2, "Proofs", Nested("", BlockProof_unpack), BlockProof_STATIC_SIZE)>>)
AddSpanCertifyResp_unpack == StepList(<<>>)
LinkFileReq_unpack == StepList(<<
  Checked("InodeId", 8, "FileId"), FixedBytes(8, "Cookie"), Checked("InodeId", 8, "OwnerId"), ByteString("Name")>>)
LinkFileResp_unpack == StepList(<<Scalar(8, "CreationTime")>>)
SoftUnlinkFileReq_unpack == StepList(<<
  Checked("InodeId", 8, "OwnerId"), Checked("InodeId", 8, "FileId"), ByteString("Name"),
  Scalar(8, "CreationTime")>>)
SoftUnlinkFileResp_unpack == StepList(<<Scalar(8, "DeleteCreationTime")>>)
LocalFileSpansReq_unpack == StepList(<<
  Checked("InodeId", 8, "FileId"), Scalar(8, "ByteOffset"), Scalar(4, "Limit"), Scalar(2, "Mtu")>>)
BlockService_unpack == StepList(<<Nested("Addrs", AddrsInfo_unpack), Scalar(8, "Id"), Scalar(1, "Flags")>>)
FetchedSpanHeader_unpack == StepList(<<
  Scalar(8, "ByteOffset"), Scalar(4, "Size"), Scalar(4, "Crc"), Scalar(1, "StorageClass")>>)
FetchedInlineSpan_unpack == StepList(<<ByteString("Body")>>)
FetchedBlock_unpack == StepList(<<Scalar(1, "BlockServiceIx"), Scalar(8, "BlockId"), Scalar(4, "Crc")>>)
FetchedBlocksSpan_unpack == StepList(<<
  Scalar(1, "Parity"), Scalar(1, "Stripes"), Scalar(4, "CellSize"),
  ListMin(2, "Blocks", Nested("", FetchedBlock_unpack), FetchedBlock_STATIC_SIZE),
  ListMin(2, "StripesCrc", Scalar(4, ""), 4)>>)
FetchedSpan_unpack == StepList(<<
  Nested("Header", FetchedSpanHeader_unpack),
  Body("StorageClass", {<<0>>}, <<1>>, FetchedInlineSpan_unpack, FetchedBlocksSpan_unpack)>>)
LocalFileSpansResp_unpack == StepList(<<
  Scalar(8, "NextOffset"),
  ListMin(2, "BlockServices", Nested("", BlockService_unpack), BlockService_STATIC_SIZE),
  ListMin(2, "Spans", Nested("", FetchedSpan_unpack), FetchedSpan_STATIC_SIZE)>>)
SameDirectoryRenameReq_unpack == StepList(<<
  Checked("InodeId", 8, "TargetId"), Checked("InodeId", 8, "DirId"), ByteString("OldName"),
  Scalar(8, "OldCreationTime"), ByteString("NewName")>>)
SameDirectoryRenameResp_unpack == StepList(<<Scalar(8, "NewCreationTime")>>)
AddInlineSpanReq_unpack == StepList(<<
  Checked("InodeId", 8, "FileId"), FixedBytes(8, "Cookie"), Scalar(1, "StorageClass"), Scalar(8, "ByteOffset"),
  Scalar(4, "Size"), Scalar(4, "Crc"), ByteString("Body")>>)
AddInlineSpanResp_unpack == StepList(<<>>)
SetTimeReq_unpack == StepList(<<Checked("InodeId", 8, "Id"), Scalar(8, "Mtime"), Scalar(8, "Atime")>>)
SetTimeResp_unpack == StepList(<<>>)
FullReadDirReq_unpack == StepList(<<
  Checked("InodeId", 8, "DirId"), Scalar(1, "Flags"), ByteString("StartName"), Scalar(8, "StartTime"),
  Scalar(2, "Limit"), Scalar(2, "Mtu")>>)
FullReadDirCursor_unpack == StepList(<<Flag("Current"), ByteString("StartName"), Scalar(8, "StartTime")>>)
Edge_unpack == StepList(<<
  Flag("Current"), Checked("InodeIdExtra", 8, "TargetId"), Scalar(8, "NameHash"), ByteString("Name"),
  Scalar(8, "CreationTime")>>)
FullReadDirResp_unpack == StepList(<<
  Nested("Next", FullReadDirCursor_unpack), ListMin(2, "Results", Nested("", Edge_unpack), Edge_STATIC_SIZE)>>)
MoveSpanReq_unpack == StepList(<<
  Scalar(4, "SpanSize"), Checked("InodeId", 8, "FileId1"), Scalar(8, "ByteOffset1"), FixedBytes(8, "Cookie1"),
  Checked("InodeId", 8, "FileId2"), Scalar(8, "ByteOffset2"), FixedBytes(8, "Cookie2")>>)
MoveSpanResp_unpack == StepList(<<>>)
RemoveNonOwnedEdgeReq_unpack == StepList(<<
  Checked("InodeId", 8, "DirId"), Checked("InodeId", 8, "TargetId"), ByteString("Name"),
  Scalar(8, "CreationTime")>>)
RemoveNonOwnedEdgeResp_unpack == StepList(<<>>)
SameShardHardFileUnlinkReq_unpack == StepList(<<
  Checked("InodeId", 8, "OwnerId"), Checked("InodeId", 8, "TargetId"), ByteString("Name"),
  Scalar(8, "CreationTime")>>)
SameShardHardFileUnlinkResp_unpack == StepList(<<>>)
StatTransientFileReq_unpack == StepList(<<Checked("InodeId", 8, "Id")>>)
StatTransientFileResp_unpack == StepList(<<Scalar(8, "Mtime"), Scalar(8, "Size"), ByteString("Note")>>)
ShardSnapshotReq_unpack == StepList(<<Scalar(8, "SnapshotId")>>)
ShardSnapshotResp_unpack == StepList(<<>>)
FileSpansReq_unpack == StepList(<<
  Checked("InodeId", 8, "FileId"), Scalar(8, "ByteOffset"), Scalar(4, "Limit"), Scalar(2, "Mtu")>>)
FetchedSpanHeaderFull_unpack == StepList(<<
  Scalar(8, "ByteOffset"), Scalar(4, "Size"), Scalar(4, "Crc"), Flag("IsInline")>>)
FetchedBlockServices_unpack == StepList(<<
  Scalar(1, "LocationId"), Scalar(1, "StorageClass"), Scalar(1, "Parity"), Scalar(1, "Stripes"),
  Scalar(4, "CellSize"), ListMin(2, "Blocks", Nested("", FetchedBlock_unpack), FetchedBlock_STATIC_SIZE),
  ListMin(2, "StripesCrc", Scalar(4, ""), 4)>>)
FetchedLocations_unpack == StepList(<<
  ListMin(2, "Locations", Nested("", FetchedBlockServices_unpack), FetchedBlockServices_STATIC_SIZE)>>)
FetchedFullSpan_unpack == StepList(<<
  Nested("Header", FetchedSpanHeaderFull_unpack),
  Body("IsInline", {}, <<1>>, FetchedInlineSpan_unpack, FetchedLocations_unpack)>>)
FileSpansResp_unpack == StepList(<<
  Scalar(8, "NextOffset"),
  ListMin(2, "BlockServices", Nested("", BlockService_unpack), BlockService_STATIC_SIZE),
  ListMin(2, "Spans", Nested("", FetchedFullSpan_unpack), FetchedFullSpan_STATIC_SIZE)>>)
AddSpanLocationReq_unpack == StepList(<<
  Checked("InodeId", 8, "FileId1"), Scalar(8, "ByteOffset1"), ListMin(2, "Blocks1", Scalar(8, ""), 8),
  Checked("InodeId", 8, "FileId2"), Scalar(8, "ByteOffset2")>>)
AddSpanLocationResp_unpack == StepList(<<>>)
ScrapTransientFileReq_unpack == StepList(<<Checked("InodeId", 8, "Id"), FixedBytes(8, "Cookie")>>)
ScrapTransientFileResp_unpack == StepList(<<>>)
SetDirectoryInfoReq_unpack == StepList(<<Checked("InodeId", 8, "Id"), Nested("Info", DirectoryInfo_unpack)>>)
SetDirectoryInfoResp_unpack == StepList(<<>>)
GetLinkEntriesReq_unpack == StepList(<<Scalar(8, "FromIdx"), Scalar(2, "Mtu")>>)
LinkEntry_unpack == StepList(<<Checked("InodeId", 8, "Id"), Checked("InodeId", 8, "OwnerId"), Scalar(8, "Time")>>)
GetLinkEntriesResp_unpack == StepList(<<
  ListMin(2, "Entries", Nested("", LinkEntry_unpack), LinkEntry_STATIC_SIZE), Scalar(8, "NextIdx")>>)
WaitStateAppliedReq_unpack == StepList(<<Scalar(8, "Idx")>>)
WaitStateAppliedResp_unpack == StepList(<<>>)
VisitDirectoriesReq_unpack == StepList(<<Checked("InodeId", 8, "BeginId"), Scalar(2, "Mtu")>>)
VisitDirectoriesResp_unpack == StepList(<<
  Checked("InodeId", 8, "NextId"), ListMin(2, "Ids", Checked("InodeId", 8, ""), 8)>>)
VisitFilesReq_unpack == StepList(<<Checked("InodeId", 8, "BeginId"), Scalar(2, "Mtu")>>)
VisitFilesResp_unpack == StepList(<<
  Checked("InodeId", 8, "NextId"), ListMin(2, "Ids", Checked("InodeId", 8, ""), 8)>>)
VisitTransientFilesReq_unpack == StepList(<<Checked("InodeId", 8, "BeginId"), Scalar(2, "Mtu")>>)
TransientFile_unpack == StepList(<<Checked("InodeId", 8, "Id"), FixedBytes(8, "Cookie"), Scalar(8, "DeadlineTime")>>)
VisitTransientFilesResp_unpack == StepList(<<
  Checked("InodeId", 8, "NextId"),
  ListMin(2, "Files", Nested("", TransientFile_unpack), TransientFile_STATIC_SIZE)>>)
RemoveSpanInitiateReq_unpack == StepList(<<Checked("InodeId", 8, "FileId"), FixedBytes(8, "Cookie")>>)
RemoveSpanInitiateBlockInfo_unpack == StepList(<<
  Nested("BlockServiceAddrs", AddrsInfo_unpack), Scalar(8, "BlockServiceId"),
  Nested("BlockServiceFailureDomain", FailureDomain_unpack), Scalar(1, "BlockServiceFlags"),
  Scalar(8, "BlockId"), FixedBytes(8, "Certificate")>>)
RemoveSpanInitiateResp_unpack == StepList(<<
  Scalar(8, "ByteOffset"),
  ListMin(2, "Blocks", Nested("", RemoveSpanInitiateBlockInfo_unpack), RemoveSpanInitiateBlockInfo_STATIC_SIZE)>>)
RemoveSpanCertifyReq_unpack == StepList(<<
  Checked("InodeId", 8, "FileId"), FixedBytes(8, "Cookie"), Scalar(8, "ByteOffset"),
  ListMin(2, "Proofs", Nested("", BlockProof_unpack), BlockProof_STATIC_SIZE)>>)
RemoveSpanCertifyResp_unpack == StepList(<<>>)
SwapBlocksReq_unpack == StepList(<<
  Checked("InodeId", 8, "FileId1"), Scalar(8, "ByteOffset1"), Scalar(8, "BlockId1"),
  Checked("InodeId", 8, "FileId2"), Scalar(8, "ByteOffset2"), Scalar(8, "BlockId2")>>)
SwapBlocksResp_unpack == StepList(<<>>)
BlockServiceFilesReq_unpack == StepList(<<Scalar(8, "BlockServiceId"), Checked("InodeId", 8, "StartFrom")>>)
BlockServiceFilesResp_unpack == StepList(<<ListMin(2, "FileIds", Checked("InodeId", 8, ""), 8)>>)
RemoveInodeReq_unpack == StepList(<<Checked("InodeId", 8, "Id")>>)
RemoveInodeResp_unpack == StepList(<<>>)
AddSpanInitiateWithReferenceReq_unpack == StepList(<<
  Nested("Req", AddSpanInitiateReq_unpack), Checked("InodeId", 8, "Reference")>>)
AddSpanInitiateWithReferenceResp_unpack == StepList(<<Nested("Resp", AddSpanInitiateResp_unpack)>>)
RemoveZeroBlockServiceFilesReq_unpack == StepList(<<
  Scalar(8, "StartBlockService"), Checked("InodeId", 8, "StartFile")>>)
RemoveZeroBlockServiceFilesResp_unpack == StepList(<<
  Scalar(8, "Removed"), Scalar(8, "NextBlockService"), Checked("InodeId", 8, "NextFile")>>)
SwapSpansReq_unpack == StepList(<<
  Checked("InodeId", 8, "FileId1"), Scalar(8, "ByteOffset1"), ListMin(2, "Blocks1", Scalar(8, ""), 8),
  Checked("InodeId", 8, "FileId2"), Scalar(8, "ByteOffset2"), ListMin(2, "Blocks2", Scalar(8, ""), 8)>>)
SwapSpansResp_unpack == StepList(<<>>)
SameDirectoryRenameSnapshotReq_unpack == StepList(<<
  Checked("InodeId", 8, "TargetId"), Checked("InodeId", 8, "DirId"), ByteString("OldName"),
  Scalar(8, "OldCreationTime"), ByteString("NewName")>>)
SameDirectoryRenameSnapshotResp_unpack == StepList(<<Scalar(8, "NewCreationTime")>>)
AddSpanAtLocationInitiateReq_unpack == StepList(<<
  Scalar(1, "LocationId"), Nested("Req", AddSpanInitiateWithReferenceReq_unpack)>>)
AddSpanAtLocationInitiateResp_unpack == StepList(<<Nested("Resp", AddSpanInitiateResp_unpack)>>)
=============================================================================
