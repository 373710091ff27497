----------------------------- MODULE MsgsGoCDC ------------------------------
(***************************************************************************)
(* The messages of a shard that the collector and the CDC send, and the    *)
(* CDC's as the Go code holds them (the structs of go/msgs/msgs.go), and   *)
(* the functions that pack and unpack them (go/msgs/msgs_bincode.go). T is *)
(* the struct; TPack the calls that T.Pack makes, with the kind that T's   *)
(* RequestKind or ResponseKind method gives; TUnpack the calls that        *)
(* T.Unpack makes.                                                         *)
(***************************************************************************)
EXTENDS MsgsGoShard

(* The structs. *)
SetDirectoryInfoReq == StructOf(<<"Id", InodeId, "Info", DirectoryInfo>>)
SetDirectoryInfoResp == StructOf(<<>>)
GetLinkEntriesReq == StructOf(<<"FromIdx", U64, "Mtu", U16>>)
LinkEntry == StructOf(<<"Id", InodeId, "OwnerId", InodeId, "Time", U64>>)
GetLinkEntriesResp == StructOf(<<"Entries", ListOf(LinkEntry), "NextIdx", U64>>)
WaitStateAppliedReq == StructOf(<<"Idx", U64>>)
WaitStateAppliedResp == StructOf(<<>>)
VisitDirectoriesReq == StructOf(<<"BeginId", InodeId, "Mtu", U16>>)
VisitDirectoriesResp == StructOf(<<"NextId", InodeId, "Ids", ListOf(InodeId)>>)
VisitFilesReq == StructOf(<<"BeginId", InodeId, "Mtu", U16>>)
VisitFilesResp == StructOf(<<"NextId", InodeId, "Ids", ListOf(InodeId)>>)
VisitTransientFilesReq == StructOf(<<"BeginId", InodeId, "Mtu", U16>>)
TransientFile == StructOf(<<"Id", InodeId, "Cookie", Octets(8), "DeadlineTime", U64>>)
VisitTransientFilesResp == StructOf(<<"NextId", InodeId, "Files", ListOf(TransientFile)>>)
RemoveSpanInitiateReq == StructOf(<<"FileId", InodeId, "Cookie", Octets(8)>>)
RemoveSpanInitiateBlockInfo == StructOf(<<
  "BlockServiceAddrs", AddrsInfo, "BlockServiceId", U64, "BlockServiceFailureDomain", FailureDomain,
  "BlockServiceFlags", U8, "BlockId", U64, "Certificate", Octets(8)>>)
RemoveSpanInitiateResp == StructOf(<<"ByteOffset", U64, "Blocks", ListOf(RemoveSpanInitiateBlockInfo)>>)
RemoveSpanCertifyReq == StructOf(<<
  "FileId", InodeId, "Cookie", Octets(8), "ByteOffset", U64, "Proofs", ListOf(BlockProof)>>)
RemoveSpanCertifyResp == StructOf(<<>>)
SwapBlocksReq == StructOf(<<
  "FileId1", InodeId, "ByteOffset1", U64, "BlockId1", U64, "FileId2", InodeId, "ByteOffset2", U64,
  "BlockId2", U64>>)
SwapBlocksResp == StructOf(<<>>)
BlockServiceFilesReq == StructOf(<<"BlockServiceId", U64, "StartFrom", InodeId>>)
BlockServiceFilesResp == StructOf(<<"FileIds", ListOf(InodeId)>>)
RemoveInodeReq == StructOf(<<"Id", InodeId>>)
RemoveInodeResp == StructOf(<<>>)
AddSpanInitiateWithReferenceReq == StructOf(<<"Req", AddSpanInitiateReq, "Reference", InodeId>>)
AddSpanInitiateWithReferenceResp == StructOf(<<"Resp", AddSpanInitiateResp>>)
RemoveZeroBlockServiceFilesReq == StructOf(<<"StartBlockService", U64, "StartFile", InodeId>>)
RemoveZeroBlockServiceFilesResp == StructOf(<<"Removed", U64, "NextBlockService", U64, "NextFile", InodeId>>)
SwapSpansReq == StructOf(<<
  "FileId1", InodeId, "ByteOffset1", U64, "Blocks1", ListOf(U64), "FileId2", InodeId, "ByteOffset2", U64,
  "Blocks2", ListOf(U64)>>)
SwapSpansResp == StructOf(<<>>)
SameDirectoryRenameSnapshotReq == StructOf(<<
  "TargetId", InodeId, "DirId", InodeId, "OldName", Text, "OldCreationTime", U64, "NewName", Text>>)
SameDirectoryRenameSnapshotResp == StructOf(<<"NewCreationTime", U64>>)
AddSpanAtLocationInitiateReq == StructOf(<<"LocationId", U8, "Req", AddSpanInitiateWithReferenceReq>>)
AddSpanAtLocationInitiateResp == StructOf(<<"Resp", AddSpanInitiateResp>>)
CreateDirectoryInodeReq == StructOf(<<"Id", InodeId, "OwnerId", InodeId, "Info", DirectoryInfo>>)
CreateDirectoryInodeResp == StructOf(<<"Mtime", U64>>)
SetDirectoryOwnerReq == StructOf(<<"DirId", InodeId, "OwnerId", InodeId>>)
SetDirectoryOwnerResp == StructOf(<<>>)
RemoveDirectoryOwnerReq == StructOf(<<"DirId", InodeId, "Info", DirectoryInfo>>)
RemoveDirectoryOwnerResp == StructOf(<<>>)
CreateLockedCurrentEdgeReq == StructOf(<<
  "DirId", InodeId, "Name", Text, "TargetId", InodeId, "OldCreationTime", U64>>)
CreateLockedCurrentEdgeResp == StructOf(<<"CreationTime", U64>>)
LockCurrentEdgeReq == StructOf(<<"DirId", InodeId, "TargetId", InodeId, "CreationTime", U64, "Name", Text>>)
LockCurrentEdgeResp == StructOf(<<>>)
UnlockCurrentEdgeReq == StructOf(<<
  "DirId", InodeId, "Name", Text, "CreationTime", U64, "TargetId", InodeId, "WasMoved", Bool>>)
UnlockCurrentEdgeResp == StructOf(<<>>)
RemoveOwnedSnapshotFileEdgeReq == StructOf(<<
  "OwnerId", InodeId, "TargetId", InodeId, "Name", Text, "CreationTime", U64>>)
RemoveOwnedSnapshotFileEdgeResp == StructOf(<<>>)
MakeFileTransientReq == StructOf(<<"Id", InodeId, "Note", Text>>)
MakeFileTransientResp == StructOf(<<>>)
MakeDirectoryReq == StructOf(<<"OwnerId", InodeId, "Name", Text>>)
MakeDirectoryResp == StructOf(<<"Id", InodeId, "CreationTime", U64>>)
RenameFileReq == StructOf(<<
  "TargetId", InodeId, "OldOwnerId", InodeId, "OldName", Text, "OldCreationTime", U64, "NewOwnerId", InodeId,
  "NewName", Text>>)
RenameFileResp == StructOf(<<"CreationTime", U64>>)
SoftUnlinkDirectoryReq == StructOf(<<
  "OwnerId", InodeId, "TargetId", InodeId, "CreationTime", U64, "Name", Text>>)
SoftUnlinkDirectoryResp == StructOf(<<>>)
RenameDirectoryReq == StructOf(<<
  "TargetId", InodeId, "OldOwnerId", InodeId, "OldName", Text, "OldCreationTime", U64, "NewOwnerId", InodeId,
  "NewName", Text>>)
RenameDirectoryResp == StructOf(<<"CreationTime", U64>>)
CrossShardHardUnlinkFileReq == StructOf(<<
  "OwnerId", InodeId, "TargetId", InodeId, "Name", Text, "CreationTime", U64>>)
CrossShardHardUnlinkFileResp == StructOf(<<>>)
HardUnlinkDirectoryReq == StructOf(<<"DirId", InodeId>>)
HardUnlinkDirectoryResp == StructOf(<<>>)
CdcSnapshotReq == StructOf(<<"SnapshotId", U64>>)
CdcSnapshotResp == StructOf(<<>>)

(* Pack. *)
SetDirectoryInfoReqPack == Msg(ShardMessageKind.SET_DIRECTORY_INFO, <<
  Scalar(8, "Id"), Nested("Info", DirectoryInfoPack)>>)
SetDirectoryInfoRespPack == Msg(ShardMessageKind.SET_DIRECTORY_INFO, <<>>)
GetLinkEntriesReqPack == Msg(ShardMessageKind.GET_LINK_ENTRIES, <<Scalar(8, "FromIdx"), Scalar(2, "Mtu")>>)
LinkEntryPack == StepList(<<Scalar(8, "Id"), Scalar(8, "OwnerId"), Scalar(8, "Time")>>)
GetLinkEntriesRespPack == Msg(ShardMessageKind.GET_LINK_ENTRIES, <<
  List(2, "Entries", Nested("", LinkEntryPack)), Scalar(8, "NextIdx")>>)
WaitStateAppliedReqPack == Msg(ShardMessageKind.WAIT_STATE_APPLIED, <<Scalar(8, "Idx")>>)
WaitStateAppliedRespPack == Msg(ShardMessageKind.WAIT_STATE_APPLIED, <<>>)
VisitDirectoriesReqPack == Msg(ShardMessageKind.VISIT_DIRECTORIES, <<Scalar(8, "BeginId"), Scalar(2, "Mtu")>>)
VisitDirectoriesRespPack == Msg(ShardMessageKind.VISIT_DIRECTORIES, <<
  Scalar(8, "NextId"), List(2, "Ids", Scalar(8, ""))>>)
VisitFilesReqPack == Msg(ShardMessageKind.VISIT_FILES, <<Scalar(8, "BeginId"), Scalar(2, "Mtu")>>)
VisitFilesRespPack == Msg(ShardMessageKind.VISIT_FILES, <<
  Scalar(8, "NextId"), List(2, "Ids", Scalar(8, ""))>>)
VisitTransientFilesReqPack == Msg(ShardMessageKind.VISIT_TRANSIENT_FILES, <<
  Scalar(8, "BeginId"), Scalar(2, "Mtu")>>)
TransientFilePack == StepList(<<Scalar(8, "Id"), FixedBytes(8, "Cookie"), Scalar(8, "DeadlineTime")>>)
VisitTransientFilesRespPack == Msg(ShardMessageKind.VISIT_TRANSIENT_FILES, <<
  Scalar(8, "NextId"), List(2, "Files", Nested("", TransientFilePack))>>)
RemoveSpanInitiateReqPack == Msg(ShardMessageKind.REMOVE_SPAN_INITIATE, <<
  Scalar(8, "FileId"), FixedBytes(8, "Cookie")>>)
RemoveSpanInitiateBlockInfoPack == StepList(<<
  Nested("BlockServiceAddrs", AddrsInfoPack), Scalar(8, "BlockServiceId"),
  Nested("BlockServiceFailureDomain", FailureDomainPack), Scalar(1, "BlockServiceFlags"), Scalar(8, "BlockId"),
  FixedBytes(8, "Certificate")>>)
RemoveSpanInitiateRespPack == Msg(ShardMessageKind.REMOVE_SPAN_INITIATE, <<
  Scalar(8, "ByteOffset"), List(2, "Blocks", Nested("", RemoveSpanInitiateBlockInfoPack))>>)
RemoveSpanCertifyReqPack == Msg(ShardMessageKind.REMOVE_SPAN_CERTIFY, <<
  Scalar(8, "FileId"), FixedBytes(8, "Cookie"), Scalar(8, "ByteOffset"),
  List(2, "Proofs", Nested("", BlockProofPack))>>)
RemoveSpanCertifyRespPack == Msg(ShardMessageKind.REMOVE_SPAN_CERTIFY, <<>>)
SwapBlocksReqPack == Msg(ShardMessageKind.SWAP_BLOCKS, <<
  Scalar(8, "FileId1"), Scalar(8, "ByteOffset1"), Scalar(8, "BlockId1"), Scalar(8, "FileId2"),
  Scalar(8, "ByteOffset2"), Scalar(8, "BlockId2")>>)
SwapBlocksRespPack == Msg(ShardMessageKind.SWAP_BLOCKS, <<>>)
BlockServiceFilesReqPack == Msg(ShardMessageKind.BLOCK_SERVICE_FILES, <<
  Scalar(8, "BlockServiceId"), Scalar(8, "StartFrom")>>)
BlockServiceFilesRespPack == Msg(ShardMessageKind.BLOCK_SERVICE_FILES, <<List(2, "FileIds", Scalar(8, ""))>>)
RemoveInodeReqPack == Msg(ShardMessageKind.REMOVE_INODE, <<Scalar(8, "Id")>>)
RemoveInodeRespPack == Msg(ShardMessageKind.REMOVE_INODE, <<>>)
AddSpanInitiateWithReferenceReqPack == Msg(ShardMessageKind.ADD_SPAN_INITIATE_WITH_REFERENCE, <<
  Nested("Req", AddSpanInitiateReqPack), Scalar(8, "Reference")>>)
AddSpanInitiateWithReferenceRespPack == Msg(ShardMessageKind.ADD_SPAN_INITIATE_WITH_REFERENCE, <<
  Nested("Resp", AddSpanInitiateRespPack)>>)
RemoveZeroBlockServiceFilesReqPack == Msg(ShardMessageKind.REMOVE_ZERO_BLOCK_SERVICE_FILES, <<
  Scalar(8, "StartBlockService"), Scalar(8, "StartFile")>>)
RemoveZeroBlockServiceFilesRespPack == Msg(ShardMessageKind.REMOVE_ZERO_BLOCK_SERVICE_FILES, <<
  Scalar(8, "Removed"), Scalar(8, "NextBlockService"), Scalar(8, "NextFile")>>)
SwapSpansReqPack == Msg(ShardMessageKind.SWAP_SPANS, <<
  Scalar(8, "FileId1"), Scalar(8, "ByteOffset1"), List(2, "Blocks1", Scalar(8, "")), Scalar(8, "FileId2"),
  Scalar(8, "ByteOffset2"), List(2, "Blocks2", Scalar(8, ""))>>)
SwapSpansRespPack == Msg(ShardMessageKind.SWAP_SPANS, <<>>)
SameDirectoryRenameSnapshotReqPack == Msg(ShardMessageKind.SAME_DIRECTORY_RENAME_SNAPSHOT, <<
  Scalar(8, "TargetId"), Scalar(8, "DirId"), ByteString("OldName"), Scalar(8, "OldCreationTime"),
  ByteString("NewName")>>)
SameDirectoryRenameSnapshotRespPack == Msg(ShardMessageKind.SAME_DIRECTORY_RENAME_SNAPSHOT, <<
  Scalar(8, "NewCreationTime")>>)
AddSpanAtLocationInitiateReqPack == Msg(ShardMessageKind.ADD_SPAN_AT_LOCATION_INITIATE, <<
  Scalar(1, "LocationId"), Nested("Req", AddSpanInitiateWithReferenceReqPack)>>)
AddSpanAtLocationInitiateRespPack == Msg(ShardMessageKind.ADD_SPAN_AT_LOCATION_INITIATE, <<
  Nested("Resp", AddSpanInitiateRespPack)>>)
CreateDirectoryInodeReqPack == Msg(ShardMessageKind.CREATE_DIRECTORY_INODE, <<
  Scalar(8, "Id"), Scalar(8, "OwnerId"), Nested("Info", DirectoryInfoPack)>>)
CreateDirectoryInodeRespPack == Msg(ShardMessageKind.CREATE_DIRECTORY_INODE, <<Scalar(8, "Mtime")>>)
SetDirectoryOwnerReqPack == Msg(ShardMessageKind.SET_DIRECTORY_OWNER, <<
  Scalar(8, "DirId"), Scalar(8, "OwnerId")>>)
SetDirectoryOwnerRespPack == Msg(ShardMessageKind.SET_DIRECTORY_OWNER, <<>>)
RemoveDirectoryOwnerReqPack == Msg(ShardMessageKind.REMOVE_DIRECTORY_OWNER, <<
  Scalar(8, "DirId"), Nested("Info", DirectoryInfoPack)>>)
RemoveDirectoryOwnerRespPack == Msg(ShardMessageKind.REMOVE_DIRECTORY_OWNER, <<>>)
CreateLockedCurrentEdgeReqPack == Msg(ShardMessageKind.CREATE_LOCKED_CURRENT_EDGE, <<
  Scalar(8, "DirId"), ByteString("Name"), Scalar(8, "TargetId"), Scalar(8, "OldCreationTime")>>)
CreateLockedCurrentEdgeRespPack == Msg(ShardMessageKind.CREATE_LOCKED_CURRENT_EDGE, <<
  Scalar(8, "CreationTime")>>)
LockCurrentEdgeReqPack == Msg(ShardMessageKind.LOCK_CURRENT_EDGE, <<
  Scalar(8, "DirId"), Scalar(8, "TargetId"), Scalar(8, "CreationTime"), ByteString("Name")>>)
LockCurrentEdgeRespPack == Msg(ShardMessageKind.LOCK_CURRENT_EDGE, <<>>)
UnlockCurrentEdgeReqPack == Msg(ShardMessageKind.UNLOCK_CURRENT_EDGE, <<
  Scalar(8, "DirId"), ByteString("Name"), Scalar(8, "CreationTime"), Scalar(8, "TargetId"), Flag("WasMoved")>>)
UnlockCurrentEdgeRespPack == Msg(ShardMessageKind.UNLOCK_CURRENT_EDGE, <<>>)
RemoveOwnedSnapshotFileEdgeReqPack == Msg(ShardMessageKind.REMOVE_OWNED_SNAPSHOT_FILE_EDGE, <<
  Scalar(8, "OwnerId"), Scalar(8, "TargetId"), ByteString("Name"), Scalar(8, "CreationTime")>>)
RemoveOwnedSnapshotFileEdgeRespPack == Msg(ShardMessageKind.REMOVE_OWNED_SNAPSHOT_FILE_EDGE, <<>>)
MakeFileTransientReqPack == Msg(ShardMessageKind.MAKE_FILE_TRANSIENT, <<Scalar(8, "Id"), ByteString("Note")>>)
MakeFileTransientRespPack == Msg(ShardMessageKind.MAKE_FILE_TRANSIENT, <<>>)
MakeDirectoryReqPack == Msg(CDCMessageKind.MAKE_DIRECTORY, <<Scalar(8, "OwnerId"), ByteString("Name")>>)
MakeDirectoryRespPack == Msg(CDCMessageKind.MAKE_DIRECTORY, <<Scalar(8, "Id"), Scalar(8, "CreationTime")>>)
RenameFileReqPack == Msg(CDCMessageKind.RENAME_FILE, <<
  Scalar(8, "TargetId"), Scalar(8, "OldOwnerId"), ByteString("OldName"), Scalar(8, "OldCreationTime"),
  Scalar(8, "NewOwnerId"), ByteString("NewName")>>)
RenameFileRespPack == Msg(CDCMessageKind.RENAME_FILE, <<Scalar(8, "CreationTime")>>)
SoftUnlinkDirectoryReqPack == Msg(CDCMessageKind.SOFT_UNLINK_DIRECTORY, <<
  Scalar(8, "OwnerId"), Scalar(8, "TargetId"), Scalar(8, "CreationTime"), ByteString("Name")>>)
SoftUnlinkDirectoryRespPack == Msg(CDCMessageKind.SOFT_UNLINK_DIRECTORY, <<>>)
RenameDirectoryReqPack == Msg(CDCMessageKind.RENAME_DIRECTORY, <<
  Scalar(8, "TargetId"), Scalar(8, "OldOwnerId"), ByteString("OldName"), Scalar(8, "OldCreationTime"),
  Scalar(8, "NewOwnerId"), ByteString("NewName")>>)
RenameDirectoryRespPack == Msg(CDCMessageKind.RENAME_DIRECTORY, <<Scalar(8, "CreationTime")>>)
CrossShardHardUnlinkFileReqPack == Msg(CDCMessageKind.CROSS_SHARD_HARD_UNLINK_FILE, <<
  Scalar(8, "OwnerId"), Scalar(8, "TargetId"), ByteString("Name"), Scalar(8, "CreationTime")>>)
CrossShardHardUnlinkFileRespPack == Msg(CDCMessageKind.CROSS_SHARD_HARD_UNLINK_FILE, <<>>)
HardUnlinkDirectoryReqPack == Msg(CDCMessageKind.HARD_UNLINK_DIRECTORY, <<Scalar(8, "DirId")>>)
HardUnlinkDirectoryRespPack == Msg(CDCMessageKind.HARD_UNLINK_DIRECTORY, <<>>)
CdcSnapshotReqPack == Msg(CDCMessageKind.CDC_SNAPSHOT, <<Scalar(8, "SnapshotId")>>)
CdcSnapshotRespPack == Msg(CDCMessageKind.CDC_SNAPSHOT, <<>>)

(* Unpack. *)
SetDirectoryInfoReqUnpack == StepList(<<Scalar(8, "Id"), Nested("Info", DirectoryInfoUnpack)>>)
SetDirectoryInfoRespUnpack == StepList(<<>>)
GetLinkEntriesReqUnpack == StepList(<<Scalar(8, "FromIdx"), Scalar(2, "Mtu")>>)
LinkEntryUnpack == StepList(<<Scalar(8, "Id"), Scalar(8, "OwnerId"), Scalar(8, "Time")>>)
GetLinkEntriesRespUnpack == StepList(<<List(2, "Entries", Nested("", LinkEntryUnpack)), Scalar(8, "NextIdx")>>)
WaitStateAppliedReqUnpack == StepList(<<Scalar(8, "Idx")>>)
WaitStateAppliedRespUnpack == StepList(<<>>)
VisitDirectoriesReqUnpack == StepList(<<Scalar(8, "BeginId"), Scalar(2, "Mtu")>>)
VisitDirectoriesRespUnpack == StepList(<<Scalar(8, "NextId"), List(2, "Ids", Scalar(8, ""))>>)
VisitFilesReqUnpack == StepList(<<Scalar(8, "BeginId"), Scalar(2, "Mtu")>>)
VisitFilesRespUnpack == StepList(<<Scalar(8, "NextId"), List(2, "Ids", Scalar(8, ""))>>)
VisitTransientFilesReqUnpack == StepList(<<Scalar(8, "BeginId"), Scalar(2, "Mtu")>>)
TransientFileUnpack == StepList(<<Scalar(8, "Id"), FixedBytes(8, "Cookie"), Scalar(8, "DeadlineTime")>>)
VisitTransientFilesRespUnpack == StepList(<<Scalar(8, "NextId"), List(2, "Files", Nested("", TransientFileUnpack))>>)
RemoveSpanInitiateReqUnpack == StepList(<<Scalar(8, "FileId"), FixedBytes(8, "Cookie")>>)
RemoveSpanInitiateBlockInfoUnpack == StepList(<<
  Nested("BlockServiceAddrs", AddrsInfoUnpack), Scalar(8, "BlockServiceId"),
  Nested("BlockServiceFailureDomain", FailureDomainUnpack), Scalar(1, "BlockServiceFlags"),
  Scalar(8, "BlockId"), FixedBytes(8, "Certificate")>>)
RemoveSpanInitiateRespUnpack == StepList(<<
  Scalar(8, "ByteOffset"), List(2, "Blocks", Nested("", RemoveSpanInitiateBlockInfoUnpack))>>)
RemoveSpanCertifyReqUnpack == StepList(<<
  Scalar(8, "FileId"), FixedBytes(8, "Cookie"), Scalar(8, "ByteOffset"),
  List(2, "Proofs", Nested("", BlockProofUnpack))>>)
RemoveSpanCertifyRespUnpack == StepList(<<>>)
SwapBlocksReqUnpack == StepList(<<
  Scalar(8, "FileId1"), Scalar(8, "ByteOffset1"), Scalar(8, "BlockId1"), Scalar(8, "FileId2"),
  Scalar(8, "ByteOffset2"), Scalar(8, "BlockId2")>>)
SwapBlocksRespUnpack == StepList(<<>>)
BlockServiceFilesReqUnpack == StepList(<<Scalar(8, "BlockServiceId"), Scalar(8, "StartFrom")>>)
BlockServiceFilesRespUnpack == StepList(<<List(2, "FileIds", Scalar(8, ""))>>)
RemoveInodeReqUnpack == StepList(<<Scalar(8, "Id")>>)
RemoveInodeRespUnpack == StepList(<<>>)
AddSpanInitiateWithReferenceReqUnpack == StepList(<<
  Nested("Req", AddSpanInitiateReqUnpack), Scalar(8, "Reference")>>)
AddSpanInitiateWithReferenceRespUnpack == StepList(<<Nested("Resp", AddSpanInitiateRespUnpack)>>)
RemoveZeroBlockServiceFilesReqUnpack == StepList(<<Scalar(8, "StartBlockService"), Scalar(8, "StartFile")>>)
RemoveZeroBlockServiceFilesRespUnpack == StepList(<<
  Scalar(8, "Removed"), Scalar(8, "NextBlockService"), Scalar(8, "NextFile")>>)
SwapSpansReqUnpack == StepList(<<
  Scalar(8, "FileId1"), Scalar(8, "ByteOffset1"), List(2, "Blocks1", Scalar(8, "")), Scalar(8, "FileId2"),
  Scalar(8, "ByteOffset2"), List(2, "Blocks2", Scalar(8, ""))>>)
SwapSpansRespUnpack == StepList(<<>>)
SameDirectoryRenameSnapshotReqUnpack == StepList(<<
  Scalar(8, "TargetId"), Scalar(8, "DirId"), ByteString("OldName"), Scalar(8, "OldCreationTime"),
  ByteString("NewName")>>)
SameDirectoryRenameSnapshotRespUnpack == StepList(<<Scalar(8, "NewCreationTime")>>)
AddSpanAtLocationInitiateReqUnpack == StepList(<<
  Scalar(1, "LocationId"), Nested("Req", AddSpanInitiateWithReferenceReqUnpack)>>)
AddSpanAtLocationInitiateRespUnpack == StepList(<<Nested("Resp", AddSpanInitiateRespUnpack)>>)
CreateDirectoryInodeReqUnpack == StepList(<<
  Scalar(8, "Id"), Scalar(8, "OwnerId"), Nested("Info", DirectoryInfoUnpack)>>)
CreateDirectoryInodeRespUnpack == StepList(<<Scalar(8, "Mtime")>>)
SetDirectoryOwnerReqUnpack == StepList(<<Scalar(8, "DirId"), Scalar(8, "OwnerId")>>)
SetDirectoryOwnerRespUnpack == StepList(<<>>)
RemoveDirectoryOwnerReqUnpack == StepList(<<Scalar(8, "DirId"), Nested("Info", DirectoryInfoUnpack)>>)
RemoveDirectoryOwnerRespUnpack == StepList(<<>>)
CreateLockedCurrentEdgeReqUnpack == StepList(<<
  Scalar(8, "DirId"), ByteString("Name"), Scalar(8, "TargetId"), Scalar(8, "OldCreationTime")>>)
CreateLockedCurrentEdgeRespUnpack == StepList(<<Scalar(8, "CreationTime")>>)
LockCurrentEdgeReqUnpack == StepList(<<
  Scalar(8, "DirId"), Scalar(8, "TargetId"), Scalar(8, "CreationTime"), ByteString("Name")>>)
LockCurrentEdgeRespUnpack == StepList(<<>>)
UnlockCurrentEdgeReqUnpack == StepList(<<
  Scalar(8, "DirId"), ByteString("Name"), Scalar(8, "CreationTime"), Scalar(8, "TargetId"), Flag("WasMoved")>>)
UnlockCurrentEdgeRespUnpack == StepList(<<>>)
RemoveOwnedSnapshotFileEdgeReqUnpack == StepList(<<
  Scalar(8, "OwnerId"), Scalar(8, "TargetId"), ByteString("Name"), Scalar(8, "CreationTime")>>)
RemoveOwnedSnapshotFileEdgeRespUnpack == StepList(<<>>)
MakeFileTransientReqUnpack == StepList(<<Scalar(8, "Id"), ByteString("Note")>>)
MakeFileTransientRespUnpack == StepList(<<>>)
MakeDirectoryReqUnpack == StepList(<<Scalar(8, "OwnerId"), ByteString("Name")>>)
MakeDirectoryRespUnpack == StepList(<<Scalar(8, "Id"), Scalar(8, "CreationTime")>>)
RenameFileReqUnpack == StepList(<<
  Scalar(8, "TargetId"), Scalar(8, "OldOwnerId"), ByteString("OldName"), Scalar(8, "OldCreationTime"),
  Scalar(8, "NewOwnerId"), ByteString("NewName")>>)
RenameFileRespUnpack == StepList(<<Scalar(8, "CreationTime")>>)
SoftUnlinkDirectoryReqUnpack == StepList(<<
  Scalar(8, "OwnerId"), Scalar(8, "TargetId"), Scalar(8, "CreationTime"), ByteString("Name")>>)
SoftUnlinkDirectoryRespUnpack == StepList(<<>>)
RenameDirectoryReqUnpack == StepList(<<
  Scalar(8, "TargetId"), Scalar(8, "OldOwnerId"), ByteString("OldName"), Scalar(8, "OldCreationTime"),
  Scalar(8, "NewOwnerId"), ByteString("NewName")>>)
RenameDirectoryRespUnpack == StepList(<<Scalar(8, "CreationTime")>>)
CrossShardHardUnlinkFileReqUnpack == StepList(<<
  Scalar(8, "OwnerId"), Scalar(8, "TargetId"), ByteString("Name"), Scalar(8, "CreationTime")>>)
CrossShardHardUnlinkFileRespUnpack == StepList(<<>>)
HardUnlinkDirectoryReqUnpack == StepList(<<Scalar(8, "DirId")>>)
HardUnlinkDirectoryRespUnpack == StepList(<<>>)
CdcSnapshotReqUnpack == StepList(<<Scalar(8, "SnapshotId")>>)
CdcSnapshotRespUnpack == StepList(<<>>)
=============================================================================
