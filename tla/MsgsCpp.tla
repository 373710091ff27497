------------------------------ MODULE MsgsCpp -------------------------------
(***************************************************************************)
(* The registry's other messages and the log's in the C++ code             *)
(* (cpp/core/MsgsGen.cpp, MsgsGen.hpp and Msgs.hpp): T_pack and T_unpack   *)
(* are the calls that T::pack and T::unpack make. A field has the name     *)
(* that operator<< prints for it, which is that of the Go one. A container *)
(* is the switch from a kind to the type of the message.                   *)
(***************************************************************************)
EXTENDS MsgsCppRegistry

(* pack. *)
ShardBlockServicesReq_pack == StepList(<<Scalar(1, "ShardId")>>)
ShardBlockServicesResp_pack == StepList(<<List(2, "BlockServices", Nested("", BlockServiceInfoShort_pack))>>)
AllCdcDEPRECATEDReq_pack == StepList(<<>>)
AllCdcDEPRECATEDResp_pack == StepList(<<List(2, "Replicas", Nested("", CdcInfo_pack))>>)
EraseDecommissionedBlockReq_pack == StepList(<<
  Scalar(8, "BlockServiceId"), Scalar(8, "BlockId"), FixedBytes(8, "Certificate")>>)
EraseDecommissionedBlockResp_pack == StepList(<<FixedBytes(8, "Proof")>>)
AllBlockServicesDeprecatedReq_pack == StepList(<<>>)
AllBlockServicesDeprecatedResp_pack == StepList(<<
  List(2, "BlockServices", Nested("", BlockServiceDeprecatedInfo_pack))>>)
AllBlockServicesReq_pack == StepList(<<>>)
AllBlockServicesResp_pack == StepList(<<List(2, "BlockServices", Nested("", FullBlockServiceInfo_pack))>>)
MoveCdcLeaderReq_pack == StepList(<<Scalar(1, "Replica"), Scalar(1, "Location")>>)
MoveCdcLeaderResp_pack == StepList(<<>>)
ClearCdcInfoReq_pack == StepList(<<Scalar(1, "Replica"), Scalar(1, "Location")>>)
ClearCdcInfoResp_pack == StepList(<<>>)
UpdateBlockServicePathReq_pack == StepList(<<Scalar(8, "Id"), ByteString("NewPath")>>)
UpdateBlockServicePathResp_pack == StepList(<<>>)
SetBlockServiceHasFilesReq_pack == StepList(<<Scalar(8, "Id"), Flag("HasFiles")>>)
SetBlockServiceHasFilesResp_pack == StepList(<<>>)
BlockServicesNeedingMigrationDeprecatedReq_pack == StepList(<<Scalar(1, "LocationId")>>)
BlockServicesNeedingMigrationDeprecatedResp_pack == StepList(<<List(2, "BlockServices", Scalar(8, ""))>>)
AllRegistryReplicasReq_pack == StepList(<<Scalar(1, "MinKnownReplicas"), Scalar(1, "Location")>>)
AllRegistryReplicasResp_pack == StepList(<<List(2, "Replicas", Nested("", FullRegistryInfo_pack))>>)
AllShardsReq_pack == StepList(<<Scalar(1, "MinKnownReplicas"), Scalar(1, "Location"), Scalar(1, "ShardId")>>)
AllShardsResp_pack == StepList(<<List(2, "Shards", Nested("", FullShardInfo_pack))>>)
AllCdcReq_pack == StepList(<<Scalar(1, "MinKnownReplicas"), Scalar(1, "Location")>>)
AllCdcResp_pack == StepList(<<List(2, "Replicas", Nested("", CdcInfo_pack))>>)
ChangedBlockServicesDeprecatedReq_pack == StepList(<<Scalar(8, "Since")>>)
ChangedBlockServicesDeprecatedResp_pack == StepList(<<
  Scalar(8, "LastChange"), List(2, "BlockServices", Nested("", FullBlockServiceInfo_pack))>>)
BlockServiceAvailableSpaceDeprecatedReq_pack == StepList(<<>>)
BlockServiceAvailableSpaceDeprecatedResp_pack == StepList(<<
  List(2, "BlockServices", Nested("", BlockServiceSpace_pack))>>)
ChangedBlockServicesReq_pack == StepList(<<Scalar(8, "Since")>>)
ChangedBlockServicesResp_pack == StepList(<<
  Scalar(8, "LastChange"), List(4, "BlockServices", Nested("", FullBlockServiceInfo_pack))>>)
BlockServicesNeedingMigrationReq_pack == StepList(<<Scalar(1, "LocationId")>>)
BlockServicesNeedingMigrationResp_pack == StepList(<<List(4, "BlockServices", Scalar(8, ""))>>)
BlockServiceAvailableSpaceReq_pack == StepList(<<>>)
BlockServiceAvailableSpaceResp_pack == StepList(<<List(4, "BlockServices", Nested("", BlockServiceSpace_pack))>>)
LocalShardReplicasReq_pack == StepList(<<>>)
LocalShardReplicasResp_pack == StepList(<<List(2, "Shards", Nested("", FullShardInfo_pack))>>)
FetchBlockReq_pack == StepList(<<Scalar(8, "BlockId"), Scalar(4, "Offset"), Scalar(4, "Count")>>)
FetchBlockResp_pack == StepList(<<>>)
WriteBlockReq_pack == StepList(<<
  Scalar(8, "BlockId"), Scalar(4, "Crc"), Scalar(4, "Size"), FixedBytes(8, "Certificate")>>)
WriteBlockResp_pack == StepList(<<FixedBytes(8, "Proof")>>)
FetchBlockWithCrcReq_pack == StepList(<<
  Checked("InodeId", 8, "FileIdUnused"), Scalar(8, "BlockId"), Scalar(4, "BlockCrcUnused"),
  Scalar(4, "Offset"), Scalar(4, "Count")>>)
FetchBlockWithCrcResp_pack == StepList(<<>>)
EraseBlockReq_pack == StepList(<<Scalar(8, "BlockId"), FixedBytes(8, "Certificate")>>)
EraseBlockResp_pack == StepList(<<FixedBytes(8, "Proof")>>)
TestWriteReq_pack == StepList(<<Scalar(8, "Size")>>)
TestWriteResp_pack == StepList(<<>>)
CheckBlockReq_pack == StepList(<<Scalar(8, "BlockId"), Scalar(4, "Size"), Scalar(4, "Crc")>>)
CheckBlockResp_pack == StepList(<<>>)
LogWriteReq_pack == StepList(<<
  Scalar(8, "Token"), Scalar(8, "LastReleased"), Scalar(8, "Idx"), List(2, "Value", Scalar(1, ""))>>)
LogWriteResp_pack == StepList(<<Scalar(2, "Result")>>)
ReleaseReq_pack == StepList(<<Scalar(8, "Token"), Scalar(8, "LastReleased")>>)
ReleaseResp_pack == StepList(<<Scalar(2, "Result")>>)
LogReadReq_pack == StepList(<<Scalar(8, "Idx")>>)
LogReadResp_pack == StepList(<<Scalar(2, "Result"), List(2, "Value", Scalar(1, ""))>>)
NewLeaderReq_pack == StepList(<<Scalar(8, "NomineeToken")>>)
NewLeaderResp_pack == StepList(<<Scalar(2, "Result"), Scalar(8, "LastReleased")>>)
NewLeaderConfirmReq_pack == StepList(<<Scalar(8, "NomineeToken"), Scalar(8, "ReleasedIdx")>>)
NewLeaderConfirmResp_pack == StepList(<<Scalar(2, "Result")>>)
LogRecoveryReadReq_pack == StepList(<<Scalar(8, "NomineeToken"), Scalar(8, "Idx")>>)
LogRecoveryReadResp_pack == StepList(<<Scalar(2, "Result"), List(2, "Value", Scalar(1, ""))>>)
LogRecoveryWriteReq_pack == StepList(<<
  Scalar(8, "NomineeToken"), Scalar(8, "Idx"), List(2, "Value", Scalar(1, ""))>>)
LogRecoveryWriteResp_pack == StepList(<<Scalar(2, "Result")>>)

(* unpack. *)
ShardBlockServicesReq_unpack == StepList(<<Scalar(1, "ShardId")>>)
ShardBlockServicesResp_unpack == StepList(<<
  ListMin(2, "BlockServices", Nested("", BlockServiceInfoShort_unpack), BlockServiceInfoShort_STATIC_SIZE)>>)
AllCdcDEPRECATEDReq_unpack == StepList(<<>>)
AllCdcDEPRECATEDResp_unpack == StepList(<<ListMin(2, "Replicas", Nested("", CdcInfo_unpack), CdcInfo_STATIC_SIZE)>>)
EraseDecommissionedBlockReq_unpack == StepList(<<
  Scalar(8, "BlockServiceId"), Scalar(8, "BlockId"), FixedBytes(8, "Certificate")>>)
EraseDecommissionedBlockResp_unpack == StepList(<<FixedBytes(8, "Proof")>>)
AllBlockServicesDeprecatedReq_unpack == StepList(<<>>)
AllBlockServicesDeprecatedResp_unpack == StepList(<<
  ListMin(2, "BlockServices", Nested("", BlockServiceDeprecatedInfo_unpack), BlockServiceDeprecatedInfo_STATIC_SIZE)>>)
AllBlockServicesReq_unpack == StepList(<<>>)
AllBlockServicesResp_unpack == StepList(<<
  ListMin(2, "BlockServices", Nested("", FullBlockServiceInfo_unpack), FullBlockServiceInfo_STATIC_SIZE)>>)
MoveCdcLeaderReq_unpack == StepList(<<Scalar(1, "Replica"), Scalar(1, "Location")>>)
MoveCdcLeaderResp_unpack == StepList(<<>>)
ClearCdcInfoReq_unpack == StepList(<<Scalar(1, "Replica"), Scalar(1, "Location")>>)
ClearCdcInfoResp_unpack == StepList(<<>>)
UpdateBlockServicePathReq_unpack == StepList(<<Scalar(8, "Id"), ByteString("NewPath")>>)
UpdateBlockServicePathResp_unpack == StepList(<<>>)
SetBlockServiceHasFilesReq_unpack == StepList(<<Scalar(8, "Id"), Flag("HasFiles")>>)
SetBlockServiceHasFilesResp_unpack == StepList(<<>>)
BlockServicesNeedingMigrationDeprecatedReq_unpack == StepList(<<Scalar(1, "LocationId")>>)
BlockServicesNeedingMigrationDeprecatedResp_unpack == StepList(<<ListMin(2, "BlockServices", Scalar(8, ""), 8)>>)
AllRegistryReplicasReq_unpack == StepList(<<Scalar(1, "MinKnownReplicas"), Scalar(1, "Location")>>)
AllRegistryReplicasResp_unpack == StepList(<<
  ListMin(2, "Replicas", Nested("", FullRegistryInfo_unpack), FullRegistryInfo_STATIC_SIZE)>>)
AllShardsReq_unpack == StepList(<<Scalar(1, "MinKnownReplicas"), Scalar(1, "Location"), Scalar(1, "ShardId")>>)
AllShardsResp_unpack == StepList(<<
  ListMin(2, "Shards", Nested("", FullShardInfo_unpack), FullShardInfo_STATIC_SIZE)>>)
AllCdcReq_unpack == StepList(<<Scalar(1, "MinKnownReplicas"), Scalar(1, "Location")>>)
AllCdcResp_unpack == StepList(<<ListMin(2, "Replicas", Nested("", CdcInfo_unpack), CdcInfo_STATIC_SIZE)>>)
ChangedBlockServicesDeprecatedReq_unpack == StepList(<<Scalar(8, "Since")>>)
ChangedBlockServicesDeprecatedResp_unpack == StepList(<<
  Scalar(8, "LastChange"),
  ListMin(2, "BlockServices", Nested("", FullBlockServiceInfo_unpack), FullBlockServiceInfo_STATIC_SIZE)>>)
BlockServiceAvailableSpaceDeprecatedReq_unpack == StepList(<<>>)
BlockServiceAvailableSpaceDeprecatedResp_unpack == StepList(<<
  ListMin(2, "BlockServices", Nested("", BlockServiceSpace_unpack), BlockServiceSpace_STATIC_SIZE)>>)
ChangedBlockServicesReq_unpack == StepList(<<Scalar(8, "Since")>>)
ChangedBlockServicesResp_unpack == StepList(<<
  Scalar(8, "LastChange"),
  ListMin(4, "BlockServices", Nested("", FullBlockServiceInfo_unpack), FullBlockServiceInfo_STATIC_SIZE)>>)
BlockServicesNeedingMigrationReq_unpack == StepList(<<Scalar(1, "LocationId")>>)
BlockServicesNeedingMigrationResp_unpack == StepList(<<ListMin(4, "BlockServices", Scalar(8, ""), 8)>>)
BlockServiceAvailableSpaceReq_unpack == StepList(<<>>)
BlockServiceAvailableSpaceResp_unpack == StepList(<<
  ListMin(4, "BlockServices", Nested("", BlockServiceSpace_unpack), BlockServiceSpace_STATIC_SIZE)>>)
LocalShardReplicasReq_unpack == StepList(<<>>)
LocalShardReplicasResp_unpack == StepList(<<
  ListMin(2, "Shards", Nested("", FullShardInfo_unpack), FullShardInfo_STATIC_SIZE)>>)
FetchBlockReq_unpack == StepList(<<Scalar(8, "BlockId"), Scalar(4, "Offset"), Scalar(4, "Count")>>)
FetchBlockResp_unpack == StepList(<<>>)
WriteBlockReq_unpack == StepList(<<
  Scalar(8, "BlockId"), Scalar(4, "Crc"), Scalar(4, "Size"), FixedBytes(8, "Certificate")>>)
WriteBlockResp_unpack == StepList(<<FixedBytes(8, "Proof")>>)
FetchBlockWithCrcReq_unpack == StepList(<<
  Checked("InodeId", 8, "FileIdUnused"), Scalar(8, "BlockId"), Scalar(4, "BlockCrcUnused"),
  Scalar(4, "Offset"), Scalar(4, "Count")>>)
FetchBlockWithCrcResp_unpack == StepList(<<>>)
EraseBlockReq_unpack == StepList(<<Scalar(8, "BlockId"), FixedBytes(8, "Certificate")>>)
EraseBlockResp_unpack == StepList(<<FixedBytes(8, "Proof")>>)
TestWriteReq_unpack == StepList(<<Scalar(8, "Size")>>)
TestWriteResp_unpack == StepList(<<>>)
CheckBlockReq_unpack == StepList(<<Scalar(8, "BlockId"), Scalar(4, "Size"), Scalar(4, "Crc")>>)
CheckBlockResp_unpack == StepList(<<>>)
LogWriteReq_unpack == StepList(<<
  Scalar(8, "Token"), Scalar(8, "LastReleased"), Scalar(8, "Idx"), ListMin(2, "Value", Scalar(1, ""), 1)>>)
LogWriteResp_unpack == StepList(<<Scalar(2, "Result")>>)
ReleaseReq_unpack == StepList(<<Scalar(8, "Token"), Scalar(8, "LastReleased")>>)
ReleaseResp_unpack == StepList(<<Scalar(2, "Result")>>)
LogReadReq_unpack == StepList(<<Scalar(8, "Idx")>>)
LogReadResp_unpack == StepList(<<Scalar(2, "Result"), ListMin(2, "Value", Scalar(1, ""), 1)>>)
NewLeaderReq_unpack == StepList(<<Scalar(8, "NomineeToken")>>)
NewLeaderResp_unpack == StepList(<<Scalar(2, "Result"), Scalar(8, "LastReleased")>>)
NewLeaderConfirmReq_unpack == StepList(<<Scalar(8, "NomineeToken"), Scalar(8, "ReleasedIdx")>>)
NewLeaderConfirmResp_unpack == StepList(<<Scalar(2, "Result")>>)
LogRecoveryReadReq_unpack == StepList(<<Scalar(8, "NomineeToken"), Scalar(8, "Idx")>>)
LogRecoveryReadResp_unpack == StepList(<<Scalar(2, "Result"), ListMin(2, "Value", Scalar(1, ""), 1)>>)
LogRecoveryWriteReq_unpack == StepList(<<
  Scalar(8, "NomineeToken"), Scalar(8, "Idx"), ListMin(2, "Value", Scalar(1, ""), 1)>>)
LogRecoveryWriteResp_unpack == StepList(<<Scalar(2, "Result")>>)

(* The containers. *)
ShardReqContainer_pack == [
  LOOKUP |-> LookupReq_pack, STAT_FILE |-> StatFileReq_pack, STAT_DIRECTORY |-> StatDirectoryReq_pack,
  READ_DIR |-> ReadDirReq_pack, CONSTRUCT_FILE |-> ConstructFileReq_pack,
  ADD_SPAN_INITIATE |-> AddSpanInitiateReq_pack, ADD_SPAN_CERTIFY |-> AddSpanCertifyReq_pack,
  LINK_FILE |-> LinkFileReq_pack, SOFT_UNLINK_FILE |-> SoftUnlinkFileReq_pack,
  LOCAL_FILE_SPANS |-> LocalFileSpansReq_pack, SAME_DIRECTORY_RENAME |-> SameDirectoryRenameReq_pack,
  ADD_INLINE_SPAN |-> AddInlineSpanReq_pack, SET_TIME |-> SetTimeReq_pack,
  FULL_READ_DIR |-> FullReadDirReq_pack, MOVE_SPAN |-> MoveSpanReq_pack,
  REMOVE_NON_OWNED_EDGE |-> RemoveNonOwnedEdgeReq_pack,
  SAME_SHARD_HARD_FILE_UNLINK |-> SameShardHardFileUnlinkReq_pack,
  STAT_TRANSIENT_FILE |-> StatTransientFileReq_pack, SHARD_SNAPSHOT |-> ShardSnapshotReq_pack,
  FILE_SPANS |-> FileSpansReq_pack, ADD_SPAN_LOCATION |-> AddSpanLocationReq_pack,
  SCRAP_TRANSIENT_FILE |-> ScrapTransientFileReq_pack, SET_DIRECTORY_INFO |-> SetDirectoryInfoReq_pack,
  GET_LINK_ENTRIES |-> GetLinkEntriesReq_pack, WAIT_STATE_APPLIED |-> WaitStateAppliedReq_pack,
  VISIT_DIRECTORIES |-> VisitDirectoriesReq_pack, VISIT_FILES |-> VisitFilesReq_pack,
  VISIT_TRANSIENT_FILES |-> VisitTransientFilesReq_pack, REMOVE_SPAN_INITIATE |-> RemoveSpanInitiateReq_pack,
  REMOVE_SPAN_CERTIFY |-> RemoveSpanCertifyReq_pack, SWAP_BLOCKS |-> SwapBlocksReq_pack,
  BLOCK_SERVICE_FILES |-> BlockServiceFilesReq_pack, REMOVE_INODE |-> RemoveInodeReq_pack,
  ADD_SPAN_INITIATE_WITH_REFERENCE |-> AddSpanInitiateWithReferenceReq_pack,
  REMOVE_ZERO_BLOCK_SERVICE_FILES |-> RemoveZeroBlockServiceFilesReq_pack, SWAP_SPANS |-> SwapSpansReq_pack,
  SAME_DIRECTORY_RENAME_SNAPSHOT |-> SameDirectoryRenameSnapshotReq_pack,
  ADD_SPAN_AT_LOCATION_INITIATE |-> AddSpanAtLocationInitiateReq_pack,
  CREATE_DIRECTORY_INODE |-> CreateDirectoryInodeReq_pack, SET_DIRECTORY_OWNER |-> SetDirectoryOwnerReq_pack,
  REMOVE_DIRECTORY_OWNER |-> RemoveDirectoryOwnerReq_pack,
  CREATE_LOCKED_CURRENT_EDGE |-> CreateLockedCurrentEdgeReq_pack,
  LOCK_CURRENT_EDGE |-> LockCurrentEdgeReq_pack, UNLOCK_CURRENT_EDGE |-> UnlockCurrentEdgeReq_pack,
  REMOVE_OWNED_SNAPSHOT_FILE_EDGE |-> RemoveOwnedSnapshotFileEdgeReq_pack,
  MAKE_FILE_TRANSIENT |-> MakeFileTransientReq_pack]
ShardReqContainer_unpack == [
  LOOKUP |-> LookupReq_unpack, STAT_FILE |-> StatFileReq_unpack, STAT_DIRECTORY |-> StatDirectoryReq_unpack,
  READ_DIR |-> ReadDirReq_unpack, CONSTRUCT_FILE |-> ConstructFileReq_unpack,
  ADD_SPAN_INITIATE |-> AddSpanInitiateReq_unpack, ADD_SPAN_CERTIFY |-> AddSpanCertifyReq_unpack,
  LINK_FILE |-> LinkFileReq_unpack, SOFT_UNLINK_FILE |-> SoftUnlinkFileReq_unpack,
  LOCAL_FILE_SPANS |-> LocalFileSpansReq_unpack, SAME_DIRECTORY_RENAME |-> SameDirectoryRenameReq_unpack,
  ADD_INLINE_SPAN |-> AddInlineSpanReq_unpack, SET_TIME |-> SetTimeReq_unpack,
  FULL_READ_DIR |-> FullReadDirReq_unpack, MOVE_SPAN |-> MoveSpanReq_unpack,
  REMOVE_NON_OWNED_EDGE |-> RemoveNonOwnedEdgeReq_unpack,
  SAME_SHARD_HARD_FILE_UNLINK |-> SameShardHardFileUnlinkReq_unpack,
  STAT_TRANSIENT_FILE |-> StatTransientFileReq_unpack, SHARD_SNAPSHOT |-> ShardSnapshotReq_unpack,
  FILE_SPANS |-> FileSpansReq_unpack, ADD_SPAN_LOCATION |-> AddSpanLocationReq_unpack,
  SCRAP_TRANSIENT_FILE |-> ScrapTransientFileReq_unpack, SET_DIRECTORY_INFO |-> SetDirectoryInfoReq_unpack,
  GET_LINK_ENTRIES |-> GetLinkEntriesReq_unpack, WAIT_STATE_APPLIED |-> WaitStateAppliedReq_unpack,
  VISIT_DIRECTORIES |-> VisitDirectoriesReq_unpack, VISIT_FILES |-> VisitFilesReq_unpack,
  VISIT_TRANSIENT_FILES |-> VisitTransientFilesReq_unpack,
  REMOVE_SPAN_INITIATE |-> RemoveSpanInitiateReq_unpack, REMOVE_SPAN_CERTIFY |-> RemoveSpanCertifyReq_unpack,
  SWAP_BLOCKS |-> SwapBlocksReq_unpack, BLOCK_SERVICE_FILES |-> BlockServiceFilesReq_unpack,
  REMOVE_INODE |-> RemoveInodeReq_unpack,
  ADD_SPAN_INITIATE_WITH_REFERENCE |-> AddSpanInitiateWithReferenceReq_unpack,
  REMOVE_ZERO_BLOCK_SERVICE_FILES |-> RemoveZeroBlockServiceFilesReq_unpack,
  SWAP_SPANS |-> SwapSpansReq_unpack,
  SAME_DIRECTORY_RENAME_SNAPSHOT |-> SameDirectoryRenameSnapshotReq_unpack,
  ADD_SPAN_AT_LOCATION_INITIATE |-> AddSpanAtLocationInitiateReq_unpack,
  CREATE_DIRECTORY_INODE |-> CreateDirectoryInodeReq_unpack,
  SET_DIRECTORY_OWNER |-> SetDirectoryOwnerReq_unpack,
  REMOVE_DIRECTORY_OWNER |-> RemoveDirectoryOwnerReq_unpack,
  CREATE_LOCKED_CURRENT_EDGE |-> CreateLockedCurrentEdgeReq_unpack,
  LOCK_CURRENT_EDGE |-> LockCurrentEdgeReq_unpack, UNLOCK_CURRENT_EDGE |-> UnlockCurrentEdgeReq_unpack,
  REMOVE_OWNED_SNAPSHOT_FILE_EDGE |-> RemoveOwnedSnapshotFileEdgeReq_unpack,
  MAKE_FILE_TRANSIENT |-> MakeFileTransientReq_unpack]
ShardRespContainer_pack == [
  LOOKUP |-> LookupResp_pack, STAT_FILE |-> StatFileResp_pack, STAT_DIRECTORY |-> StatDirectoryResp_pack,
  READ_DIR |-> ReadDirResp_pack, CONSTRUCT_FILE |-> ConstructFileResp_pack,
  ADD_SPAN_INITIATE |-> AddSpanInitiateResp_pack, ADD_SPAN_CERTIFY |-> AddSpanCertifyResp_pack,
  LINK_FILE |-> LinkFileResp_pack, SOFT_UNLINK_FILE |-> SoftUnlinkFileResp_pack,
  LOCAL_FILE_SPANS |-> LocalFileSpansResp_pack, SAME_DIRECTORY_RENAME |-> SameDirectoryRenameResp_pack,
  ADD_INLINE_SPAN |-> AddInlineSpanResp_pack, SET_TIME |-> SetTimeResp_pack,
  FULL_READ_DIR |-> FullReadDirResp_pack, MOVE_SPAN |-> MoveSpanResp_pack,
  REMOVE_NON_OWNED_EDGE |-> RemoveNonOwnedEdgeResp_pack,
  SAME_SHARD_HARD_FILE_UNLINK |-> SameShardHardFileUnlinkResp_pack,
  STAT_TRANSIENT_FILE |-> StatTransientFileResp_pack, SHARD_SNAPSHOT |-> ShardSnapshotResp_pack,
  FILE_SPANS |-> FileSpansResp_pack, ADD_SPAN_LOCATION |-> AddSpanLocationResp_pack,
  SCRAP_TRANSIENT_FILE |-> ScrapTransientFileResp_pack, SET_DIRECTORY_INFO |-> SetDirectoryInfoResp_pack,
  GET_LINK_ENTRIES |-> GetLinkEntriesResp_pack, WAIT_STATE_APPLIED |-> WaitStateAppliedResp_pack,
  VISIT_DIRECTORIES |-> VisitDirectoriesResp_pack, VISIT_FILES |-> VisitFilesResp_pack,
  VISIT_TRANSIENT_FILES |-> VisitTransientFilesResp_pack,
  REMOVE_SPAN_INITIATE |-> RemoveSpanInitiateResp_pack, REMOVE_SPAN_CERTIFY |-> RemoveSpanCertifyResp_pack,
  SWAP_BLOCKS |-> SwapBlocksResp_pack, BLOCK_SERVICE_FILES |-> BlockServiceFilesResp_pack,
  REMOVE_INODE |-> RemoveInodeResp_pack,
  ADD_SPAN_INITIATE_WITH_REFERENCE |-> AddSpanInitiateWithReferenceResp_pack,
  REMOVE_ZERO_BLOCK_SERVICE_FILES |-> RemoveZeroBlockServiceFilesResp_pack,
  SWAP_SPANS |-> SwapSpansResp_pack, SAME_DIRECTORY_RENAME_SNAPSHOT |-> SameDirectoryRenameSnapshotResp_pack,
  ADD_SPAN_AT_LOCATION_INITIATE |-> AddSpanAtLocationInitiateResp_pack,
  CREATE_DIRECTORY_INODE |-> CreateDirectoryInodeResp_pack,
  SET_DIRECTORY_OWNER |-> SetDirectoryOwnerResp_pack,
  REMOVE_DIRECTORY_OWNER |-> RemoveDirectoryOwnerResp_pack,
  CREATE_LOCKED_CURRENT_EDGE |-> CreateLockedCurrentEdgeResp_pack,
  LOCK_CURRENT_EDGE |-> LockCurrentEdgeResp_pack, UNLOCK_CURRENT_EDGE |-> UnlockCurrentEdgeResp_pack,
  REMOVE_OWNED_SNAPSHOT_FILE_EDGE |-> RemoveOwnedSnapshotFileEdgeResp_pack,
  MAKE_FILE_TRANSIENT |-> MakeFileTransientResp_pack]
ShardRespContainer_unpack == [
  LOOKUP |-> LookupResp_unpack, STAT_FILE |-> StatFileResp_unpack,
  STAT_DIRECTORY |-> StatDirectoryResp_unpack, READ_DIR |-> ReadDirResp_unpack,
  CONSTRUCT_FILE |-> ConstructFileResp_unpack, ADD_SPAN_INITIATE |-> AddSpanInitiateResp_unpack,
  ADD_SPAN_CERTIFY |-> AddSpanCertifyResp_unpack, LINK_FILE |-> LinkFileResp_unpack,
  SOFT_UNLINK_FILE |-> SoftUnlinkFileResp_unpack, LOCAL_FILE_SPANS |-> LocalFileSpansResp_unpack,
  SAME_DIRECTORY_RENAME |-> SameDirectoryRenameResp_unpack, ADD_INLINE_SPAN |-> AddInlineSpanResp_unpack,
  SET_TIME |-> SetTimeResp_unpack, FULL_READ_DIR |-> FullReadDirResp_unpack,
  MOVE_SPAN |-> MoveSpanResp_unpack, REMOVE_NON_OWNED_EDGE |-> RemoveNonOwnedEdgeResp_unpack,
  SAME_SHARD_HARD_FILE_UNLINK |-> SameShardHardFileUnlinkResp_unpack,
  STAT_TRANSIENT_FILE |-> StatTransientFileResp_unpack, SHARD_SNAPSHOT |-> ShardSnapshotResp_unpack,
  FILE_SPANS |-> FileSpansResp_unpack, ADD_SPAN_LOCATION |-> AddSpanLocationResp_unpack,
  SCRAP_TRANSIENT_FILE |-> ScrapTransientFileResp_unpack, SET_DIRECTORY_INFO |-> SetDirectoryInfoResp_unpack,
  GET_LINK_ENTRIES |-> GetLinkEntriesResp_unpack, WAIT_STATE_APPLIED |-> WaitStateAppliedResp_unpack,
  VISIT_DIRECTORIES |-> VisitDirectoriesResp_unpack, VISIT_FILES |-> VisitFilesResp_unpack,
  VISIT_TRANSIENT_FILES |-> VisitTransientFilesResp_unpack,
  REMOVE_SPAN_INITIATE |-> RemoveSpanInitiateResp_unpack,
  REMOVE_SPAN_CERTIFY |-> RemoveSpanCertifyResp_unpack, SWAP_BLOCKS |-> SwapBlocksResp_unpack,
  BLOCK_SERVICE_FILES |-> BlockServiceFilesResp_unpack, REMOVE_INODE |-> RemoveInodeResp_unpack,
  ADD_SPAN_INITIATE_WITH_REFERENCE |-> AddSpanInitiateWithReferenceResp_unpack,
  REMOVE_ZERO_BLOCK_SERVICE_FILES |-> RemoveZeroBlockServiceFilesResp_unpack,
  SWAP_SPANS |-> SwapSpansResp_unpack,
  SAME_DIRECTORY_RENAME_SNAPSHOT |-> SameDirectoryRenameSnapshotResp_unpack,
  ADD_SPAN_AT_LOCATION_INITIATE |-> AddSpanAtLocationInitiateResp_unpack,
  CREATE_DIRECTORY_INODE |-> CreateDirectoryInodeResp_unpack,
  SET_DIRECTORY_OWNER |-> SetDirectoryOwnerResp_unpack,
  REMOVE_DIRECTORY_OWNER |-> RemoveDirectoryOwnerResp_unpack,
  CREATE_LOCKED_CURRENT_EDGE |-> CreateLockedCurrentEdgeResp_unpack,
  LOCK_CURRENT_EDGE |-> LockCurrentEdgeResp_unpack, UNLOCK_CURRENT_EDGE |-> UnlockCurrentEdgeResp_unpack,
  REMOVE_OWNED_SNAPSHOT_FILE_EDGE |-> RemoveOwnedSnapshotFileEdgeResp_unpack,
  MAKE_FILE_TRANSIENT |-> MakeFileTransientResp_unpack]
CDCReqContainer_pack == [
  MAKE_DIRECTORY |-> MakeDirectoryReq_pack, RENAME_FILE |-> RenameFileReq_pack,
  SOFT_UNLINK_DIRECTORY |-> SoftUnlinkDirectoryReq_pack, RENAME_DIRECTORY |-> RenameDirectoryReq_pack,
  CROSS_SHARD_HARD_UNLINK_FILE |-> CrossShardHardUnlinkFileReq_pack,
  HARD_UNLINK_DIRECTORY |-> HardUnlinkDirectoryReq_pack, CDC_SNAPSHOT |-> CdcSnapshotReq_pack]
CDCReqContainer_unpack == [
  MAKE_DIRECTORY |-> MakeDirectoryReq_unpack, RENAME_FILE |-> RenameFileReq_unpack,
  SOFT_UNLINK_DIRECTORY |-> SoftUnlinkDirectoryReq_unpack, RENAME_DIRECTORY |-> RenameDirectoryReq_unpack,
  CROSS_SHARD_HARD_UNLINK_FILE |-> CrossShardHardUnlinkFileReq_unpack,
  HARD_UNLINK_DIRECTORY |-> HardUnlinkDirectoryReq_unpack, CDC_SNAPSHOT |-> CdcSnapshotReq_unpack]
CDCRespContainer_pack == [
  MAKE_DIRECTORY |-> MakeDirectoryResp_pack, RENAME_FILE |-> RenameFileResp_pack,
  SOFT_UNLINK_DIRECTORY |-> SoftUnlinkDirectoryResp_pack, RENAME_DIRECTORY |-> RenameDirectoryResp_pack,
  CROSS_SHARD_HARD_UNLINK_FILE |-> CrossShardHardUnlinkFileResp_pack,
  HARD_UNLINK_DIRECTORY |-> HardUnlinkDirectoryResp_pack, CDC_SNAPSHOT |-> CdcSnapshotResp_pack]
CDCRespContainer_unpack == [
  MAKE_DIRECTORY |-> MakeDirectoryResp_unpack, RENAME_FILE |-> RenameFileResp_unpack,
  SOFT_UNLINK_DIRECTORY |-> SoftUnlinkDirectoryResp_unpack, RENAME_DIRECTORY |-> RenameDirectoryResp_unpack,
  CROSS_SHARD_HARD_UNLINK_FILE |-> CrossShardHardUnlinkFileResp_unpack,
  HARD_UNLINK_DIRECTORY |-> HardUnlinkDirectoryResp_unpack, CDC_SNAPSHOT |-> CdcSnapshotResp_unpack]
RegistryReqContainer_pack == [
  LOCAL_SHARDS |-> LocalShardsReq_pack, LOCAL_CDC |-> LocalCdcReq_pack, INFO |-> InfoReq_pack,
  REGISTRY |-> RegistryReq_pack, LOCAL_CHANGED_BLOCK_SERVICES |-> LocalChangedBlockServicesReq_pack,
  CREATE_LOCATION |-> CreateLocationReq_pack, RENAME_LOCATION |-> RenameLocationReq_pack,
  REGISTER_SHARD |-> RegisterShardReq_pack, LOCATIONS |-> LocationsReq_pack,
  REGISTER_CDC |-> RegisterCdcReq_pack, SET_BLOCK_SERVICE_FLAGS |-> SetBlockServiceFlagsReq_pack,
  REGISTER_BLOCK_SERVICES |-> RegisterBlockServicesReq_pack,
  CHANGED_BLOCK_SERVICES_AT_LOCATION |-> ChangedBlockServicesAtLocationReq_pack,
  SHARDS_AT_LOCATION |-> ShardsAtLocationReq_pack, CDC_AT_LOCATION |-> CdcAtLocationReq_pack,
  REGISTER_REGISTRY |-> RegisterRegistryReq_pack,
  ALL_REGISTRY_REPLICAS_DE_PR_EC_AT_ED |-> AllRegistryReplicasDEPRECATEDReq_pack,
  SHARD_BLOCK_SERVICES_DE_PR_EC_AT_ED |-> ShardBlockServicesDEPRECATEDReq_pack,
  CDC_REPLICAS_DE_PR_EC_AT_ED |-> CdcReplicasDEPRECATEDReq_pack,
  ALL_SHARDS_DE_PR_EC_AT_ED |-> AllShardsDEPRECATEDReq_pack,
  DECOMMISSION_BLOCK_SERVICE |-> DecommissionBlockServiceReq_pack,
  MOVE_SHARD_LEADER |-> MoveShardLeaderReq_pack, CLEAR_SHARD_INFO |-> ClearShardInfoReq_pack,
  SHARD_BLOCK_SERVICES |-> ShardBlockServicesReq_pack, ALL_CDC_DE_PR_EC_AT_ED |-> AllCdcDEPRECATEDReq_pack,
  ERASE_DECOMMISSIONED_BLOCK |-> EraseDecommissionedBlockReq_pack,
  ALL_BLOCK_SERVICES_DEPRECATED |-> AllBlockServicesDeprecatedReq_pack,
  ALL_BLOCK_SERVICES |-> AllBlockServicesReq_pack, MOVE_CDC_LEADER |-> MoveCdcLeaderReq_pack,
  CLEAR_CDC_INFO |-> ClearCdcInfoReq_pack, UPDATE_BLOCK_SERVICE_PATH |-> UpdateBlockServicePathReq_pack,
  SET_BLOCK_SERVICE_HAS_FILES |-> SetBlockServiceHasFilesReq_pack,
  BLOCK_SERVICES_NEEDING_MIGRATION_DEPRECATED |-> BlockServicesNeedingMigrationDeprecatedReq_pack,
  ALL_REGISTRY_REPLICAS |-> AllRegistryReplicasReq_pack, ALL_SHARDS |-> AllShardsReq_pack,
  ALL_CDC |-> AllCdcReq_pack, CHANGED_BLOCK_SERVICES_DEPRECATED |-> ChangedBlockServicesDeprecatedReq_pack,
  BLOCK_SERVICE_AVAILABLE_SPACE_DEPRECATED |-> BlockServiceAvailableSpaceDeprecatedReq_pack,
  CHANGED_BLOCK_SERVICES |-> ChangedBlockServicesReq_pack,
  BLOCK_SERVICES_NEEDING_MIGRATION |-> BlockServicesNeedingMigrationReq_pack,
  BLOCK_SERVICE_AVAILABLE_SPACE |-> BlockServiceAvailableSpaceReq_pack,
  LOCAL_SHARD_REPLICAS |-> LocalShardReplicasReq_pack]
RegistryReqContainer_unpack == [
  LOCAL_SHARDS |-> LocalShardsReq_unpack, LOCAL_CDC |-> LocalCdcReq_unpack, INFO |-> InfoReq_unpack,
  REGISTRY |-> RegistryReq_unpack, LOCAL_CHANGED_BLOCK_SERVICES |-> LocalChangedBlockServicesReq_unpack,
  CREATE_LOCATION |-> CreateLocationReq_unpack, RENAME_LOCATION |-> RenameLocationReq_unpack,
  REGISTER_SHARD |-> RegisterShardReq_unpack, LOCATIONS |-> LocationsReq_unpack,
  REGISTER_CDC |-> RegisterCdcReq_unpack, SET_BLOCK_SERVICE_FLAGS |-> SetBlockServiceFlagsReq_unpack,
  REGISTER_BLOCK_SERVICES |-> RegisterBlockServicesReq_unpack,
  CHANGED_BLOCK_SERVICES_AT_LOCATION |-> ChangedBlockServicesAtLocationReq_unpack,
  SHARDS_AT_LOCATION |-> ShardsAtLocationReq_unpack, CDC_AT_LOCATION |-> CdcAtLocationReq_unpack,
  REGISTER_REGISTRY |-> RegisterRegistryReq_unpack,
  ALL_REGISTRY_REPLICAS_DE_PR_EC_AT_ED |-> AllRegistryReplicasDEPRECATEDReq_unpack,
  SHARD_BLOCK_SERVICES_DE_PR_EC_AT_ED |-> ShardBlockServicesDEPRECATEDReq_unpack,
  CDC_REPLICAS_DE_PR_EC_AT_ED |-> CdcReplicasDEPRECATEDReq_unpack,
  ALL_SHARDS_DE_PR_EC_AT_ED |-> AllShardsDEPRECATEDReq_unpack,
  DECOMMISSION_BLOCK_SERVICE |-> DecommissionBlockServiceReq_unpack,
  MOVE_SHARD_LEADER |-> MoveShardLeaderReq_unpack, CLEAR_SHARD_INFO |-> ClearShardInfoReq_unpack,
  SHARD_BLOCK_SERVICES |-> ShardBlockServicesReq_unpack,
  ALL_CDC_DE_PR_EC_AT_ED |-> AllCdcDEPRECATEDReq_unpack,
  ERASE_DECOMMISSIONED_BLOCK |-> EraseDecommissionedBlockReq_unpack,
  ALL_BLOCK_SERVICES_DEPRECATED |-> AllBlockServicesDeprecatedReq_unpack,
  ALL_BLOCK_SERVICES |-> AllBlockServicesReq_unpack, MOVE_CDC_LEADER |-> MoveCdcLeaderReq_unpack,
  CLEAR_CDC_INFO |-> ClearCdcInfoReq_unpack, UPDATE_BLOCK_SERVICE_PATH |-> UpdateBlockServicePathReq_unpack,
  SET_BLOCK_SERVICE_HAS_FILES |-> SetBlockServiceHasFilesReq_unpack,
  BLOCK_SERVICES_NEEDING_MIGRATION_DEPRECATED |-> BlockServicesNeedingMigrationDeprecatedReq_unpack,
  ALL_REGISTRY_REPLICAS |-> AllRegistryReplicasReq_unpack, ALL_SHARDS |-> AllShardsReq_unpack,
  ALL_CDC |-> AllCdcReq_unpack,
  CHANGED_BLOCK_SERVICES_DEPRECATED |-> ChangedBlockServicesDeprecatedReq_unpack,
  BLOCK_SERVICE_AVAILABLE_SPACE_DEPRECATED |-> BlockServiceAvailableSpaceDeprecatedReq_unpack,
  CHANGED_BLOCK_SERVICES |-> ChangedBlockServicesReq_unpack,
  BLOCK_SERVICES_NEEDING_MIGRATION |-> BlockServicesNeedingMigrationReq_unpack,
  BLOCK_SERVICE_AVAILABLE_SPACE |-> BlockServiceAvailableSpaceReq_unpack,
  LOCAL_SHARD_REPLICAS |-> LocalShardReplicasReq_unpack]
RegistryRespContainer_pack == [
  LOCAL_SHARDS |-> LocalShardsResp_pack, LOCAL_CDC |-> LocalCdcResp_pack, INFO |-> InfoResp_pack,
  REGISTRY |-> RegistryResp_pack, LOCAL_CHANGED_BLOCK_SERVICES |-> LocalChangedBlockServicesResp_pack,
  CREATE_LOCATION |-> CreateLocationResp_pack, RENAME_LOCATION |-> RenameLocationResp_pack,
  REGISTER_SHARD |-> RegisterShardResp_pack, LOCATIONS |-> LocationsResp_pack,
  REGISTER_CDC |-> RegisterCdcResp_pack, SET_BLOCK_SERVICE_FLAGS |-> SetBlockServiceFlagsResp_pack,
  REGISTER_BLOCK_SERVICES |-> RegisterBlockServicesResp_pack,
  CHANGED_BLOCK_SERVICES_AT_LOCATION |-> ChangedBlockServicesAtLocationResp_pack,
  SHARDS_AT_LOCATION |-> ShardsAtLocationResp_pack, CDC_AT_LOCATION |-> CdcAtLocationResp_pack,
  REGISTER_REGISTRY |-> RegisterRegistryResp_pack,
  ALL_REGISTRY_REPLICAS_DE_PR_EC_AT_ED |-> AllRegistryReplicasDEPRECATEDResp_pack,
  SHARD_BLOCK_SERVICES_DE_PR_EC_AT_ED |-> ShardBlockServicesDEPRECATEDResp_pack,
  CDC_REPLICAS_DE_PR_EC_AT_ED |-> CdcReplicasDEPRECATEDResp_pack,
  ALL_SHARDS_DE_PR_EC_AT_ED |-> AllShardsDEPRECATEDResp_pack,
  DECOMMISSION_BLOCK_SERVICE |-> DecommissionBlockServiceResp_pack,
  MOVE_SHARD_LEADER |-> MoveShardLeaderResp_pack, CLEAR_SHARD_INFO |-> ClearShardInfoResp_pack,
  SHARD_BLOCK_SERVICES |-> ShardBlockServicesResp_pack, ALL_CDC_DE_PR_EC_AT_ED |-> AllCdcDEPRECATEDResp_pack,
  ERASE_DECOMMISSIONED_BLOCK |-> EraseDecommissionedBlockResp_pack,
  ALL_BLOCK_SERVICES_DEPRECATED |-> AllBlockServicesDeprecatedResp_pack,
  ALL_BLOCK_SERVICES |-> AllBlockServicesResp_pack, MOVE_CDC_LEADER |-> MoveCdcLeaderResp_pack,
  CLEAR_CDC_INFO |-> ClearCdcInfoResp_pack, UPDATE_BLOCK_SERVICE_PATH |-> UpdateBlockServicePathResp_pack,
  SET_BLOCK_SERVICE_HAS_FILES |-> SetBlockServiceHasFilesResp_pack,
  BLOCK_SERVICES_NEEDING_MIGRATION_DEPRECATED |-> BlockServicesNeedingMigrationDeprecatedResp_pack,
  ALL_REGISTRY_REPLICAS |-> AllRegistryReplicasResp_pack, ALL_SHARDS |-> AllShardsResp_pack,
  ALL_CDC |-> AllCdcResp_pack, CHANGED_BLOCK_SERVICES_DEPRECATED |-> ChangedBlockServicesDeprecatedResp_pack,
  BLOCK_SERVICE_AVAILABLE_SPACE_DEPRECATED |-> BlockServiceAvailableSpaceDeprecatedResp_pack,
  CHANGED_BLOCK_SERVICES |-> ChangedBlockServicesResp_pack,
  BLOCK_SERVICES_NEEDING_MIGRATION |-> BlockServicesNeedingMigrationResp_pack,
  BLOCK_SERVICE_AVAILABLE_SPACE |-> BlockServiceAvailableSpaceResp_pack,
  LOCAL_SHARD_REPLICAS |-> LocalShardReplicasResp_pack]
RegistryRespContainer_unpack == [
  LOCAL_SHARDS |-> LocalShardsResp_unpack, LOCAL_CDC |-> LocalCdcResp_unpack, INFO |-> InfoResp_unpack,
  REGISTRY |-> RegistryResp_unpack, LOCAL_CHANGED_BLOCK_SERVICES |-> LocalChangedBlockServicesResp_unpack,
  CREATE_LOCATION |-> CreateLocationResp_unpack, RENAME_LOCATION |-> RenameLocationResp_unpack,
  REGISTER_SHARD |-> RegisterShardResp_unpack, LOCATIONS |-> LocationsResp_unpack,
  REGISTER_CDC |-> RegisterCdcResp_unpack, SET_BLOCK_SERVICE_FLAGS |-> SetBlockServiceFlagsResp_unpack,
  REGISTER_BLOCK_SERVICES |-> RegisterBlockServicesResp_unpack,
  CHANGED_BLOCK_SERVICES_AT_LOCATION |-> ChangedBlockServicesAtLocationResp_unpack,
  SHARDS_AT_LOCATION |-> ShardsAtLocationResp_unpack, CDC_AT_LOCATION |-> CdcAtLocationResp_unpack,
  REGISTER_REGISTRY |-> RegisterRegistryResp_unpack,
  ALL_REGISTRY_REPLICAS_DE_PR_EC_AT_ED |-> AllRegistryReplicasDEPRECATEDResp_unpack,
  SHARD_BLOCK_SERVICES_DE_PR_EC_AT_ED |-> ShardBlockServicesDEPRECATEDResp_unpack,
  CDC_REPLICAS_DE_PR_EC_AT_ED |-> CdcReplicasDEPRECATEDResp_unpack,
  ALL_SHARDS_DE_PR_EC_AT_ED |-> AllShardsDEPRECATEDResp_unpack,
  DECOMMISSION_BLOCK_SERVICE |-> DecommissionBlockServiceResp_unpack,
  MOVE_SHARD_LEADER |-> MoveShardLeaderResp_unpack, CLEAR_SHARD_INFO |-> ClearShardInfoResp_unpack,
  SHARD_BLOCK_SERVICES |-> ShardBlockServicesResp_unpack,
  ALL_CDC_DE_PR_EC_AT_ED |-> AllCdcDEPRECATEDResp_unpack,
  ERASE_DECOMMISSIONED_BLOCK |-> EraseDecommissionedBlockResp_unpack,
  ALL_BLOCK_SERVICES_DEPRECATED |-> AllBlockServicesDeprecatedResp_unpack,
  ALL_BLOCK_SERVICES |-> AllBlockServicesResp_unpack, MOVE_CDC_LEADER |-> MoveCdcLeaderResp_unpack,
  CLEAR_CDC_INFO |-> ClearCdcInfoResp_unpack,
  UPDATE_BLOCK_SERVICE_PATH |-> UpdateBlockServicePathResp_unpack,
  SET_BLOCK_SERVICE_HAS_FILES |-> SetBlockServiceHasFilesResp_unpack,
  BLOCK_SERVICES_NEEDING_MIGRATION_DEPRECATED |-> BlockServicesNeedingMigrationDeprecatedResp_unpack,
  ALL_REGISTRY_REPLICAS |-> AllRegistryReplicasResp_unpack, ALL_SHARDS |-> AllShardsResp_unpack,
  ALL_CDC |-> AllCdcResp_unpack,
  CHANGED_BLOCK_SERVICES_DEPRECATED |-> ChangedBlockServicesDeprecatedResp_unpack,
  BLOCK_SERVICE_AVAILABLE_SPACE_DEPRECATED |-> BlockServiceAvailableSpaceDeprecatedResp_unpack,
  CHANGED_BLOCK_SERVICES |-> ChangedBlockServicesResp_unpack,
  BLOCK_SERVICES_NEEDING_MIGRATION |-> BlockServicesNeedingMigrationResp_unpack,
  BLOCK_SERVICE_AVAILABLE_SPACE |-> BlockServiceAvailableSpaceResp_unpack,
  LOCAL_SHARD_REPLICAS |-> LocalShardReplicasResp_unpack]
LogReqContainer_pack == [
  LOG_WRITE |-> LogWriteReq_pack, RELEASE |-> ReleaseReq_pack, LOG_READ |-> LogReadReq_pack,
  NEW_LEADER |-> NewLeaderReq_pack, NEW_LEADER_CONFIRM |-> NewLeaderConfirmReq_pack,
  LOG_RECOVERY_READ |-> LogRecoveryReadReq_pack, LOG_RECOVERY_WRITE |-> LogRecoveryWriteReq_pack]
LogReqContainer_unpack == [
  LOG_WRITE |-> LogWriteReq_unpack, RELEASE |-> ReleaseReq_unpack, LOG_READ |-> LogReadReq_unpack,
  NEW_LEADER |-> NewLeaderReq_unpack, NEW_LEADER_CONFIRM |-> NewLeaderConfirmReq_unpack,
  LOG_RECOVERY_READ |-> LogRecoveryReadReq_unpack, LOG_RECOVERY_WRITE |-> LogRecoveryWriteReq_unpack]
LogRespContainer_pack == [
  LOG_WRITE |-> LogWriteResp_pack, RELEASE |-> ReleaseResp_pack, LOG_READ |-> LogReadResp_pack,
  NEW_LEADER |-> NewLeaderResp_pack, NEW_LEADER_CONFIRM |-> NewLeaderConfirmResp_pack,
  LOG_RECOVERY_READ |-> LogRecoveryReadResp_pack, LOG_RECOVERY_WRITE |-> LogRecoveryWriteResp_pack]
LogRespContainer_unpack == [
  LOG_WRITE |-> LogWriteResp_unpack, RELEASE |-> ReleaseResp_unpack, LOG_READ |-> LogReadResp_unpack,
  NEW_LEADER |-> NewLeaderResp_unpack, NEW_LEADER_CONFIRM |-> NewLeaderConfirmResp_unpack,
  LOG_RECOVERY_READ |-> LogRecoveryReadResp_unpack, LOG_RECOVERY_WRITE |-> LogRecoveryWriteResp_unpack]
=============================================================================
