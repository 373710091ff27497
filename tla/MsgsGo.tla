------------------------------- MODULE MsgsGo -------------------------------
(***************************************************************************)
(* The registry's other messages, the block service's and the log's as the *)
(* Go code holds them (the structs of go/msgs/msgs.go), and the functions  *)
(* that pack and unpack them (go/msgs/msgs_bincode.go). T is the struct;   *)
(* TPack the calls that T.Pack makes, with the kind that T's RequestKind   *)
(* or ResponseKind method gives; TUnpack the calls that T.Unpack makes.    *)
(***************************************************************************)
EXTENDS MsgsGoRegistry

(* The structs. *)
ShardBlockServicesReq == StructOf(<<"ShardId", U8>>)
ShardBlockServicesResp == StructOf(<<"BlockServices", ListOf(BlockServiceInfoShort)>>)
AllCdcDEPRECATEDReq == StructOf(<<>>)
AllCdcDEPRECATEDResp == StructOf(<<"Replicas", ListOf(CdcInfo)>>)
EraseDecommissionedBlockReq == StructOf(<<"BlockServiceId", U64, "BlockId", U64, "Certificate", Octets(8)>>)
EraseDecommissionedBlockResp == StructOf(<<"Proof", Octets(8)>>)
AllBlockServicesDeprecatedReq == StructOf(<<>>)
AllBlockServicesDeprecatedResp == StructOf(<<"BlockServices", ListOf(BlockServiceDeprecatedInfo)>>)
AllBlockServicesReq == StructOf(<<>>)
AllBlockServicesResp == StructOf(<<"BlockServices", ListOf(FullBlockServiceInfo)>>)
MoveCdcLeaderReq == StructOf(<<"Replica", U8, "Location", U8>>)
MoveCdcLeaderResp == StructOf(<<>>)
ClearCdcInfoReq == StructOf(<<"Replica", U8, "Location", U8>>)
ClearCdcInfoResp == StructOf(<<>>)
UpdateBlockServicePathReq == StructOf(<<"Id", U64, "NewPath", Text>>)
UpdateBlockServicePathResp == StructOf(<<>>)
SetBlockServiceHasFilesReq == StructOf(<<"Id", U64, "HasFiles", Bool>>)
SetBlockServiceHasFilesResp == StructOf(<<>>)
BlockServicesNeedingMigrationDeprecatedReq == StructOf(<<"LocationId", U8>>)
BlockServicesNeedingMigrationDeprecatedResp == StructOf(<<"BlockServices", ListOf(U64)>>)
AllRegistryReplicasReq == StructOf(<<"MinKnownReplicas", U8, "Location", U8>>)
AllRegistryReplicasResp == StructOf(<<"Replicas", ListOf(FullRegistryInfo)>>)
AllShardsReq == StructOf(<<"MinKnownReplicas", U8, "Location", U8, "ShardId", U8>>)
AllShardsResp == StructOf(<<"Shards", ListOf(FullShardInfo)>>)
AllCdcReq == StructOf(<<"MinKnownReplicas", U8, "Location", U8>>)
AllCdcResp == StructOf(<<"Replicas", ListOf(CdcInfo)>>)
ChangedBlockServicesDeprecatedReq == StructOf(<<"Since", U64>>)
ChangedBlockServicesDeprecatedResp == StructOf(<<
  "LastChange", U64, "BlockServices", ListOf(FullBlockServiceInfo)>>)
BlockServiceAvailableSpaceDeprecatedReq == StructOf(<<>>)
BlockServiceAvailableSpaceDeprecatedResp == StructOf(<<"BlockServices", ListOf(BlockServiceSpace)>>)
ChangedBlockServicesReq == StructOf(<<"Since", U64>>)
ChangedBlockServicesResp == StructOf(<<"LastChange", U64, "BlockServices", ListOf(FullBlockServiceInfo)>>)
BlockServicesNeedingMigrationReq == StructOf(<<"LocationId", U8>>)
BlockServicesNeedingMigrationResp == StructOf(<<"BlockServices", ListOf(U64)>>)
BlockServiceAvailableSpaceReq == StructOf(<<>>)
BlockServiceAvailableSpaceResp == StructOf(<<"BlockServices", ListOf(BlockServiceSpace)>>)
LocalShardReplicasReq == StructOf(<<>>)
LocalShardReplicasResp == StructOf(<<"Shards", ListOf(FullShardInfo)>>)
FetchBlockReq == StructOf(<<"BlockId", U64, "Offset", U32, "Count", U32>>)
FetchBlockResp == StructOf(<<>>)
WriteBlockReq == StructOf(<<"BlockId", U64, "Crc", U32, "Size", U32, "Certificate", Octets(8)>>)
WriteBlockResp == StructOf(<<"Proof", Octets(8)>>)
FetchBlockWithCrcReq == StructOf(<<
  "FileIdUnused", InodeId, "BlockId", U64, "BlockCrcUnused", U32, "Offset", U32, "Count", U32>>)
FetchBlockWithCrcResp == StructOf(<<>>)
EraseBlockReq == StructOf(<<"BlockId", U64, "Certificate", Octets(8)>>)
EraseBlockResp == StructOf(<<"Proof", Octets(8)>>)
TestWriteReq == StructOf(<<"Size", U64>>)
TestWriteResp == StructOf(<<>>)
CheckBlockReq == StructOf(<<"BlockId", U64, "Size", U32, "Crc", U32>>)
CheckBlockResp == StructOf(<<>>)
LogWriteReq == StructOf(<<"Token", U64, "LastReleased", U64, "Idx", U64, "Value", ListOf(U8)>>)
LogWriteResp == StructOf(<<"Result", U16>>)
ReleaseReq == StructOf(<<"Token", U64, "LastReleased", U64>>)
ReleaseResp == StructOf(<<"Result", U16>>)
LogReadReq == StructOf(<<"Idx", U64>>)
LogReadResp == StructOf(<<"Result", U16, "Value", ListOf(U8)>>)
NewLeaderReq == StructOf(<<"NomineeToken", U64>>)
NewLeaderResp == StructOf(<<"Result", U16, "LastReleased", U64>>)
NewLeaderConfirmReq == StructOf(<<"NomineeToken", U64, "ReleasedIdx", U64>>)
NewLeaderConfirmResp == StructOf(<<"Result", U16>>)
LogRecoveryReadReq == StructOf(<<"NomineeToken", U64, "Idx", U64>>)
LogRecoveryReadResp == StructOf(<<"Result", U16, "Value", ListOf(U8)>>)
LogRecoveryWriteReq == StructOf(<<"NomineeToken", U64, "Idx", U64, "Value", ListOf(U8)>>)
LogRecoveryWriteResp == StructOf(<<"Result", U16>>)

(* Pack. *)
ShardBlockServicesReqPack == Msg(RegistryMessageKind.SHARD_BLOCK_SERVICES, <<Scalar(1, "ShardId")>>)
ShardBlockServicesRespPack == Msg(RegistryMessageKind.SHARD_BLOCK_SERVICES, <<
  List(2, "BlockServices", Nested("", BlockServiceInfoShortPack))>>)
AllCdcDEPRECATEDReqPack == Msg(RegistryMessageKind.ALL_CDC_DE_PR_EC_AT_ED, <<>>)
AllCdcDEPRECATEDRespPack == Msg(RegistryMessageKind.ALL_CDC_DE_PR_EC_AT_ED, <<
  List(2, "Replicas", Nested("", CdcInfoPack))>>)
EraseDecommissionedBlockReqPack == Msg(RegistryMessageKind.ERASE_DECOMMISSIONED_BLOCK, <<
  Scalar(8, "BlockServiceId"), Scalar(8, "BlockId"), FixedBytes(8, "Certificate")>>)
EraseDecommissionedBlockRespPack == Msg(RegistryMessageKind.ERASE_DECOMMISSIONED_BLOCK, <<FixedBytes(8, "Proof")>>)
AllBlockServicesDeprecatedReqPack == Msg(RegistryMessageKind.ALL_BLOCK_SERVICES_DEPRECATED, <<>>)
AllBlockServicesDeprecatedRespPack == Msg(RegistryMessageKind.ALL_BLOCK_SERVICES_DEPRECATED, <<
  List(2, "BlockServices", Nested("", BlockServiceDeprecatedInfoPack))>>)
AllBlockServicesReqPack == Msg(RegistryMessageKind.ALL_BLOCK_SERVICES, <<>>)
AllBlockServicesRespPack == Msg(RegistryMessageKind.ALL_BLOCK_SERVICES, <<
  List(2, "BlockServices", Nested("", FullBlockServiceInfoPack))>>)
MoveCdcLeaderReqPack == Msg(RegistryMessageKind.MOVE_CDC_LEADER, <<
  Scalar(1, "Replica"), Scalar(1, "Location")>>)
MoveCdcLeaderRespPack == Msg(RegistryMessageKind.MOVE_CDC_LEADER, <<>>)
ClearCdcInfoReqPack == Msg(RegistryMessageKind.CLEAR_CDC_INFO, <<
  Scalar(1, "Replica"), Scalar(1, "Location")>>)
ClearCdcInfoRespPack == Msg(RegistryMessageKind.CLEAR_CDC_INFO, <<>>)
UpdateBlockServicePathReqPack == Msg(RegistryMessageKind.UPDATE_BLOCK_SERVICE_PATH, <<
  Scalar(8, "Id"), ByteString("NewPath")>>)
UpdateBlockServicePathRespPack == Msg(RegistryMessageKind.UPDATE_BLOCK_SERVICE_PATH, <<>>)
SetBlockServiceHasFilesReqPack == Msg(RegistryMessageKind.SET_BLOCK_SERVICE_HAS_FILES, <<
  Scalar(8, "Id"), Flag("HasFiles")>>)
SetBlockServiceHasFilesRespPack == Msg(RegistryMessageKind.SET_BLOCK_SERVICE_HAS_FILES, <<>>)
BlockServicesNeedingMigrationDeprecatedReqPack == Msg(RegistryMessageKind.BLOCK_SERVICES_NEEDING_MIGRATION_DEPRECATED, <<
  Scalar(1, "LocationId")>>)
BlockServicesNeedingMigrationDeprecatedRespPack == Msg(RegistryMessageKind.BLOCK_SERVICES_NEEDING_MIGRATION_DEPRECATED, <<
  List(2, "BlockServices", Scalar(8, ""))>>)
AllRegistryReplicasReqPack == Msg(RegistryMessageKind.ALL_REGISTRY_REPLICAS, <<
  Scalar(1, "MinKnownReplicas"), Scalar(1, "Location")>>)
AllRegistryReplicasRespPack == Msg(RegistryMessageKind.ALL_REGISTRY_REPLICAS, <<
  List(2, "Replicas", Nested("", FullRegistryInfoPack))>>)
AllShardsReqPack == Msg(RegistryMessageKind.ALL_SHARDS, <<
  Scalar(1, "MinKnownReplicas"), Scalar(1, "Location"), Scalar(1, "ShardId")>>)
AllShardsRespPack == Msg(RegistryMessageKind.ALL_SHARDS, <<List(2, "Shards", Nested("", FullShardInfoPack))>>)
AllCdcReqPack == Msg(RegistryMessageKind.ALL_CDC, <<Scalar(1, "MinKnownReplicas"), Scalar(1, "Location")>>)
AllCdcRespPack == Msg(RegistryMessageKind.ALL_CDC, <<List(2, "Replicas", Nested("", CdcInfoPack))>>)
ChangedBlockServicesDeprecatedReqPack == Msg(RegistryMessageKind.CHANGED_BLOCK_SERVICES_DEPRECATED, <<
  Scalar(8, "Since")>>)
ChangedBlockServicesDeprecatedRespPack == Msg(RegistryMessageKind.CHANGED_BLOCK_SERVICES_DEPRECATED, <<
  Scalar(8, "LastChange"), List(2, "BlockServices", Nested("", FullBlockServiceInfoPack))>>)
BlockServiceAvailableSpaceDeprecatedReqPack == Msg(RegistryMessageKind.BLOCK_SERVICE_AVAILABLE_SPACE_DEPRECATED, <<>>)
BlockServiceAvailableSpaceDeprecatedRespPack == Msg(RegistryMessageKind.BLOCK_SERVICE_AVAILABLE_SPACE_DEPRECATED, <<
  List(2, "BlockServices", Nested("", BlockServiceSpacePack))>>)
ChangedBlockServicesReqPack == Msg(RegistryMessageKind.CHANGED_BLOCK_SERVICES, <<Scalar(8, "Since")>>)
ChangedBlockServicesRespPack == Msg(RegistryMessageKind.CHANGED_BLOCK_SERVICES, <<
  Scalar(8, "LastChange"), List(4, "BlockServices", Nested("", FullBlockServiceInfoPack))>>)
BlockServicesNeedingMigrationReqPack == Msg(RegistryMessageKind.BLOCK_SERVICES_NEEDING_MIGRATION, <<
  Scalar(1, "LocationId")>>)
BlockServicesNeedingMigrationRespPack == Msg(RegistryMessageKind.BLOCK_SERVICES_NEEDING_MIGRATION, <<
  List(4, "BlockServices", Scalar(8, ""))>>)
BlockServiceAvailableSpaceReqPack == Msg(RegistryMessageKind.BLOCK_SERVICE_AVAILABLE_SPACE, <<>>)
BlockServiceAvailableSpaceRespPack == Msg(RegistryMessageKind.BLOCK_SERVICE_AVAILABLE_SPACE, <<
  List(4, "BlockServices", Nested("", BlockServiceSpacePack))>>)
LocalShardReplicasReqPack == Msg(RegistryMessageKind.LOCAL_SHARD_REPLICAS, <<>>)
LocalShardReplicasRespPack == Msg(RegistryMessageKind.LOCAL_SHARD_REPLICAS, <<
  List(2, "Shards", Nested("", FullShardInfoPack))>>)
FetchBlockReqPack == Msg(BlocksMessageKind.FETCH_BLOCK, <<
  Scalar(8, "BlockId"), Scalar(4, "Offset"), Scalar(4, "Count")>>)
FetchBlockRespPack == Msg(BlocksMessageKind.FETCH_BLOCK, <<>>)
WriteBlockReqPack == Msg(BlocksMessageKind.WRITE_BLOCK, <<
  Scalar(8, "BlockId"), Scalar(4, "Crc"), Scalar(4, "Size"), FixedBytes(8, "Certificate")>>)
WriteBlockRespPack == Msg(BlocksMessageKind.WRITE_BLOCK, <<FixedBytes(8, "Proof")>>)
FetchBlockWithCrcReqPack == Msg(BlocksMessageKind.FETCH_BLOCK_WITH_CRC, <<
  Scalar(8, "FileIdUnused"), Scalar(8, "BlockId"), Scalar(4, "BlockCrcUnused"), Scalar(4, "Offset"),
  Scalar(4, "Count")>>)
FetchBlockWithCrcRespPack == Msg(BlocksMessageKind.FETCH_BLOCK_WITH_CRC, <<>>)
EraseBlockReqPack == Msg(BlocksMessageKind.ERASE_BLOCK, <<Scalar(8, "BlockId"), FixedBytes(8, "Certificate")>>)
EraseBlockRespPack == Msg(BlocksMessageKind.ERASE_BLOCK, <<FixedBytes(8, "Proof")>>)
TestWriteReqPack == Msg(BlocksMessageKind.TEST_WRITE, <<Scalar(8, "Size")>>)
TestWriteRespPack == Msg(BlocksMessageKind.TEST_WRITE, <<>>)
CheckBlockReqPack == Msg(BlocksMessageKind.CHECK_BLOCK, <<
  Scalar(8, "BlockId"), Scalar(4, "Size"), Scalar(4, "Crc")>>)
CheckBlockRespPack == Msg(BlocksMessageKind.CHECK_BLOCK, <<>>)
LogWriteReqPack == Msg(LogMessageKind.LOG_WRITE, <<
  Scalar(8, "Token"), Scalar(8, "LastReleased"), Scalar(8, "Idx"), Blob(2, "Value")>>)
LogWriteRespPack == Msg(LogMessageKind.LOG_WRITE, <<Scalar(2, "Result")>>)
ReleaseReqPack == Msg(LogMessageKind.RELEASE, <<Scalar(8, "Token"), Scalar(8, "LastReleased")>>)
ReleaseRespPack == Msg(LogMessageKind.RELEASE, <<Scalar(2, "Result")>>)
LogReadReqPack == Msg(LogMessageKind.LOG_READ, <<Scalar(8, "Idx")>>)
LogReadRespPack == Msg(LogMessageKind.LOG_READ, <<Scalar(2, "Result"), Blob(2, "Value")>>)
NewLeaderReqPack == Msg(LogMessageKind.NEW_LEADER, <<Scalar(8, "NomineeToken")>>)
NewLeaderRespPack == Msg(LogMessageKind.NEW_LEADER, <<Scalar(2, "Result"), Scalar(8, "LastReleased")>>)
NewLeaderConfirmReqPack == Msg(LogMessageKind.NEW_LEADER_CONFIRM, <<
  Scalar(8, "NomineeToken"), Scalar(8, "ReleasedIdx")>>)
NewLeaderConfirmRespPack == Msg(LogMessageKind.NEW_LEADER_CONFIRM, <<Scalar(2, "Result")>>)
LogRecoveryReadReqPack == Msg(LogMessageKind.LOG_RECOVERY_READ, <<
  Scalar(8, "NomineeToken"), Scalar(8, "Idx")>>)
LogRecoveryReadRespPack == Msg(LogMessageKind.LOG_RECOVERY_READ, <<Scalar(2, "Result"), Blob(2, "Value")>>)
LogRecoveryWriteReqPack == Msg(LogMessageKind.LOG_RECOVERY_WRITE, <<
  Scalar(8, "NomineeToken"), Scalar(8, "Idx"), Blob(2, "Value")>>)
LogRecoveryWriteRespPack == Msg(LogMessageKind.LOG_RECOVERY_WRITE, <<Scalar(2, "Result")>>)

(* Unpack. *)
ShardBlockServicesReqUnpack == StepList(<<Scalar(1, "ShardId")>>)
ShardBlockServicesRespUnpack == StepList(<<List(2, "BlockServices", Nested("", BlockServiceInfoShortUnpack))>>)
AllCdcDEPRECATEDReqUnpack == StepList(<<>>)
AllCdcDEPRECATEDRespUnpack == StepList(<<List(2, "Replicas", Nested("", CdcInfoUnpack))>>)
EraseDecommissionedBlockReqUnpack == StepList(<<
  Scalar(8, "BlockServiceId"), Scalar(8, "BlockId"), FixedBytes(8, "Certificate")>>)
EraseDecommissionedBlockRespUnpack == StepList(<<FixedBytes(8, "Proof")>>)
AllBlockServicesDeprecatedReqUnpack == StepList(<<>>)
AllBlockServicesDeprecatedRespUnpack == StepList(<<
  List(2, "BlockServices", Nested("", BlockServiceDeprecatedInfoUnpack))>>)
AllBlockServicesReqUnpack == StepList(<<>>)
AllBlockServicesRespUnpack == StepList(<<List(2, "BlockServices", Nested("", FullBlockServiceInfoUnpack))>>)
MoveCdcLeaderReqUnpack == StepList(<<Scalar(1, "Replica"), Scalar(1, "Location")>>)
MoveCdcLeaderRespUnpack == StepList(<<>>)
ClearCdcInfoReqUnpack == StepList(<<Scalar(1, "Replica"), Scalar(1, "Location")>>)
ClearCdcInfoRespUnpack == StepList(<<>>)
UpdateBlockServicePathReqUnpack == StepList(<<Scalar(8, "Id"), ByteString("NewPath")>>)
UpdateBlockServicePathRespUnpack == StepList(<<>>)
SetBlockServiceHasFilesReqUnpack == StepList(<<Scalar(8, "Id"), Flag("HasFiles")>>)
SetBlockServiceHasFilesRespUnpack == StepList(<<>>)
BlockServicesNeedingMigrationDeprecatedReqUnpack == StepList(<<Scalar(1, "LocationId")>>)
BlockServicesNeedingMigrationDeprecatedRespUnpack == StepList(<<List(2, "BlockServices", Scalar(8, ""))>>)
AllRegistryReplicasReqUnpack == StepList(<<Scalar(1, "MinKnownReplicas"), Scalar(1, "Location")>>)
AllRegistryReplicasRespUnpack == StepList(<<List(2, "Replicas", Nested("", FullRegistryInfoUnpack))>>)
AllShardsReqUnpack == StepList(<<Scalar(1, "MinKnownReplicas"), Scalar(1, "Location"), Scalar(1, "ShardId")>>)
AllShardsRespUnpack == StepList(<<List(2, "Shards", Nested("", FullShardInfoUnpack))>>)
AllCdcReqUnpack == StepList(<<Scalar(1, "MinKnownReplicas"), Scalar(1, "Location")>>)
AllCdcRespUnpack == StepList(<<List(2, "Replicas", Nested("", CdcInfoUnpack))>>)
ChangedBlockServicesDeprecatedReqUnpack == StepList(<<Scalar(8, "Since")>>)
ChangedBlockServicesDeprecatedRespUnpack == StepList(<<
  Scalar(8, "LastChange"), List(2, "BlockServices", Nested("", FullBlockServiceInfoUnpack))>>)
BlockServiceAvailableSpaceDeprecatedReqUnpack == StepList(<<>>)
BlockServiceAvailableSpaceDeprecatedRespUnpack == StepList(<<
  List(2, "BlockServices", Nested("", BlockServiceSpaceUnpack))>>)
ChangedBlockServicesReqUnpack == StepList(<<Scalar(8, "Since")>>)
ChangedBlockServicesRespUnpack == StepList(<<
  Scalar(8, "LastChange"), List(4, "BlockServices", Nested("", FullBlockServiceInfoUnpack))>>)
BlockServicesNeedingMigrationReqUnpack == StepList(<<Scalar(1, "LocationId")>>)
BlockServicesNeedingMigrationRespUnpack == StepList(<<List(4, "BlockServices", Scalar(8, ""))>>)
BlockServiceAvailableSpaceReqUnpack == StepList(<<>>)
BlockServiceAvailableSpaceRespUnpack == StepList(<<List(4, "BlockServices", Nested("", BlockServiceSpaceUnpack))>>)
LocalShardReplicasReqUnpack == StepList(<<>>)
LocalShardReplicasRespUnpack == StepList(<<List(2, "Shards", Nested("", FullShardInfoUnpack))>>)
FetchBlockReqUnpack == StepList(<<Scalar(8, "BlockId"), Scalar(4, "Offset"), Scalar(4, "Count")>>)
FetchBlockRespUnpack == StepList(<<>>)
WriteBlockReqUnpack == StepList(<<
  Scalar(8, "BlockId"), Scalar(4, "Crc"), Scalar(4, "Size"), FixedBytes(8, "Certificate")>>)
WriteBlockRespUnpack == StepList(<<FixedBytes(8, "Proof")>>)
FetchBlockWithCrcReqUnpack == StepList(<<
  Scalar(8, "FileIdUnused"), Scalar(8, "BlockId"), Scalar(4, "BlockCrcUnused"), Scalar(4, "Offset"),
  Scalar(4, "Count")>>)
FetchBlockWithCrcRespUnpack == StepList(<<>>)
EraseBlockReqUnpack == StepList(<<Scalar(8, "BlockId"), FixedBytes(8, "Certificate")>>)
EraseBlockRespUnpack == StepList(<<FixedBytes(8, "Proof")>>)
TestWriteReqUnpack == StepList(<<Scalar(8, "Size")>>)
TestWriteRespUnpack == StepList(<<>>)
CheckBlockReqUnpack == StepList(<<Scalar(8, "BlockId"), Scalar(4, "Size"), Scalar(4, "Crc")>>)
CheckBlockRespUnpack == StepList(<<>>)
LogWriteReqUnpack == StepList(<<
  Scalar(8, "Token"), Scalar(8, "LastReleased"), Scalar(8, "Idx"), Blob(2, "Value")>>)
LogWriteRespUnpack == StepList(<<Scalar(2, "Result")>>)
ReleaseReqUnpack == StepList(<<Scalar(8, "Token"), Scalar(8, "LastReleased")>>)
ReleaseRespUnpack == StepList(<<Scalar(2, "Result")>>)
LogReadReqUnpack == StepList(<<Scalar(8, "Idx")>>)
LogReadRespUnpack == StepList(<<Scalar(2, "Result"), Blob(2, "Value")>>)
NewLeaderReqUnpack == StepList(<<Scalar(8, "NomineeToken")>>)
NewLeaderRespUnpack == StepList(<<Scalar(2, "Result"), Scalar(8, "LastReleased")>>)
NewLeaderConfirmReqUnpack == StepList(<<Scalar(8, "NomineeToken"), Scalar(8, "ReleasedIdx")>>)
NewLeaderConfirmRespUnpack == StepList(<<Scalar(2, "Result")>>)
LogRecoveryReadReqUnpack == StepList(<<Scalar(8, "NomineeToken"), Scalar(8, "Idx")>>)
LogRecoveryReadRespUnpack == StepList(<<Scalar(2, "Result"), Blob(2, "Value")>>)
LogRecoveryWriteReqUnpack == StepList(<<Scalar(8, "NomineeToken"), Scalar(8, "Idx"), Blob(2, "Value")>>)
LogRecoveryWriteRespUnpack == StepList(<<Scalar(2, "Result")>>)

(* What a request and its response are, by kind. *)
Pair(req, reqPack, reqUnpack, resp, respPack, respUnpack) ==
  [req |-> [type |-> req, pack |-> reqPack, unpack |-> reqUnpack],
   resp |-> [type |-> resp, pack |-> respPack, unpack |-> respUnpack]]
MkShardMessage == [
  LOOKUP |-> Pair(LookupReq, LookupReqPack, LookupReqUnpack, LookupResp, LookupRespPack, LookupRespUnpack),
  STAT_FILE |-> Pair(StatFileReq, StatFileReqPack, StatFileReqUnpack, StatFileResp, StatFileRespPack, StatFileRespUnpack),
  STAT_DIRECTORY |-> Pair(StatDirectoryReq, StatDirectoryReqPack, StatDirectoryReqUnpack, StatDirectoryResp, StatDirectoryRespPack, StatDirectoryRespUnpack),
  READ_DIR |-> Pair(ReadDirReq, ReadDirReqPack, ReadDirReqUnpack, ReadDirResp, ReadDirRespPack, ReadDirRespUnpack),
  CONSTRUCT_FILE |-> Pair(ConstructFileReq, ConstructFileReqPack, ConstructFileReqUnpack, ConstructFileResp, ConstructFileRespPack, ConstructFileRespUnpack),
  ADD_SPAN_INITIATE |-> Pair(AddSpanInitiateReq, AddSpanInitiateReqPack, AddSpanInitiateReqUnpack, AddSpanInitiateResp, AddSpanInitiateRespPack, AddSpanInitiateRespUnpack),
  ADD_SPAN_CERTIFY |-> Pair(AddSpanCertifyReq, AddSpanCertifyReqPack, AddSpanCertifyReqUnpack, AddSpanCertifyResp, AddSpanCertifyRespPack, AddSpanCertifyRespUnpack),
  LINK_FILE |-> Pair(LinkFileReq, LinkFileReqPack, LinkFileReqUnpack, LinkFileResp, LinkFileRespPack, LinkFileRespUnpack),
  SOFT_UNLINK_FILE |-> Pair(SoftUnlinkFileReq, SoftUnlinkFileReqPack, SoftUnlinkFileReqUnpack, SoftUnlinkFileResp, SoftUnlinkFileRespPack, SoftUnlinkFileRespUnpack),
  LOCAL_FILE_SPANS |-> Pair(LocalFileSpansReq, LocalFileSpansReqPack, LocalFileSpansReqUnpack, LocalFileSpansResp, LocalFileSpansRespPack, LocalFileSpansRespUnpack),
  SAME_DIRECTORY_RENAME |-> Pair(SameDirectoryRenameReq, SameDirectoryRenameReqPack, SameDirectoryRenameReqUnpack, SameDirectoryRenameResp, SameDirectoryRenameRespPack, SameDirectoryRenameRespUnpack),
  ADD_INLINE_SPAN |-> Pair(AddInlineSpanReq, AddInlineSpanReqPack, AddInlineSpanReqUnpack, AddInlineSpanResp, AddInlineSpanRespPack, AddInlineSpanRespUnpack),
  SET_TIME |-> Pair(SetTimeReq, SetTimeReqPack, SetTimeReqUnpack, SetTimeResp, SetTimeRespPack, SetTimeRespUnpack),
  FULL_READ_DIR |-> Pair(FullReadDirReq, FullReadDirReqPack, FullReadDirReqUnpack, FullReadDirResp, FullReadDirRespPack, FullReadDirRespUnpack),
  MOVE_SPAN |-> Pair(MoveSpanReq, MoveSpanReqPack, MoveSpanReqUnpack, MoveSpanResp, MoveSpanRespPack, MoveSpanRespUnpack),
  REMOVE_NON_OWNED_EDGE |-> Pair(RemoveNonOwnedEdgeReq, RemoveNonOwnedEdgeReqPack, RemoveNonOwnedEdgeReqUnpack, RemoveNonOwnedEdgeResp, RemoveNonOwnedEdgeRespPack, RemoveNonOwnedEdgeRespUnpack),
  SAME_SHARD_HARD_FILE_UNLINK |-> Pair(SameShardHardFileUnlinkReq, SameShardHardFileUnlinkReqPack, SameShardHardFileUnlinkReqUnpack, SameShardHardFileUnlinkResp, SameShardHardFileUnlinkRespPack, SameShardHardFileUnlinkRespUnpack),
  STAT_TRANSIENT_FILE |-> Pair(StatTransientFileReq, StatTransientFileReqPack, StatTransientFileReqUnpack, StatTransientFileResp, StatTransientFileRespPack, StatTransientFileRespUnpack),
  SHARD_SNAPSHOT |-> Pair(ShardSnapshotReq, ShardSnapshotReqPack, ShardSnapshotReqUnpack, ShardSnapshotResp, ShardSnapshotRespPack, ShardSnapshotRespUnpack),
  FILE_SPANS |-> Pair(FileSpansReq, FileSpansReqPack, FileSpansReqUnpack, FileSpansResp, FileSpansRespPack, FileSpansRespUnpack),
  ADD_SPAN_LOCATION |-> Pair(AddSpanLocationReq, AddSpanLocationReqPack, AddSpanLocationReqUnpack, AddSpanLocationResp, AddSpanLocationRespPack, AddSpanLocationRespUnpack),
  SCRAP_TRANSIENT_FILE |-> Pair(ScrapTransientFileReq, ScrapTransientFileReqPack, ScrapTransientFileReqUnpack, ScrapTransientFileResp, ScrapTransientFileRespPack, ScrapTransientFileRespUnpack),
  SET_DIRECTORY_INFO |-> Pair(SetDirectoryInfoReq, SetDirectoryInfoReqPack, SetDirectoryInfoReqUnpack, SetDirectoryInfoResp, SetDirectoryInfoRespPack, SetDirectoryInfoRespUnpack),
  GET_LINK_ENTRIES |-> Pair(GetLinkEntriesReq, GetLinkEntriesReqPack, GetLinkEntriesReqUnpack, GetLinkEntriesResp, GetLinkEntriesRespPack, GetLinkEntriesRespUnpack),
  WAIT_STATE_APPLIED |-> Pair(WaitStateAppliedReq, WaitStateAppliedReqPack, WaitStateAppliedReqUnpack, WaitStateAppliedResp, WaitStateAppliedRespPack, WaitStateAppliedRespUnpack),
  VISIT_DIRECTORIES |-> Pair(VisitDirectoriesReq, VisitDirectoriesReqPack, VisitDirectoriesReqUnpack, VisitDirectoriesResp, VisitDirectoriesRespPack, VisitDirectoriesRespUnpack),
  VISIT_FILES |-> Pair(VisitFilesReq, VisitFilesReqPack, VisitFilesReqUnpack, VisitFilesResp, VisitFilesRespPack, VisitFilesRespUnpack),
  VISIT_TRANSIENT_FILES |-> Pair(VisitTransientFilesReq, VisitTransientFilesReqPack, VisitTransientFilesReqUnpack, VisitTransientFilesResp, VisitTransientFilesRespPack, VisitTransientFilesRespUnpack),
  REMOVE_SPAN_INITIATE |-> Pair(RemoveSpanInitiateReq, RemoveSpanInitiateReqPack, RemoveSpanInitiateReqUnpack, RemoveSpanInitiateResp, RemoveSpanInitiateRespPack, RemoveSpanInitiateRespUnpack),
  REMOVE_SPAN_CERTIFY |-> Pair(RemoveSpanCertifyReq, RemoveSpanCertifyReqPack, RemoveSpanCertifyReqUnpack, RemoveSpanCertifyResp, RemoveSpanCertifyRespPack, RemoveSpanCertifyRespUnpack),
  SWAP_BLOCKS |-> Pair(SwapBlocksReq, SwapBlocksReqPack, SwapBlocksReqUnpack, SwapBlocksResp, SwapBlocksRespPack, SwapBlocksRespUnpack),
  BLOCK_SERVICE_FILES |-> Pair(BlockServiceFilesReq, BlockServiceFilesReqPack, BlockServiceFilesReqUnpack, BlockServiceFilesResp, BlockServiceFilesRespPack, BlockServiceFilesRespUnpack),
  REMOVE_INODE |-> Pair(RemoveInodeReq, RemoveInodeReqPack, RemoveInodeReqUnpack, RemoveInodeResp, RemoveInodeRespPack, RemoveInodeRespUnpack),
  ADD_SPAN_INITIATE_WITH_REFERENCE |-> Pair(AddSpanInitiateWithReferenceReq, AddSpanInitiateWithReferenceReqPack, AddSpanInitiateWithReferenceReqUnpack, AddSpanInitiateWithReferenceResp, AddSpanInitiateWithReferenceRespPack, AddSpanInitiateWithReferenceRespUnpack),
  REMOVE_ZERO_BLOCK_SERVICE_FILES |-> Pair(RemoveZeroBlockServiceFilesReq, RemoveZeroBlockServiceFilesReqPack, RemoveZeroBlockServiceFilesReqUnpack, RemoveZeroBlockServiceFilesResp, RemoveZeroBlockServiceFilesRespPack, RemoveZeroBlockServiceFilesRespUnpack),
  SWAP_SPANS |-> Pair(SwapSpansReq, SwapSpansReqPack, SwapSpansReqUnpack, SwapSpansResp, SwapSpansRespPack, SwapSpansRespUnpack),
  SAME_DIRECTORY_RENAME_SNAPSHOT |-> Pair(SameDirectoryRenameSnapshotReq, SameDirectoryRenameSnapshotReqPack, SameDirectoryRenameSnapshotReqUnpack, SameDirectoryRenameSnapshotResp, SameDirectoryRenameSnapshotRespPack, SameDirectoryRenameSnapshotRespUnpack),
  ADD_SPAN_AT_LOCATION_INITIATE |-> Pair(AddSpanAtLocationInitiateReq, AddSpanAtLocationInitiateReqPack, AddSpanAtLocationInitiateReqUnpack, AddSpanAtLocationInitiateResp, AddSpanAtLocationInitiateRespPack, AddSpanAtLocationInitiateRespUnpack),
  CREATE_DIRECTORY_INODE |-> Pair(CreateDirectoryInodeReq, CreateDirectoryInodeReqPack, CreateDirectoryInodeReqUnpack, CreateDirectoryInodeResp, CreateDirectoryInodeRespPack, CreateDirectoryInodeRespUnpack),
  SET_DIRECTORY_OWNER |-> Pair(SetDirectoryOwnerReq, SetDirectoryOwnerReqPack, SetDirectoryOwnerReqUnpack, SetDirectoryOwnerResp, SetDirectoryOwnerRespPack, SetDirectoryOwnerRespUnpack),
  REMOVE_DIRECTORY_OWNER |-> Pair(RemoveDirectoryOwnerReq, RemoveDirectoryOwnerReqPack, RemoveDirectoryOwnerReqUnpack, RemoveDirectoryOwnerResp, RemoveDirectoryOwnerRespPack, RemoveDirectoryOwnerRespUnpack),
  CREATE_LOCKED_CURRENT_EDGE |-> Pair(CreateLockedCurrentEdgeReq, CreateLockedCurrentEdgeReqPack, CreateLockedCurrentEdgeReqUnpack, CreateLockedCurrentEdgeResp, CreateLockedCurrentEdgeRespPack, CreateLockedCurrentEdgeRespUnpack),
  LOCK_CURRENT_EDGE |-> Pair(LockCurrentEdgeReq, LockCurrentEdgeReqPack, LockCurrentEdgeReqUnpack, LockCurrentEdgeResp, LockCurrentEdgeRespPack, LockCurrentEdgeRespUnpack),
  UNLOCK_CURRENT_EDGE |-> Pair(UnlockCurrentEdgeReq, UnlockCurrentEdgeReqPack, UnlockCurrentEdgeReqUnpack, UnlockCurrentEdgeResp, UnlockCurrentEdgeRespPack, UnlockCurrentEdgeRespUnpack),
  REMOVE_OWNED_SNAPSHOT_FILE_EDGE |-> Pair(RemoveOwnedSnapshotFileEdgeReq, RemoveOwnedSnapshotFileEdgeReqPack, RemoveOwnedSnapshotFileEdgeReqUnpack, RemoveOwnedSnapshotFileEdgeResp, RemoveOwnedSnapshotFileEdgeRespPack, RemoveOwnedSnapshotFileEdgeRespUnpack),
  MAKE_FILE_TRANSIENT |-> Pair(MakeFileTransientReq, MakeFileTransientReqPack, MakeFileTransientReqUnpack, MakeFileTransientResp, MakeFileTransientRespPack, MakeFileTransientRespUnpack)]
MkCDCMessage == [
  MAKE_DIRECTORY |-> Pair(MakeDirectoryReq, MakeDirectoryReqPack, MakeDirectoryReqUnpack, MakeDirectoryResp, MakeDirectoryRespPack, MakeDirectoryRespUnpack),
  RENAME_FILE |-> Pair(RenameFileReq, RenameFileReqPack, RenameFileReqUnpack, RenameFileResp, RenameFileRespPack, RenameFileRespUnpack),
  SOFT_UNLINK_DIRECTORY |-> Pair(SoftUnlinkDirectoryReq, SoftUnlinkDirectoryReqPack, SoftUnlinkDirectoryReqUnpack, SoftUnlinkDirectoryResp, SoftUnlinkDirectoryRespPack, SoftUnlinkDirectoryRespUnpack),
  RENAME_DIRECTORY |-> Pair(RenameDirectoryReq, RenameDirectoryReqPack, RenameDirectoryReqUnpack, RenameDirectoryResp, RenameDirectoryRespPack, RenameDirectoryRespUnpack),
  CROSS_SHARD_HARD_UNLINK_FILE |-> Pair(CrossShardHardUnlinkFileReq, CrossShardHardUnlinkFileReqPack, CrossShardHardUnlinkFileReqUnpack, CrossShardHardUnlinkFileResp, CrossShardHardUnlinkFileRespPack, CrossShardHardUnlinkFileRespUnpack),
  HARD_UNLINK_DIRECTORY |-> Pair(HardUnlinkDirectoryReq, HardUnlinkDirectoryReqPack, HardUnlinkDirectoryReqUnpack, HardUnlinkDirectoryResp, HardUnlinkDirectoryRespPack, HardUnlinkDirectoryRespUnpack),
  CDC_SNAPSHOT |-> Pair(CdcSnapshotReq, CdcSnapshotReqPack, CdcSnapshotReqUnpack, CdcSnapshotResp, CdcSnapshotRespPack, CdcSnapshotRespUnpack)]
MkRegistryMessage == [
  LOCAL_SHARDS |-> Pair(LocalShardsReq, LocalShardsReqPack, LocalShardsReqUnpack, LocalShardsResp, LocalShardsRespPack, LocalShardsRespUnpack),
  LOCAL_CDC |-> Pair(LocalCdcReq, LocalCdcReqPack, LocalCdcReqUnpack, LocalCdcResp, LocalCdcRespPack, LocalCdcRespUnpack),
  INFO |-> Pair(InfoReq, InfoReqPack, InfoReqUnpack, InfoResp, InfoRespPack, InfoRespUnpack),
  REGISTRY |-> Pair(RegistryReq, RegistryReqPack, RegistryReqUnpack, RegistryResp, RegistryRespPack, RegistryRespUnpack),
  LOCAL_CHANGED_BLOCK_SERVICES |-> Pair(LocalChangedBlockServicesReq, LocalChangedBlockServicesReqPack, LocalChangedBlockServicesReqUnpack, LocalChangedBlockServicesResp, LocalChangedBlockServicesRespPack, LocalChangedBlockServicesRespUnpack),
  CREATE_LOCATION |-> Pair(CreateLocationReq, CreateLocationReqPack, CreateLocationReqUnpack, CreateLocationResp, CreateLocationRespPack, CreateLocationRespUnpack),
  RENAME_LOCATION |-> Pair(RenameLocationReq, RenameLocationReqPack, RenameLocationReqUnpack, RenameLocationResp, RenameLocationRespPack, RenameLocationRespUnpack),
  REGISTER_SHARD |-> Pair(RegisterShardReq, RegisterShardReqPack, RegisterShardReqUnpack, RegisterShardResp, RegisterShardRespPack, RegisterShardRespUnpack),
  LOCATIONS |-> Pair(LocationsReq, LocationsReqPack, LocationsReqUnpack, LocationsResp, LocationsRespPack, LocationsRespUnpack),
  REGISTER_CDC |-> Pair(RegisterCdcReq, RegisterCdcReqPack, RegisterCdcReqUnpack, RegisterCdcResp, RegisterCdcRespPack, RegisterCdcRespUnpack),
  SET_BLOCK_SERVICE_FLAGS |-> Pair(SetBlockServiceFlagsReq, SetBlockServiceFlagsReqPack, SetBlockServiceFlagsReqUnpack, SetBlockServiceFlagsResp, SetBlockServiceFlagsRespPack, SetBlockServiceFlagsRespUnpack),
  REGISTER_BLOCK_SERVICES |-> Pair(RegisterBlockServicesReq, RegisterBlockServicesReqPack, RegisterBlockServicesReqUnpack, RegisterBlockServicesResp, RegisterBlockServicesRespPack, RegisterBlockServicesRespUnpack),
  CHANGED_BLOCK_SERVICES_AT_LOCATION |-> Pair(ChangedBlockServicesAtLocationReq, ChangedBlockServicesAtLocationReqPack, ChangedBlockServicesAtLocationReqUnpack, ChangedBlockServicesAtLocationResp, ChangedBlockServicesAtLocationRespPack, ChangedBlockServicesAtLocationRespUnpack),
  SHARDS_AT_LOCATION |-> Pair(ShardsAtLocationReq, ShardsAtLocationReqPack, ShardsAtLocationReqUnpack, ShardsAtLocationResp, ShardsAtLocationRespPack, ShardsAtLocationRespUnpack),
  CDC_AT_LOCATION |-> Pair(CdcAtLocationReq, CdcAtLocationReqPack, CdcAtLocationReqUnpack, CdcAtLocationResp, CdcAtLocationRespPack, CdcAtLocationRespUnpack),
  REGISTER_REGISTRY |-> Pair(RegisterRegistryReq, RegisterRegistryReqPack, RegisterRegistryReqUnpack, RegisterRegistryResp, RegisterRegistryRespPack, RegisterRegistryRespUnpack),
  ALL_REGISTRY_REPLICAS_DE_PR_EC_AT_ED |-> Pair(AllRegistryReplicasDEPRECATEDReq, AllRegistryReplicasDEPRECATEDReqPack, AllRegistryReplicasDEPRECATEDReqUnpack, AllRegistryReplicasDEPRECATEDResp, AllRegistryReplicasDEPRECATEDRespPack, AllRegistryReplicasDEPRECATEDRespUnpack),
  SHARD_BLOCK_SERVICES_DE_PR_EC_AT_ED |-> Pair(ShardBlockServicesDEPRECATEDReq, ShardBlockServicesDEPRECATEDReqPack, ShardBlockServicesDEPRECATEDReqUnpack, ShardBlockServicesDEPRECATEDResp, ShardBlockServicesDEPRECATEDRespPack, ShardBlockServicesDEPRECATEDRespUnpack),
  CDC_REPLICAS_DE_PR_EC_AT_ED |-> Pair(CdcReplicasDEPRECATEDReq, CdcReplicasDEPRECATEDReqPack, CdcReplicasDEPRECATEDReqUnpack, CdcReplicasDEPRECATEDResp, CdcReplicasDEPRECATEDRespPack, CdcReplicasDEPRECATEDRespUnpack),
  ALL_SHARDS_DE_PR_EC_AT_ED |-> Pair(AllShardsDEPRECATEDReq, AllShardsDEPRECATEDReqPack, AllShardsDEPRECATEDReqUnpack, AllShardsDEPRECATEDResp, AllShardsDEPRECATEDRespPack, AllShardsDEPRECATEDRespUnpack),
  DECOMMISSION_BLOCK_SERVICE |-> Pair(DecommissionBlockServiceReq, DecommissionBlockServiceReqPack, DecommissionBlockServiceReqUnpack, DecommissionBlockServiceResp, DecommissionBlockServiceRespPack, DecommissionBlockServiceRespUnpack),
  MOVE_SHARD_LEADER |-> Pair(MoveShardLeaderReq, MoveShardLeaderReqPack, MoveShardLeaderReqUnpack, MoveShardLeaderResp, MoveShardLeaderRespPack, MoveShardLeaderRespUnpack),
  CLEAR_SHARD_INFO |-> Pair(ClearShardInfoReq, ClearShardInfoReqPack, ClearShardInfoReqUnpack, ClearShardInfoResp, ClearShardInfoRespPack, ClearShardInfoRespUnpack),
  SHARD_BLOCK_SERVICES |-> Pair(ShardBlockServicesReq, ShardBlockServicesReqPack, ShardBlockServicesReqUnpack, ShardBlockServicesResp, ShardBlockServicesRespPack, ShardBlockServicesRespUnpack),
  ALL_CDC_DE_PR_EC_AT_ED |-> Pair(AllCdcDEPRECATEDReq, AllCdcDEPRECATEDReqPack, AllCdcDEPRECATEDReqUnpack, AllCdcDEPRECATEDResp, AllCdcDEPRECATEDRespPack, AllCdcDEPRECATEDRespUnpack),
  ERASE_DECOMMISSIONED_BLOCK |-> Pair(EraseDecommissionedBlockReq, EraseDecommissionedBlockReqPack, EraseDecommissionedBlockReqUnpack, EraseDecommissionedBlockResp, EraseDecommissionedBlockRespPack, EraseDecommissionedBlockRespUnpack),
  ALL_BLOCK_SERVICES_DEPRECATED |-> Pair(AllBlockServicesDeprecatedReq, AllBlockServicesDeprecatedReqPack, AllBlockServicesDeprecatedReqUnpack, AllBlockServicesDeprecatedResp, AllBlockServicesDeprecatedRespPack, AllBlockServicesDeprecatedRespUnpack),
  ALL_BLOCK_SERVICES |-> Pair(AllBlockServicesReq, AllBlockServicesReqPack, AllBlockServicesReqUnpack, AllBlockServicesResp, AllBlockServicesRespPack, AllBlockServicesRespUnpack),
  MOVE_CDC_LEADER |-> Pair(MoveCdcLeaderReq, MoveCdcLeaderReqPack, MoveCdcLeaderReqUnpack, MoveCdcLeaderResp, MoveCdcLeaderRespPack, MoveCdcLeaderRespUnpack),
  CLEAR_CDC_INFO |-> Pair(ClearCdcInfoReq, ClearCdcInfoReqPack, ClearCdcInfoReqUnpack, ClearCdcInfoResp, ClearCdcInfoRespPack, ClearCdcInfoRespUnpack),
  UPDATE_BLOCK_SERVICE_PATH |-> Pair(UpdateBlockServicePathReq, UpdateBlockServicePathReqPack, UpdateBlockServicePathReqUnpack, UpdateBlockServicePathResp, UpdateBlockServicePathRespPack, UpdateBlockServicePathRespUnpack),
  SET_BLOCK_SERVICE_HAS_FILES |-> Pair(SetBlockServiceHasFilesReq, SetBlockServiceHasFilesReqPack, SetBlockServiceHasFilesReqUnpack, SetBlockServiceHasFilesResp, SetBlockServiceHasFilesRespPack, SetBlockServiceHasFilesRespUnpack),
  BLOCK_SERVICES_NEEDING_MIGRATION_DEPRECATED |-> Pair(BlockServicesNeedingMigrationDeprecatedReq, BlockServicesNeedingMigrationDeprecatedReqPack, BlockServicesNeedingMigrationDeprecatedReqUnpack, BlockServicesNeedingMigrationDeprecatedResp, BlockServicesNeedingMigrationDeprecatedRespPack, BlockServicesNeedingMigrationDeprecatedRespUnpack),
  ALL_REGISTRY_REPLICAS |-> Pair(AllRegistryReplicasReq, AllRegistryReplicasReqPack, AllRegistryReplicasReqUnpack, AllRegistryReplicasResp, AllRegistryReplicasRespPack, AllRegistryReplicasRespUnpack),
  ALL_SHARDS |-> Pair(AllShardsReq, AllShardsReqPack, AllShardsReqUnpack, AllShardsResp, AllShardsRespPack, AllShardsRespUnpack),
  ALL_CDC |-> Pair(AllCdcReq, AllCdcReqPack, AllCdcReqUnpack, AllCdcResp, AllCdcRespPack, AllCdcRespUnpack),
  CHANGED_BLOCK_SERVICES_DEPRECATED |-> Pair(ChangedBlockServicesDeprecatedReq, ChangedBlockServicesDeprecatedReqPack, ChangedBlockServicesDeprecatedReqUnpack, ChangedBlockServicesDeprecatedResp, ChangedBlockServicesDeprecatedRespPack, ChangedBlockServicesDeprecatedRespUnpack),
  BLOCK_SERVICE_AVAILABLE_SPACE_DEPRECATED |-> Pair(BlockServiceAvailableSpaceDeprecatedReq, BlockServiceAvailableSpaceDeprecatedReqPack, BlockServiceAvailableSpaceDeprecatedReqUnpack, BlockServiceAvailableSpaceDeprecatedResp, BlockServiceAvailableSpaceDeprecatedRespPack, BlockServiceAvailableSpaceDeprecatedRespUnpack),
  CHANGED_BLOCK_SERVICES |-> Pair(ChangedBlockServicesReq, ChangedBlockServicesReqPack, ChangedBlockServicesReqUnpack, ChangedBlockServicesResp, ChangedBlockServicesRespPack, ChangedBlockServicesRespUnpack),
  BLOCK_SERVICES_NEEDING_MIGRATION |-> Pair(BlockServicesNeedingMigrationReq, BlockServicesNeedingMigrationReqPack, BlockServicesNeedingMigrationReqUnpack, BlockServicesNeedingMigrationResp, BlockServicesNeedingMigrationRespPack, BlockServicesNeedingMigrationRespUnpack),
  BLOCK_SERVICE_AVAILABLE_SPACE |-> Pair(BlockServiceAvailableSpaceReq, BlockServiceAvailableSpaceReqPack, BlockServiceAvailableSpaceReqUnpack, BlockServiceAvailableSpaceResp, BlockServiceAvailableSpaceRespPack, BlockServiceAvailableSpaceRespUnpack),
  LOCAL_SHARD_REPLICAS |-> Pair(LocalShardReplicasReq, LocalShardReplicasReqPack, LocalShardReplicasReqUnpack, LocalShardReplicasResp, LocalShardReplicasRespPack, LocalShardReplicasRespUnpack)]
MkBlocksMessage == [
  FETCH_BLOCK |-> Pair(FetchBlockReq, FetchBlockReqPack, FetchBlockReqUnpack, FetchBlockResp, FetchBlockRespPack, FetchBlockRespUnpack),
  WRITE_BLOCK |-> Pair(WriteBlockReq, WriteBlockReqPack, WriteBlockReqUnpack, WriteBlockResp, WriteBlockRespPack, WriteBlockRespUnpack),
  FETCH_BLOCK_WITH_CRC |-> Pair(FetchBlockWithCrcReq, FetchBlockWithCrcReqPack, FetchBlockWithCrcReqUnpack, FetchBlockWithCrcResp, FetchBlockWithCrcRespPack, FetchBlockWithCrcRespUnpack),
  ERASE_BLOCK |-> Pair(EraseBlockReq, EraseBlockReqPack, EraseBlockReqUnpack, EraseBlockResp, EraseBlockRespPack, EraseBlockRespUnpack),
  TEST_WRITE |-> Pair(TestWriteReq, TestWriteReqPack, TestWriteReqUnpack, TestWriteResp, TestWriteRespPack, TestWriteRespUnpack),
  CHECK_BLOCK |-> Pair(CheckBlockReq, CheckBlockReqPack, CheckBlockReqUnpack, CheckBlockResp, CheckBlockRespPack, CheckBlockRespUnpack)]
MkLogMessage == [
  LOG_WRITE |-> Pair(LogWriteReq, LogWriteReqPack, LogWriteReqUnpack, LogWriteResp, LogWriteRespPack, LogWriteRespUnpack),
  RELEASE |-> Pair(ReleaseReq, ReleaseReqPack, ReleaseReqUnpack, ReleaseResp, ReleaseRespPack, ReleaseRespUnpack),
  LOG_READ |-> Pair(LogReadReq, LogReadReqPack, LogReadReqUnpack, LogReadResp, LogReadRespPack, LogReadRespUnpack),
  NEW_LEADER |-> Pair(NewLeaderReq, NewLeaderReqPack, NewLeaderReqUnpack, NewLeaderResp, NewLeaderRespPack, NewLeaderRespUnpack),
  NEW_LEADER_CONFIRM |-> Pair(NewLeaderConfirmReq, NewLeaderConfirmReqPack, NewLeaderConfirmReqUnpack, NewLeaderConfirmResp, NewLeaderConfirmRespPack, NewLeaderConfirmRespUnpack),
  LOG_RECOVERY_READ |-> Pair(LogRecoveryReadReq, LogRecoveryReadReqPack, LogRecoveryReadReqUnpack, LogRecoveryReadResp, LogRecoveryReadRespPack, LogRecoveryReadRespUnpack),
  LOG_RECOVERY_WRITE |-> Pair(LogRecoveryWriteReq, LogRecoveryWriteReqPack, LogRecoveryWriteReqUnpack, LogRecoveryWriteResp, LogRecoveryWriteRespPack, LogRecoveryWriteRespUnpack)]
=============================================================================
