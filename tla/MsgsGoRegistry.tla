--------------------------- MODULE MsgsGoRegistry ---------------------------
(***************************************************************************)
(* The first messages of the registry as the Go code holds them (the       *)
(* structs of go/msgs/msgs.go), and the functions that pack and unpack     *)
(* them (go/msgs/msgs_bincode.go). T is the struct; TPack the calls that   *)
(* T.Pack makes, with the kind that T's RequestKind or ResponseKind method *)
(* gives; TUnpack the calls that T.Unpack makes.                           *)
(***************************************************************************)
EXTENDS MsgsGoCDC

(* The structs. *)
ShardInfo == StructOf(<<"Addrs", AddrsInfo, "LastSeen", U64>>)
BlockPolicyEntry == StructOf(<<"StorageClass", StorageClass, "MinSize", U32>>)
SpanPolicyEntry == StructOf(<<"MaxSize", U32, "Parity", U8>>)
StripePolicy == StructOf(<<"TargetStripeSize", U32>>)
FullRegistryInfo == StructOf(<<
  "Id", U8, "LocationId", U8, "IsLeader", Bool, "Addrs", AddrsInfo, "LastSeen", U64>>)
EntryNewBlockInfo == StructOf(<<"BlockServiceId", U64, "Crc", U32>>)
BlockServiceDeprecatedInfo == StructOf(<<
  "Id", U64, "Addrs", AddrsInfo, "StorageClass", StorageClass, "FailureDomain", FailureDomain,
  "SecretKey", Octets(16), "Flags", U8, "CapacityBytes", U64, "AvailableBytes", U64, "Blocks", U64,
  "Path", Text, "LastSeen", U64, "HasFiles", Bool, "FlagsLastChanged", U64>>)
BlockServiceInfoShort == StructOf(<<
  "LocationId", U8, "FailureDomain", FailureDomain, "Id", U64, "StorageClass", StorageClass>>)
SpanPolicy == StructOf(<<"Entries", ListOf(SpanPolicyEntry)>>)
BlockPolicy == StructOf(<<"Entries", ListOf(BlockPolicyEntry)>>)
SnapshotPolicy == StructOf(<<"DeleteAfterTime", U64, "DeleteAfterVersions", U16>>)
FullShardInfo == StructOf(<<
  "Id", ShardReplicaId, "IsLeader", Bool, "Addrs", AddrsInfo, "LastSeen", U64, "LocationId", U8>>)
RegisterBlockServiceInfo == StructOf(<<
  "Id", U64, "LocationId", U8, "Addrs", AddrsInfo, "StorageClass", StorageClass,
  "FailureDomain", FailureDomain, "SecretKey", Octets(16), "Flags", U8, "FlagsMask", U8,
  "CapacityBytes", U64, "AvailableBytes", U64, "Blocks", U64, "Path", Text>>)
FullBlockServiceInfo == StructOf(<<
  "Id", U64, "LocationId", U8, "Addrs", AddrsInfo, "StorageClass", StorageClass,
  "FailureDomain", FailureDomain, "SecretKey", Octets(16), "Flags", U8, "CapacityBytes", U64,
  "AvailableBytes", U64, "Blocks", U64, "FirstSeen", U64, "LastSeen", U64, "LastInfoChange", U64,
  "HasFiles", Bool, "Path", Text>>)
BlockServiceSpace == StructOf(<<"Id", U64, "CapacityBytes", U64, "AvailableBytes", U64, "Blocks", U64>>)
CdcInfo == StructOf(<<
  "ReplicaId", U8, "LocationId", U8, "IsLeader", Bool, "Addrs", AddrsInfo, "LastSeen", U64>>)
LocationInfo == StructOf(<<"Id", U8, "Name", Text>>)
LocalShardsReq == StructOf(<<>>)
LocalShardsResp == StructOf(<<"Shards", ListOf(ShardInfo)>>)
LocalCdcReq == StructOf(<<>>)
LocalCdcResp == StructOf(<<"Addrs", AddrsInfo, "LastSeen", U64>>)
InfoReq == StructOf(<<>>)
InfoResp == StructOf(<<
  "NumBlockServices", U32, "NumFailureDomains", U32, "Capacity", U64, "Available", U64, "Blocks", U64>>)
RegistryReq == StructOf(<<>>)
RegistryResp == StructOf(<<"Addrs", AddrsInfo>>)
LocalChangedBlockServicesReq == StructOf(<<"ChangedSince", U64>>)
LocalChangedBlockServicesResp == StructOf(<<"LastChange", U64, "BlockServices", ListOf(BlockService)>>)
CreateLocationReq == StructOf(<<"Id", U8, "Name", Text>>)
CreateLocationResp == StructOf(<<>>)
RenameLocationReq == StructOf(<<"Id", U8, "Name", Text>>)
RenameLocationResp == StructOf(<<>>)
RegisterShardReq == StructOf(<<"Shrid", ShardReplicaId, "IsLeader", Bool, "Addrs", AddrsInfo, "Location", U8>>)
RegisterShardResp == StructOf(<<>>)
LocationsReq == StructOf(<<>>)
LocationsResp == StructOf(<<"Locations", ListOf(LocationInfo)>>)
RegisterCdcReq == StructOf(<<"Replica", U8, "Location", U8, "IsLeader", Bool, "Addrs", AddrsInfo>>)
RegisterCdcResp == StructOf(<<>>)
SetBlockServiceFlagsReq == StructOf(<<"Id", U64, "Flags", U8, "FlagsMask", U8>>)
SetBlockServiceFlagsResp == StructOf(<<>>)
RegisterBlockServicesReq == StructOf(<<"BlockServices", ListOf(RegisterBlockServiceInfo)>>)
RegisterBlockServicesResp == StructOf(<<>>)
ChangedBlockServicesAtLocationReq == StructOf(<<"LocationId", U8, "ChangedSince", U64>>)
ChangedBlockServicesAtLocationResp == StructOf(<<"LastChange", U64, "BlockServices", ListOf(BlockService)>>)
ShardsAtLocationReq == StructOf(<<"LocationId", U8>>)
ShardsAtLocationResp == StructOf(<<"Shards", ListOf(ShardInfo)>>)
CdcAtLocationReq == StructOf(<<"LocationId", U8>>)
CdcAtLocationResp == StructOf(<<"Addrs", AddrsInfo, "LastSeen", U64>>)
RegisterRegistryReq == StructOf(<<
  "ReplicaId", U8, "Location", U8, "IsLeader", Bool, "Addrs", AddrsInfo, "Bootstrap", Bool>>)
RegisterRegistryResp == StructOf(<<>>)
AllRegistryReplicasDEPRECATEDReq == StructOf(<<>>)
AllRegistryReplicasDEPRECATEDResp == StructOf(<<"Replicas", ListOf(FullRegistryInfo)>>)
ShardBlockServicesDEPRECATEDReq == StructOf(<<"ShardId", U8>>)
ShardBlockServicesDEPRECATEDResp == StructOf(<<"BlockServices", ListOf(U64)>>)
CdcReplicasDEPRECATEDReq == StructOf(<<>>)
CdcReplicasDEPRECATEDResp == StructOf(<<"Replicas", ListOf(AddrsInfo)>>)
AllShardsDEPRECATEDReq == StructOf(<<>>)
AllShardsDEPRECATEDResp == StructOf(<<"Shards", ListOf(FullShardInfo)>>)
DecommissionBlockServiceReq == StructOf(<<"Id", U64>>)
DecommissionBlockServiceResp == StructOf(<<>>)
MoveShardLeaderReq == StructOf(<<"Shrid", ShardReplicaId, "Location", U8>>)
MoveShardLeaderResp == StructOf(<<>>)
ClearShardInfoReq == StructOf(<<"Shrid", ShardReplicaId, "Location", U8>>)
ClearShardInfoResp == StructOf(<<>>)

(* Pack. *)
ShardInfoPack == StepList(<<Nested("Addrs", AddrsInfoPack), Scalar(8, "LastSeen")>>)
BlockPolicyEntryPack == StepList(<<Scalar(1, "StorageClass"), Scalar(4, "MinSize")>>)
SpanPolicyEntryPack == StepList(<<Scalar(4, "MaxSize"), Scalar(1, "Parity")>>)
StripePolicyPack == StepList(<<Scalar(4, "TargetStripeSize")>>)
FullRegistryInfoPack == StepList(<<
  Scalar(1, "Id"), Scalar(1, "LocationId"), Flag("IsLeader"), Nested("Addrs", AddrsInfoPack),
  Scalar(8, "LastSeen")>>)
EntryNewBlockInfoPack == StepList(<<Scalar(8, "BlockServiceId"), Scalar(4, "Crc")>>)
BlockServiceDeprecatedInfoPack == StepList(<<
  Scalar(8, "Id"), Nested("Addrs", AddrsInfoPack), Scalar(1, "StorageClass"),
  Nested("FailureDomain", FailureDomainPack), FixedBytes(16, "SecretKey"), Scalar(1, "Flags"),
  Scalar(8, "CapacityBytes"), Scalar(8, "AvailableBytes"), Scalar(8, "Blocks"), ByteString("Path"),
  Scalar(8, "LastSeen"), Flag("HasFiles"), Scalar(8, "FlagsLastChanged")>>)
BlockServiceInfoShortPack == StepList(<<
  Scalar(1, "LocationId"), Nested("FailureDomain", FailureDomainPack), Scalar(8, "Id"),
  Scalar(1, "StorageClass")>>)
SpanPolicyPack == StepList(<<List(2, "Entries", Nested("", SpanPolicyEntryPack))>>)
BlockPolicyPack == StepList(<<List(2, "Entries", Nested("", BlockPolicyEntryPack))>>)
SnapshotPolicyPack == StepList(<<Scalar(8, "DeleteAfterTime"), Scalar(2, "DeleteAfterVersions")>>)
FullShardInfoPack == StepList(<<
  Scalar(2, "Id"), Flag("IsLeader"), Nested("Addrs", AddrsInfoPack), Scalar(8, "LastSeen"),
  Scalar(1, "LocationId")>>)
RegisterBlockServiceInfoPack == StepList(<<
  Scalar(8, "Id"), Scalar(1, "LocationId"), Nested("Addrs", AddrsInfoPack), Scalar(1, "StorageClass"),
  Nested("FailureDomain", FailureDomainPack), FixedBytes(16, "SecretKey"), Scalar(1, "Flags"),
  Scalar(1, "FlagsMask"), Scalar(8, "CapacityBytes"), Scalar(8, "AvailableBytes"), Scalar(8, "Blocks"),
  ByteString("Path")>>)
FullBlockServiceInfoPack == StepList(<<
  Scalar(8, "Id"), Scalar(1, "LocationId"), Nested("Addrs", AddrsInfoPack), Scalar(1, "StorageClass"),
  Nested("FailureDomain", FailureDomainPack), FixedBytes(16, "SecretKey"), Scalar(1, "Flags"),
  Scalar(8, "CapacityBytes"), Scalar(8, "AvailableBytes"), Scalar(8, "Blocks"), Scalar(8, "FirstSeen"),
  Scalar(8, "LastSeen"), Scalar(8, "LastInfoChange"), Flag("HasFiles"), ByteString("Path")>>)
BlockServiceSpacePack == StepList(<<
  Scalar(8, "Id"), Scalar(8, "CapacityBytes"), Scalar(8, "AvailableBytes"), Scalar(8, "Blocks")>>)
CdcInfoPack == StepList(<<
  Scalar(1, "ReplicaId"), Scalar(1, "LocationId"), Flag("IsLeader"), Nested("Addrs", AddrsInfoPack),
  Scalar(8, "LastSeen")>>)
LocationInfoPack == StepList(<<Scalar(1, "Id"), ByteString("Name")>>)
LocalShardsReqPack == Msg(RegistryMessageKind.LOCAL_SHARDS, <<>>)
LocalShardsRespPack == Msg(RegistryMessageKind.LOCAL_SHARDS, <<List(2, "Shards", Nested("", ShardInfoPack))>>)
LocalCdcReqPack == Msg(RegistryMessageKind.LOCAL_CDC, <<>>)
LocalCdcRespPack == Msg(RegistryMessageKind.LOCAL_CDC, <<Nested("Addrs", AddrsInfoPack), Scalar(8, "LastSeen")>>)
InfoReqPack == Msg(RegistryMessageKind.INFO, <<>>)
InfoRespPack == Msg(RegistryMessageKind.INFO, <<
  Scalar(4, "NumBlockServices"), Scalar(4, "NumFailureDomains"), Scalar(8, "Capacity"),
  Scalar(8, "Available"), Scalar(8, "Blocks")>>)
RegistryReqPack == Msg(RegistryMessageKind.REGISTRY, <<>>)
RegistryRespPack == Msg(RegistryMessageKind.REGISTRY, <<Nested("Addrs", AddrsInfoPack)>>)
LocalChangedBlockServicesReqPack == Msg(RegistryMessageKind.LOCAL_CHANGED_BLOCK_SERVICES, <<
  Scalar(8, "ChangedSince")>>)
LocalChangedBlockServicesRespPack == Msg(RegistryMessageKind.LOCAL_CHANGED_BLOCK_SERVICES, <<
  Scalar(8, "LastChange"), List(2, "BlockServices", Nested("", BlockServicePack))>>)
CreateLocationReqPack == Msg(RegistryMessageKind.CREATE_LOCATION, <<Scalar(1, "Id"), ByteString("Name")>>)
CreateLocationRespPack == Msg(RegistryMessageKind.CREATE_LOCATION, <<>>)
RenameLocationReqPack == Msg(RegistryMessageKind.RENAME_LOCATION, <<Scalar(1, "Id"), ByteString("Name")>>)
RenameLocationRespPack == Msg(RegistryMessageKind.RENAME_LOCATION, <<>>)
RegisterShardReqPack == Msg(RegistryMessageKind.REGISTER_SHARD, <<
  Scalar(2, "Shrid"), Flag("IsLeader"), Nested("Addrs", AddrsInfoPack), Scalar(1, "Location")>>)
RegisterShardRespPack == Msg(RegistryMessageKind.REGISTER_SHARD, <<>>)
LocationsReqPack == Msg(RegistryMessageKind.LOCATIONS, <<>>)
LocationsRespPack == Msg(RegistryMessageKind.LOCATIONS, <<List(2, "Locations", Nested("", LocationInfoPack))>>)
RegisterCdcReqPack == Msg(RegistryMessageKind.REGISTER_CDC, <<
  Scalar(1, "Replica"), Scalar(1, "Location"), Flag("IsLeader"), Nested("Addrs", AddrsInfoPack)>>)
RegisterCdcRespPack == Msg(RegistryMessageKind.REGISTER_CDC, <<>>)
SetBlockServiceFlagsReqPack == Msg(RegistryMessageKind.SET_BLOCK_SERVICE_FLAGS, <<
  Scalar(8, "Id"), Scalar(1, "Flags"), Scalar(1, "FlagsMask")>>)
SetBlockServiceFlagsRespPack == Msg(RegistryMessageKind.SET_BLOCK_SERVICE_FLAGS, <<>>)
RegisterBlockServicesReqPack == Msg(RegistryMessageKind.REGISTER_BLOCK_SERVICES, <<
  List(2, "BlockServices", Nested("", RegisterBlockServiceInfoPack))>>)
RegisterBlockServicesRespPack == Msg(RegistryMessageKind.REGISTER_BLOCK_SERVICES, <<>>)
ChangedBlockServicesAtLocationReqPack == Msg(RegistryMessageKind.CHANGED_BLOCK_SERVICES_AT_LOCATION, <<
  Scalar(1, "LocationId"), Scalar(8, "ChangedSince")>>)
ChangedBlockServicesAtLocationRespPack == Msg(RegistryMessageKind.CHANGED_BLOCK_SERVICES_AT_LOCATION, <<
  Scalar(8, "LastChange"), List(2, "BlockServices", Nested("", BlockServicePack))>>)
ShardsAtLocationReqPack == Msg(RegistryMessageKind.SHARDS_AT_LOCATION, <<Scalar(1, "LocationId")>>)
ShardsAtLocationRespPack == Msg(RegistryMessageKind.SHARDS_AT_LOCATION, <<
  List(2, "Shards", Nested("", ShardInfoPack))>>)
CdcAtLocationReqPack == Msg(RegistryMessageKind.CDC_AT_LOCATION, <<Scalar(1, "LocationId")>>)
CdcAtLocationRespPack == Msg(RegistryMessageKind.CDC_AT_LOCATION, <<
  Nested("Addrs", AddrsInfoPack), Scalar(8, "LastSeen")>>)
RegisterRegistryReqPack == Msg(RegistryMessageKind.REGISTER_REGISTRY, <<
  Scalar(1, "ReplicaId"), Scalar(1, "Location"), Flag("IsLeader"), Nested("Addrs", AddrsInfoPack),
  Flag("Bootstrap")>>)
RegisterRegistryRespPack == Msg(RegistryMessageKind.REGISTER_REGISTRY, <<>>)
AllRegistryReplicasDEPRECATEDReqPack == Msg(RegistryMessageKind.ALL_REGISTRY_REPLICAS_DE_PR_EC_AT_ED, <<>>)
AllRegistryReplicasDEPRECATEDRespPack == Msg(RegistryMessageKind.ALL_REGISTRY_REPLICAS_DE_PR_EC_AT_ED, <<
  List(2, "Replicas", Nested("", FullRegistryInfoPack))>>)
ShardBlockServicesDEPRECATEDReqPack == Msg(RegistryMessageKind.SHARD_BLOCK_SERVICES_DE_PR_EC_AT_ED, <<
  Scalar(1, "ShardId")>>)
ShardBlockServicesDEPRECATEDRespPack == Msg(RegistryMessageKind.SHARD_BLOCK_SERVICES_DE_PR_EC_AT_ED, <<
  List(2, "BlockServices", Scalar(8, ""))>>)
CdcReplicasDEPRECATEDReqPack == Msg(RegistryMessageKind.CDC_REPLICAS_DE_PR_EC_AT_ED, <<>>)
CdcReplicasDEPRECATEDRespPack == Msg(RegistryMessageKind.CDC_REPLICAS_DE_PR_EC_AT_ED, <<
  List(2, "Replicas", Nested("", AddrsInfoPack))>>)
AllShardsDEPRECATEDReqPack == Msg(RegistryMessageKind.ALL_SHARDS_DE_PR_EC_AT_ED, <<>>)
AllShardsDEPRECATEDRespPack == Msg(RegistryMessageKind.ALL_SHARDS_DE_PR_EC_AT_ED, <<
  List(2, "Shards", Nested("", FullShardInfoPack))>>)
DecommissionBlockServiceReqPack == Msg(RegistryMessageKind.DECOMMISSION_BLOCK_SERVICE, <<Scalar(8, "Id")>>)
DecommissionBlockServiceRespPack == Msg(RegistryMessageKind.DECOMMISSION_BLOCK_SERVICE, <<>>)
MoveShardLeaderReqPack == Msg(RegistryMessageKind.MOVE_SHARD_LEADER, <<
  Scalar(2, "Shrid"), Scalar(1, "Location")>>)
MoveShardLeaderRespPack == Msg(RegistryMessageKind.MOVE_SHARD_LEADER, <<>>)
ClearShardInfoReqPack == Msg(RegistryMessageKind.CLEAR_SHARD_INFO, <<
  Scalar(2, "Shrid"), Scalar(1, "Location")>>)
ClearShardInfoRespPack == Msg(RegistryMessageKind.CLEAR_SHARD_INFO, <<>>)

(* Unpack. *)
ShardInfoUnpack == StepList(<<Nested("Addrs", AddrsInfoUnpack), Scalar(8, "LastSeen")>>)
BlockPolicyEntryUnpack == StepList(<<Scalar(1, "StorageClass"), Scalar(4, "MinSize")>>)
SpanPolicyEntryUnpack == StepList(<<Scalar(4, "MaxSize"), Scalar(1, "Parity")>>)
StripePolicyUnpack == StepList(<<Scalar(4, "TargetStripeSize")>>)
FullRegistryInfoUnpack == StepList(<<
  Scalar(1, "Id"), Scalar(1, "LocationId"), Flag("IsLeader"), Nested("Addrs", AddrsInfoUnpack),
  Scalar(8, "LastSeen")>>)
EntryNewBlockInfoUnpack == StepList(<<Scalar(8, "BlockServiceId"), Scalar(4, "Crc")>>)
BlockServiceDeprecatedInfoUnpack == StepList(<<
  Scalar(8, "Id"), Nested("Addrs", AddrsInfoUnpack), Scalar(1, "StorageClass"),
  Nested("FailureDomain", FailureDomainUnpack), FixedBytes(16, "SecretKey"), Scalar(1, "Flags"),
  Scalar(8, "CapacityBytes"), Scalar(8, "AvailableBytes"), Scalar(8, "Blocks"), ByteString("Path"),
  Scalar(8, "LastSeen"), Flag("HasFiles"), Scalar(8, "FlagsLastChanged")>>)
BlockServiceInfoShortUnpack == StepList(<<
  Scalar(1, "LocationId"), Nested("FailureDomain", FailureDomainUnpack), Scalar(8, "Id"),
  Scalar(1, "StorageClass")>>)
SpanPolicyUnpack == StepList(<<List(2, "Entries", Nested("", SpanPolicyEntryUnpack))>>)
BlockPolicyUnpack == StepList(<<List(2, "Entries", Nested("", BlockPolicyEntryUnpack))>>)
SnapshotPolicyUnpack == StepList(<<Scalar(8, "DeleteAfterTime"), Scalar(2, "DeleteAfterVersions")>>)
FullShardInfoUnpack == StepList(<<
  Scalar(2, "Id"), Flag("IsLeader"), Nested("Addrs", AddrsInfoUnpack), Scalar(8, "LastSeen"),
  Scalar(1, "LocationId")>>)
RegisterBlockServiceInfoUnpack == StepList(<<
  Scalar(8, "Id"), Scalar(1, "LocationId"), Nested("Addrs", AddrsInfoUnpack), Scalar(1, "StorageClass"),
  Nested("FailureDomain", FailureDomainUnpack), FixedBytes(16, "SecretKey"), Scalar(1, "Flags"),
  Scalar(1, "FlagsMask"), Scalar(8, "CapacityBytes"), Scalar(8, "AvailableBytes"), Scalar(8, "Blocks"),
  ByteString("Path")>>)
FullBlockServiceInfoUnpack == StepList(<<
  Scalar(8, "Id"), Scalar(1, "LocationId"), Nested("Addrs", AddrsInfoUnpack), Scalar(1, "StorageClass"),
  Nested("FailureDomain", FailureDomainUnpack), FixedBytes(16, "SecretKey"), Scalar(1, "Flags"),
  Scalar(8, "CapacityBytes"), Scalar(8, "AvailableBytes"), Scalar(8, "Blocks"), Scalar(8, "FirstSeen"),
  Scalar(8, "LastSeen"), Scalar(8, "LastInfoChange"), Flag("HasFiles"), ByteString("Path")>>)
BlockServiceSpaceUnpack == StepList(<<
  Scalar(8, "Id"), Scalar(8, "CapacityBytes"), Scalar(8, "AvailableBytes"), Scalar(8, "Blocks")>>)
CdcInfoUnpack == StepList(<<
  Scalar(1, "ReplicaId"), Scalar(1, "LocationId"), Flag("IsLeader"), Nested("Addrs", AddrsInfoUnpack),
  Scalar(8, "LastSeen")>>)
LocationInfoUnpack == StepList(<<Scalar(1, "Id"), ByteString("Name")>>)
LocalShardsReqUnpack == StepList(<<>>)
LocalShardsRespUnpack == StepList(<<List(2, "Shards", Nested("", ShardInfoUnpack))>>)
LocalCdcReqUnpack == StepList(<<>>)
LocalCdcRespUnpack == StepList(<<Nested("Addrs", AddrsInfoUnpack), Scalar(8, "LastSeen")>>)
InfoReqUnpack == StepList(<<>>)
InfoRespUnpack == StepList(<<
  Scalar(4, "NumBlockServices"), Scalar(4, "NumFailureDomains"), Scalar(8, "Capacity"),
  Scalar(8, "Available"), Scalar(8, "Blocks")>>)
RegistryReqUnpack == StepList(<<>>)
RegistryRespUnpack == StepList(<<Nested("Addrs", AddrsInfoUnpack)>>)
LocalChangedBlockServicesReqUnpack == StepList(<<Scalar(8, "ChangedSince")>>)
LocalChangedBlockServicesRespUnpack == StepList(<<
  Scalar(8, "LastChange"), List(2, "BlockServices", Nested("", BlockServiceUnpack))>>)
CreateLocationReqUnpack == StepList(<<Scalar(1, "Id"), ByteString("Name")>>)
CreateLocationRespUnpack == StepList(<<>>)
RenameLocationReqUnpack == StepList(<<Scalar(1, "Id"), ByteString("Name")>>)
RenameLocationRespUnpack == StepList(<<>>)
RegisterShardReqUnpack == StepList(<<
  Scalar(2, "Shrid"), Flag("IsLeader"), Nested("Addrs", AddrsInfoUnpack), Scalar(1, "Location")>>)
RegisterShardRespUnpack == StepList(<<>>)
LocationsReqUnpack == StepList(<<>>)
LocationsRespUnpack == StepList(<<List(2, "Locations", Nested("", LocationInfoUnpack))>>)
RegisterCdcReqUnpack == StepList(<<
  Scalar(1, "Replica"), Scalar(1, "Location"), Flag("IsLeader"), Nested("Addrs", AddrsInfoUnpack)>>)
RegisterCdcRespUnpack == StepList(<<>>)
SetBlockServiceFlagsReqUnpack == StepList(<<Scalar(8, "Id"), Scalar(1, "Flags"), Scalar(1, "FlagsMask")>>)
SetBlockServiceFlagsRespUnpack == StepList(<<>>)
RegisterBlockServicesReqUnpack == StepList(<<List(2, "BlockServices", Nested("", RegisterBlockServiceInfoUnpack))>>)
RegisterBlockServicesRespUnpack == StepList(<<>>)
ChangedBlockServicesAtLocationReqUnpack == StepList(<<Scalar(1, "LocationId"), Scalar(8, "ChangedSince")>>)
ChangedBlockServicesAtLocationRespUnpack == StepList(<<
  Scalar(8, "LastChange"), List(2, "BlockServices", Nested("", BlockServiceUnpack))>>)
ShardsAtLocationReqUnpack == StepList(<<Scalar(1, "LocationId")>>)
ShardsAtLocationRespUnpack == StepList(<<List(2, "Shards", Nested("", ShardInfoUnpack))>>)
CdcAtLocationReqUnpack == StepList(<<Scalar(1, "LocationId")>>)
CdcAtLocationRespUnpack == StepList(<<Nested("Addrs", AddrsInfoUnpack), Scalar(8, "LastSeen")>>)
RegisterRegistryReqUnpack == StepList(<<
  Scalar(1, "ReplicaId"), Scalar(1, "Location"), Flag("IsLeader"), Nested("Addrs", AddrsInfoUnpack),
  Flag("Bootstrap")>>)
RegisterRegistryRespUnpack == StepList(<<>>)
AllRegistryReplicasDEPRECATEDReqUnpack == StepList(<<>>)
AllRegistryReplicasDEPRECATEDRespUnpack == StepList(<<List(2, "Replicas", Nested("", FullRegistryInfoUnpack))>>)
ShardBlockServicesDEPRECATEDReqUnpack == StepList(<<Scalar(1, "ShardId")>>)
ShardBlockServicesDEPRECATEDRespUnpack == StepList(<<List(2, "BlockServices", Scalar(8, ""))>>)
CdcReplicasDEPRECATEDReqUnpack == StepList(<<>>)
CdcReplicasDEPRECATEDRespUnpack == StepList(<<List(2, "Replicas", Nested("", AddrsInfoUnpack))>>)
AllShardsDEPRECATEDReqUnpack == StepList(<<>>)
AllShardsDEPRECATEDRespUnpack == StepList(<<List(2, "Shards", Nested("", FullShardInfoUnpack))>>)
DecommissionBlockServiceReqUnpack == StepList(<<Scalar(8, "Id")>>)
DecommissionBlockServiceRespUnpack == StepList(<<>>)
MoveShardLeaderReqUnpack == StepList(<<Scalar(2, "Shrid"), Scalar(1, "Location")>>)
MoveShardLeaderRespUnpack == StepList(<<>>)
ClearShardInfoReqUnpack == StepList(<<Scalar(2, "Shrid"), Scalar(1, "Location")>>)
ClearShardInfoRespUnpack == StepList(<<>>)
=============================================================================
