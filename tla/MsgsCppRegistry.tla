-------------------------- MODULE MsgsCppRegistry ---------------------------
(***************************************************************************)
(* The shard's messages that the CDC sends, the CDC's, and the first of    *)
(* the registry's in the C++ code (cpp/core/MsgsGen.cpp, MsgsGen.hpp and   *)
(* Msgs.hpp): T_pack and T_unpack are the calls that T::pack and T::unpack *)
(* make. A field has the name that operator<< prints for it, which is that *)
(* of the Go one.                                                          *)
(***************************************************************************)
EXTENDS MsgsCppShard

(* pack. *)
CreateDirectoryInodeReq_pack == StepList(<<
  Checked("InodeId", 8, "Id"), Checked("InodeId", 8, "OwnerId"), Nested("Info", DirectoryInfo_pack)>>)
CreateDirectoryInodeResp_pack == StepList(<<Scalar(8, "Mtime")>>)
SetDirectoryOwnerReq_pack == StepList(<<Checked("InodeId", 8, "DirId"), Checked("InodeId", 8, "OwnerId")>>)
SetDirectoryOwnerResp_pack == StepList(<<>>)
RemoveDirectoryOwnerReq_pack == StepList(<<Checked("InodeId", 8, "DirId"), Nested("Info", DirectoryInfo_pack)>>)
RemoveDirectoryOwnerResp_pack == StepList(<<>>)
CreateLockedCurrentEdgeReq_pack == StepList(<<
  Checked("InodeId", 8, "DirId"), ByteString("Name"), Checked("InodeId", 8, "TargetId"),
  Scalar(8, "OldCreationTime")>>)
CreateLockedCurrentEdgeResp_pack == StepList(<<Scalar(8, "CreationTime")>>)
LockCurrentEdgeReq_pack == StepList(<<
  Checked("InodeId", 8, "DirId"), Checked("InodeId", 8, "TargetId"), Scalar(8, "CreationTime"),
  ByteString("Name")>>)
LockCurrentEdgeResp_pack == StepList(<<>>)
UnlockCurrentEdgeReq_pack == StepList(<<
  Checked("InodeId", 8, "DirId"), ByteString("Name"), Scalar(8, "CreationTime"),
  Checked("InodeId", 8, "TargetId"), Flag("WasMoved")>>)
UnlockCurrentEdgeResp_pack == StepList(<<>>)
RemoveOwnedSnapshotFileEdgeReq_pack == StepList(<<
  Checked("InodeId", 8, "OwnerId"), Checked("InodeId", 8, "TargetId"), ByteString("Name"),
  Scalar(8, "CreationTime")>>)
RemoveOwnedSnapshotFileEdgeResp_pack == StepList(<<>>)
MakeFileTransientReq_pack == StepList(<<Checked("InodeId", 8, "Id"), ByteString("Note")>>)
MakeFileTransientResp_pack == StepList(<<>>)
MakeDirectoryReq_pack == StepList(<<Checked("InodeId", 8, "OwnerId"), ByteString("Name")>>)
MakeDirectoryResp_pack == StepList(<<Checked("InodeId", 8, "Id"), Scalar(8, "CreationTime")>>)
RenameFileReq_pack == StepList(<<
  Checked("InodeId", 8, "TargetId"), Checked("InodeId", 8, "OldOwnerId"), ByteString("OldName"),
  Scalar(8, "OldCreationTime"), Checked("InodeId", 8, "NewOwnerId"), ByteString("NewName")>>)
RenameFileResp_pack == StepList(<<Scalar(8, "CreationTime")>>)
SoftUnlinkDirectoryReq_pack == StepList(<<
  Checked("InodeId", 8, "OwnerId"), Checked("InodeId", 8, "TargetId"), Scalar(8, "CreationTime"),
  ByteString("Name")>>)
SoftUnlinkDirectoryResp_pack == StepList(<<>>)
RenameDirectoryReq_pack == StepList(<<
  Checked("InodeId", 8, "TargetId"), Checked("InodeId", 8, "OldOwnerId"), ByteString("OldName"),
  Scalar(8, "OldCreationTime"), Checked("InodeId", 8, "NewOwnerId"), ByteString("NewName")>>)
RenameDirectoryResp_pack == StepList(<<Scalar(8, "CreationTime")>>)
CrossShardHardUnlinkFileReq_pack == StepList(<<
  Checked("InodeId", 8, "OwnerId"), Checked("InodeId", 8, "TargetId"), ByteString("Name"),
  Scalar(8, "CreationTime")>>)
CrossShardHardUnlinkFileResp_pack == StepList(<<>>)
HardUnlinkDirectoryReq_pack == StepList(<<Checked("InodeId", 8, "DirId")>>)
HardUnlinkDirectoryResp_pack == StepList(<<>>)
CdcSnapshotReq_pack == StepList(<<Scalar(8, "SnapshotId")>>)
CdcSnapshotResp_pack == StepList(<<>>)
ShardInfo_pack == StepList(<<Nested("Addrs", AddrsInfo_pack), Scalar(8, "LastSeen")>>)
BlockPolicyEntry_pack == StepList(<<Scalar(1, "StorageClass"), Scalar(4, "MinSize")>>)
SpanPolicyEntry_pack == StepList(<<Scalar(4, "MaxSize"), Scalar(1, "Parity")>>)
StripePolicy_pack == StepList(<<Scalar(4, "TargetStripeSize")>>)
FullRegistryInfo_pack == StepList(<<
  Scalar(1, "Id"), Scalar(1, "LocationId"), Flag("IsLeader"), Nested("Addrs", AddrsInfo_pack),
  Scalar(8, "LastSeen")>>)
EntryNewBlockInfo_pack == StepList(<<Scalar(8, "BlockServiceId"), Scalar(4, "Crc")>>)
BlockServiceDeprecatedInfo_pack == StepList(<<
  Scalar(8, "Id"), Nested("Addrs", AddrsInfo_pack), Scalar(1, "StorageClass"),
  Nested("FailureDomain", FailureDomain_pack), FixedBytes(16, "SecretKey"), Scalar(1, "Flags"),
  Scalar(8, "CapacityBytes"), Scalar(8, "AvailableBytes"), Scalar(8, "Blocks"), ByteString("Path"),
  Scalar(8, "LastSeen"), Flag("HasFiles"), Scalar(8, "FlagsLastChanged")>>)
BlockServiceInfoShort_pack == StepList(<<
  Scalar(1, "LocationId"), Nested("FailureDomain", FailureDomain_pack), Scalar(8, "Id"),
  Scalar(1, "StorageClass")>>)
SpanPolicy_pack == StepList(<<List(2, "Entries", Nested("", SpanPolicyEntry_pack))>>)
BlockPolicy_pack == StepList(<<List(2, "Entries", Nested("", BlockPolicyEntry_pack))>>)
SnapshotPolicy_pack == StepList(<<Scalar(8, "DeleteAfterTime"), Scalar(2, "DeleteAfterVersions")>>)
FullShardInfo_pack == StepList(<<
  Checked("ShardReplicaId", 2, "Id"), Flag("IsLeader"), Nested("Addrs", AddrsInfo_pack), Scalar(8, "LastSeen"),
  Scalar(1, "LocationId")>>)
RegisterBlockServiceInfo_pack == StepList(<<
  Scalar(8, "Id"), Scalar(1, "LocationId"), Nested("Addrs", AddrsInfo_pack), Scalar(1, "StorageClass"),
  Nested("FailureDomain", FailureDomain_pack), FixedBytes(16, "SecretKey"), Scalar(1, "Flags"),
  Scalar(1, "FlagsMask"), Scalar(8, "CapacityBytes"), Scalar(8, "AvailableBytes"), Scalar(8, "Blocks"),
  ByteString("Path")>>)
FullBlockServiceInfo_pack == StepList(<<
  Scalar(8, "Id"), Scalar(1, "LocationId"), Nested("Addrs", AddrsInfo_pack), Scalar(1, "StorageClass"),
  Nested("FailureDomain", FailureDomain_pack), FixedBytes(16, "SecretKey"), Scalar(1, "Flags"),
  Scalar(8, "CapacityBytes"), Scalar(8, "AvailableBytes"), Scalar(8, "Blocks"), Scalar(8, "FirstSeen"),
  Scalar(8, "LastSeen"), Scalar(8, "LastInfoChange"), Flag("HasFiles"), ByteString("Path")>>)
BlockServiceSpace_pack == StepList(<<
  Scalar(8, "Id"), Scalar(8, "CapacityBytes"), Scalar(8, "AvailableBytes"), Scalar(8, "Blocks")>>)
CdcInfo_pack == StepList(<<
  Scalar(1, "ReplicaId"), Scalar(1, "LocationId"), Flag("IsLeader"), Nested("Addrs", AddrsInfo_pack),
  Scalar(8, "LastSeen")>>)
LocationInfo_pack == StepList(<<Scalar(1, "Id"), ByteString("Name")>>)
LocalShardsReq_pack == StepList(<<>>)
LocalShardsResp_pack == StepList(<<List(2, "Shards", Nested("", ShardInfo_pack))>>)
LocalCdcReq_pack == StepList(<<>>)
LocalCdcResp_pack == StepList(<<Nested("Addrs", AddrsInfo_pack), Scalar(8, "LastSeen")>>)
InfoReq_pack == StepList(<<>>)
InfoResp_pack == StepList(<<
  Scalar(4, "NumBlockServices"), Scalar(4, "NumFailureDomains"), Scalar(8, "Capacity"),
  Scalar(8, "Available"), Scalar(8, "Blocks")>>)
RegistryReq_pack == StepList(<<>>)
RegistryResp_pack == StepList(<<Nested("Addrs", AddrsInfo_pack)>>)
LocalChangedBlockServicesReq_pack == StepList(<<Scalar(8, "ChangedSince")>>)
LocalChangedBlockServicesResp_pack == StepList(<<
  Scalar(8, "LastChange"), List(2, "BlockServices", Nested("", BlockService_pack))>>)
CreateLocationReq_pack == StepList(<<Scalar(1, "Id"), ByteString("Name")>>)
CreateLocationResp_pack == StepList(<<>>)
RenameLocationReq_pack == StepList(<<Scalar(1, "Id"), ByteString("Name")>>)
RenameLocationResp_pack == StepList(<<>>)
RegisterShardReq_pack == StepList(<<
  Checked("ShardReplicaId", 2, "Shrid"), Flag("IsLeader"), Nested("Addrs", AddrsInfo_pack),
  Scalar(1, "Location")>>)
RegisterShardResp_pack == StepList(<<>>)
LocationsReq_pack == StepList(<<>>)
LocationsResp_pack == StepList(<<List(2, "Locations", Nested("", LocationInfo_pack))>>)
RegisterCdcReq_pack == StepList(<<
  Scalar(1, "Replica"), Scalar(1, "Location"), Flag("IsLeader"), Nested("Addrs", AddrsInfo_pack)>>)
RegisterCdcResp_pack == StepList(<<>>)
SetBlockServiceFlagsReq_pack == StepList(<<Scalar(8, "Id"), Scalar(1, "Flags"), Scalar(1, "FlagsMask")>>)
SetBlockServiceFlagsResp_pack == StepList(<<>>)
RegisterBlockServicesReq_pack == StepList(<<List(2, "BlockServices", Nested("", RegisterBlockServiceInfo_pack))>>)
RegisterBlockServicesResp_pack == StepList(<<>>)
ChangedBlockServicesAtLocationReq_pack == StepList(<<Scalar(1, "LocationId"), Scalar(8, "ChangedSince")>>)
ChangedBlockServicesAtLocationResp_pack == StepList(<<
  Scalar(8, "LastChange"), List(2, "BlockServices", Nested("", BlockService_pack))>>)
ShardsAtLocationReq_pack == StepList(<<Scalar(1, "LocationId")>>)
ShardsAtLocationResp_pack == StepList(<<List(2, "Shards", Nested("", ShardInfo_pack))>>)
CdcAtLocationReq_pack == StepList(<<Scalar(1, "LocationId")>>)
CdcAtLocationResp_pack == StepList(<<Nested("Addrs", AddrsInfo_pack), Scalar(8, "LastSeen")>>)
RegisterRegistryReq_pack == StepList(<<
  Scalar(1, "ReplicaId"), Scalar(1, "Location"), Flag("IsLeader"), Nested("Addrs", AddrsInfo_pack),
  Flag("Bootstrap")>>)
RegisterRegistryResp_pack == StepList(<<>>)
AllRegistryReplicasDEPRECATEDReq_pack == StepList(<<>>)
AllRegistryReplicasDEPRECATEDResp_pack == StepList(<<List(2, "Replicas", Nested("", FullRegistryInfo_pack))>>)
ShardBlockServicesDEPRECATEDReq_pack == StepList(<<Scalar(1, "ShardId")>>)
ShardBlockServicesDEPRECATEDResp_pack == StepList(<<List(2, "BlockServices", Scalar(8, ""))>>)
CdcReplicasDEPRECATEDReq_pack == StepList(<<>>)
CdcReplicasDEPRECATEDResp_pack == StepList(<<List(2, "Replicas", Nested("", AddrsInfo_pack))>>)
AllShardsDEPRECATEDReq_pack == StepList(<<>>)
AllShardsDEPRECATEDResp_pack == StepList(<<List(2, "Shards", Nested("", FullShardInfo_pack))>>)
DecommissionBlockServiceReq_pack == StepList(<<Scalar(8, "Id")>>)
DecommissionBlockServiceResp_pack == StepList(<<>>)
MoveShardLeaderReq_pack == StepList(<<Checked("ShardReplicaId", 2, "Shrid"), Scalar(1, "Location")>>)
MoveShardLeaderResp_pack == StepList(<<>>)
ClearShardInfoReq_pack == StepList(<<Checked("ShardReplicaId", 2, "Shrid"), Scalar(1, "Location")>>)
ClearShardInfoResp_pack == StepList(<<>>)

(* unpack. *)
CreateDirectoryInodeReq_unpack == StepList(<<
  Checked("InodeId", 8, "Id"), Checked("InodeId", 8, "OwnerId"), Nested("Info", DirectoryInfo_unpack)>>)
CreateDirectoryInodeResp_unpack == StepList(<<Scalar(8, "Mtime")>>)
SetDirectoryOwnerReq_unpack == StepList(<<Checked("InodeId", 8, "DirId"), Checked("InodeId", 8, "OwnerId")>>)
SetDirectoryOwnerResp_unpack == StepList(<<>>)
RemoveDirectoryOwnerReq_unpack == StepList(<<Checked("InodeId", 8, "DirId"), Nested("Info", DirectoryInfo_unpack)>>)
RemoveDirectoryOwnerResp_unpack == StepList(<<>>)
CreateLockedCurrentEdgeReq_unpack == StepList(<<
  Checked("InodeId", 8, "DirId"), ByteString("Name"), Checked("InodeId", 8, "TargetId"),
  Scalar(8, "OldCreationTime")>>)
CreateLockedCurrentEdgeResp_unpack == StepList(<<Scalar(8, "CreationTime")>>)
LockCurrentEdgeReq_unpack == StepList(<<
  Checked("InodeId", 8, "DirId"), Checked("InodeId", 8, "TargetId"), Scalar(8, "CreationTime"),
  ByteString("Name")>>)
LockCurrentEdgeResp_unpack == StepList(<<>>)
UnlockCurrentEdgeReq_unpack == StepList(<<
  Checked("InodeId", 8, "DirId"), ByteString("Name"), Scalar(8, "CreationTime"),
  Checked("InodeId", 8, "TargetId"), Flag("WasMoved")>>)
UnlockCurrentEdgeResp_unpack == StepList(<<>>)
RemoveOwnedSnapshotFileEdgeReq_unpack == StepList(<<
  Checked("InodeId", 8, "OwnerId"), Checked("InodeId", 8, "TargetId"), ByteString("Name"),
  Scalar(8, "CreationTime")>>)
RemoveOwnedSnapshotFileEdgeResp_unpack == StepList(<<>>)
MakeFileTransientReq_unpack == StepList(<<Checked("InodeId", 8, "Id"), ByteString("Note")>>)
MakeFileTransientResp_unpack == StepList(<<>>)
MakeDirectoryReq_unpack == StepList(<<Checked("InodeId", 8, "OwnerId"), ByteString("Name")>>)
MakeDirectoryResp_unpack == StepList(<<Checked("InodeId", 8, "Id"), Scalar(8, "CreationTime")>>)
RenameFileReq_unpack == StepList(<<
  Checked("InodeId", 8, "TargetId"), Checked("InodeId", 8, "OldOwnerId"), ByteString("OldName"),
  Scalar(8, "OldCreationTime"), Checked("InodeId", 8, "NewOwnerId"), ByteString("NewName")>>)
RenameFileResp_unpack == StepList(<<Scalar(8, "CreationTime")>>)
SoftUnlinkDirectoryReq_unpack == StepList(<<
  Checked("InodeId", 8, "OwnerId"), Checked("InodeId", 8, "TargetId"), Scalar(8, "CreationTime"),
  ByteString("Name")>>)
SoftUnlinkDirectoryResp_unpack == StepList(<<>>)
RenameDirectoryReq_unpack == StepList(<<
  Checked("InodeId", 8, "TargetId"), Checked("InodeId", 8, "OldOwnerId"), ByteString("OldName"),
  Scalar(8, "OldCreationTime"), Checked("InodeId", 8, "NewOwnerId"), ByteString("NewName")>>)
RenameDirectoryResp_unpack == StepList(<<Scalar(8, "CreationTime")>>)
CrossShardHardUnlinkFileReq_unpack == StepList(<<
  Checked("InodeId", 8, "OwnerId"), Checked("InodeId", 8, "TargetId"), ByteString("Name"),
  Scalar(8, "CreationTime")>>)
CrossShardHardUnlinkFileResp_unpack == StepList(<<>>)
HardUnlinkDirectoryReq_unpack == StepList(<<Checked("InodeId", 8, "DirId")>>)
HardUnlinkDirectoryResp_unpack == StepList(<<>>)
CdcSnapshotReq_unpack == StepList(<<Scalar(8, "SnapshotId")>>)
CdcSnapshotResp_unpack == StepList(<<>>)
ShardInfo_unpack == StepList(<<Nested("Addrs", AddrsInfo_unpack), Scalar(8, "LastSeen")>>)
BlockPolicyEntry_unpack == StepList(<<Scalar(1, "StorageClass"), Scalar(4, "MinSize")>>)
SpanPolicyEntry_unpack == StepList(<<Scalar(4, "MaxSize"), Scalar(1, "Parity")>>)
StripePolicy_unpack == StepList(<<Scalar(4, "TargetStripeSize")>>)
FullRegistryInfo_unpack == StepList(<<
  Scalar(1, "Id"), Scalar(1, "LocationId"), Flag("IsLeader"), Nested("Addrs", AddrsInfo_unpack),
  Scalar(8, "LastSeen")>>)
EntryNewBlockInfo_unpack == StepList(<<Scalar(8, "BlockServiceId"), Scalar(4, "Crc")>>)
BlockServiceDeprecatedInfo_unpack == StepList(<<
  Scalar(8, "Id"), Nested("Addrs", AddrsInfo_unpack), Scalar(1, "StorageClass"),
  Nested("FailureDomain", FailureDomain_unpack), FixedBytes(16, "SecretKey"), Scalar(1, "Flags"),
  Scalar(8, "CapacityBytes"), Scalar(8, "AvailableBytes"), Scalar(8, "Blocks"), ByteString("Path"),
  Scalar(8, "LastSeen"), Flag("HasFiles"), Scalar(8, "FlagsLastChanged")>>)
BlockServiceInfoShort_unpack == StepList(<<
  Scalar(1, "LocationId"), Nested("FailureDomain", FailureDomain_unpack), Scalar(8, "Id"),
  Scalar(1, "StorageClass")>>)
SpanPolicy_unpack == StepList(<<
  ListMin(2, "Entries", Nested("", SpanPolicyEntry_unpack), SpanPolicyEntry_STATIC_SIZE)>>)
BlockPolicy_unpack == StepList(<<
  ListMin(2, "Entries", Nested("", BlockPolicyEntry_unpack), BlockPolicyEntry_STATIC_SIZE)>>)
SnapshotPolicy_unpack == StepList(<<Scalar(8, "DeleteAfterTime"), Scalar(2, "DeleteAfterVersions")>>)
FullShardInfo_unpack == StepList(<<
  Checked("ShardReplicaId", 2, "Id"), Flag("IsLeader"), Nested("Addrs", AddrsInfo_unpack),
  Scalar(8, "LastSeen"), Scalar(1, "LocationId")>>)
RegisterBlockServiceInfo_unpack == StepList(<<
  Scalar(8, "Id"), Scalar(1, "LocationId"), Nested("Addrs", AddrsInfo_unpack), Scalar(1, "StorageClass"),
  Nested("FailureDomain", FailureDomain_unpack), FixedBytes(16, "SecretKey"), Scalar(1, "Flags"),
  Scalar(1, "FlagsMask"), Scalar(8, "CapacityBytes"), Scalar(8, "AvailableBytes"), Scalar(8, "Blocks"),
  ByteString("Path")>>)
FullBlockServiceInfo_unpack == StepList(<<
  Scalar(8, "Id"), Scalar(1, "LocationId"), Nested("Addrs", AddrsInfo_unpack), Scalar(1, "StorageClass"),
  Nested("FailureDomain", FailureDomain_unpack), FixedBytes(16, "SecretKey"), Scalar(1, "Flags"),
  Scalar(8, "CapacityBytes"), Scalar(8, "AvailableBytes"), Scalar(8, "Blocks"), Scalar(8, "FirstSeen"),
  Scalar(8, "LastSeen"), Scalar(8, "LastInfoChange"), Flag("HasFiles"), ByteString("Path")>>)
BlockServiceSpace_unpack == StepList(<<
  Scalar(8, "Id"), Scalar(8, "CapacityBytes"), Scalar(8, "AvailableBytes"), Scalar(8, "Blocks")>>)
CdcInfo_unpack == StepList(<<
  Scalar(1, "ReplicaId"), Scalar(1, "LocationId"), Flag("IsLeader"), Nested("Addrs", AddrsInfo_unpack),
  Scalar(8, "LastSeen")>>)
LocationInfo_unpack == StepList(<<Scalar(1, "Id"), ByteString("Name")>>)
LocalShardsReq_unpack == StepList(<<>>)
LocalShardsResp_unpack == StepList(<<ListMin(2, "Shards", Nested("", ShardInfo_unpack), ShardInfo_STATIC_SIZE)>>)
LocalCdcReq_unpack == StepList(<<>>)
LocalCdcResp_unpack == StepList(<<Nested("Addrs", AddrsInfo_unpack), Scalar(8, "LastSeen")>>)
InfoReq_unpack == StepList(<<>>)
InfoResp_unpack == StepList(<<
  Scalar(4, "NumBlockServices"), Scalar(4, "NumFailureDomains"), Scalar(8, "Capacity"),
  Scalar(8, "Available"), Scalar(8, "Blocks")>>)
RegistryReq_unpack == StepList(<<>>)
RegistryResp_unpack == StepList(<<Nested("Addrs", AddrsInfo_unpack)>>)
LocalChangedBlockServicesReq_unpack == StepList(<<Scalar(8, "ChangedSince")>>)
LocalChangedBlockServicesResp_unpack == StepList(<<
  Scalar(8, "LastChange"),
  ListMin(2, "BlockServices", Nested("", BlockService_unpack), BlockService_STATIC_SIZE)>>)
CreateLocationReq_unpack == StepList(<<Scalar(1, "Id"), ByteString("Name")>>)
CreateLocationResp_unpack == StepList(<<>>)
RenameLocationReq_unpack == StepList(<<Scalar(1, "Id"), ByteString("Name")>>)
RenameLocationResp_unpack == StepList(<<>>)
RegisterShardReq_unpack == StepList(<<
  Checked("ShardReplicaId", 2, "Shrid"), Flag("IsLeader"), Nested("Addrs", AddrsInfo_unpack),
  Scalar(1, "Location")>>)
RegisterShardResp_unpack == StepList(<<>>)
LocationsReq_unpack == StepList(<<>>)
LocationsResp_unpack == StepList(<<
  ListMin(2, "Locations", Nested("", LocationInfo_unpack), LocationInfo_STATIC_SIZE)>>)
RegisterCdcReq_unpack == StepList(<<
  Scalar(1, "Replica"), Scalar(1, "Location"), Flag("IsLeader"), Nested("Addrs", AddrsInfo_unpack)>>)
RegisterCdcResp_unpack == StepList(<<>>)
SetBlockServiceFlagsReq_unpack == StepList(<<Scalar(8, "Id"), Scalar(1, "Flags"), Scalar(1, "FlagsMask")>>)
SetBlockServiceFlagsResp_unpack == StepList(<<>>)
RegisterBlockServicesReq_unpack == StepList(<<
  ListMin(2, "BlockServices", Nested("", RegisterBlockServiceInfo_unpack), RegisterBlockServiceInfo_STATIC_SIZE)>>)
RegisterBlockServicesResp_unpack == StepList(<<>>)
ChangedBlockServicesAtLocationReq_unpack == StepList(<<Scalar(1, "LocationId"), Scalar(8, "ChangedSince")>>)
ChangedBlockServicesAtLocationResp_unpack == StepList(<<
  Scalar(8, "LastChange"),
  ListMin(2, "BlockServices", Nested("", BlockService_unpack), BlockService_STATIC_SIZE)>>)
ShardsAtLocationReq_unpack == StepList(<<Scalar(1, "LocationId")>>)
ShardsAtLocationResp_unpack == StepList(<<
  ListMin(2, "Shards", Nested("", ShardInfo_unpack), ShardInfo_STATIC_SIZE)>>)
CdcAtLocationReq_unpack == StepList(<<Scalar(1, "LocationId")>>)
CdcAtLocationResp_unpack == StepList(<<Nested("Addrs", AddrsInfo_unpack), Scalar(8, "LastSeen")>>)
RegisterRegistryReq_unpack == StepList(<<
  Scalar(1, "ReplicaId"), Scalar(1, "Location"), Flag("IsLeader"), Nested("Addrs", AddrsInfo_unpack),
  Flag("Bootstrap")>>)
RegisterRegistryResp_unpack == StepList(<<>>)
AllRegistryReplicasDEPRECATEDReq_unpack == StepList(<<>>)
AllRegistryReplicasDEPRECATEDResp_unpack == StepList(<<
  ListMin(2, "Replicas", Nested("", FullRegistryInfo_unpack), FullRegistryInfo_STATIC_SIZE)>>)
ShardBlockServicesDEPRECATEDReq_unpack == StepList(<<Scalar(1, "ShardId")>>)
ShardBlockServicesDEPRECATEDResp_unpack == StepList(<<ListMin(2, "BlockServices", Scalar(8, ""), 8)>>)
CdcReplicasDEPRECATEDReq_unpack == StepList(<<>>)
CdcReplicasDEPRECATEDResp_unpack == StepList(<<
  ListMin(2, "Replicas", Nested("", AddrsInfo_unpack), AddrsInfo_STATIC_SIZE)>>)
AllShardsDEPRECATEDReq_unpack == StepList(<<>>)
AllShardsDEPRECATEDResp_unpack == StepList(<<
  ListMin(2, "Shards", Nested("", FullShardInfo_unpack), FullShardInfo_STATIC_SIZE)>>)
DecommissionBlockServiceReq_unpack == StepList(<<Scalar(8, "Id")>>)
DecommissionBlockServiceResp_unpack == StepList(<<>>)
MoveShardLeaderReq_unpack == StepList(<<Checked("ShardReplicaId", 2, "Shrid"), Scalar(1, "Location")>>)
MoveShardLeaderResp_unpack == StepList(<<>>)
ClearShardInfoReq_unpack == StepList(<<Checked("ShardReplicaId", 2, "Shrid"), Scalar(1, "Location")>>)
ClearShardInfoResp_unpack == StepList(<<>>)
=============================================================================
