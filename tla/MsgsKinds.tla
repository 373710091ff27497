----------------------------- MODULE MsgsKinds ------------------------------
(***************************************************************************)
(* What the descriptions of the messages share: the types of the fields,   *)
(* the numbers that stand for kinds of messages and for errors in the Go   *)
(* code (go/msgs) and in the C++ code (cpp/core/MsgsGen.hpp), and what the *)
(* C++ unpackList takes for the least size of an element.                  *)
(***************************************************************************)
EXTENDS Bincode

(* The types of the fields. *)
U8 == [t |-> "num", n |-> 1]
U16 == [t |-> "num", n |-> 2]
U32 == [t |-> "num", n |-> 4]
U64 == [t |-> "num", n |-> 8]
Bool == [t |-> "bool"]
InodeId == [t |-> "inode", n |-> 8]
InodeIdExtra == InodeId
ShardReplicaId == [t |-> "shrid"]
StorageClass == U8
Octets(n) == [t |-> "num", n |-> n]
Text == [t |-> "text"]
ListOf(type) == [t |-> "list", el |-> type]
StructOf(fields) == [t |-> "struct", fields |-> fields]
\* a span: the tag in the header says whether the body is inline
Span(header, tag, inline, other, arm, body) ==
  [t |-> "span", header |-> header, tag |-> tag, inline |-> inline, other |-> other, arm |-> arm, body |-> body]

(* The kinds of messages and the errors in the Go code. *)
ShardMessageKind == [
  LOOKUP |-> 1, STAT_FILE |-> 2, STAT_DIRECTORY |-> 4, READ_DIR |-> 5, CONSTRUCT_FILE |-> 6,
  ADD_SPAN_INITIATE |-> 7, ADD_SPAN_CERTIFY |-> 8, LINK_FILE |-> 9, SOFT_UNLINK_FILE |-> 10,
  LOCAL_FILE_SPANS |-> 11, SAME_DIRECTORY_RENAME |-> 12, ADD_INLINE_SPAN |-> 16, SET_TIME |-> 17,
  FULL_READ_DIR |-> 115, MOVE_SPAN |-> 123, REMOVE_NON_OWNED_EDGE |-> 116,
  SAME_SHARD_HARD_FILE_UNLINK |-> 117, STAT_TRANSIENT_FILE |-> 3, SHARD_SNAPSHOT |-> 18, FILE_SPANS |-> 20,
  ADD_SPAN_LOCATION |-> 21, SCRAP_TRANSIENT_FILE |-> 22, SET_DIRECTORY_INFO |-> 13, GET_LINK_ENTRIES |-> 14,
  WAIT_STATE_APPLIED |-> 15, VISIT_DIRECTORIES |-> 112, VISIT_FILES |-> 113, VISIT_TRANSIENT_FILES |-> 114,
  REMOVE_SPAN_INITIATE |-> 118, REMOVE_SPAN_CERTIFY |-> 119, SWAP_BLOCKS |-> 120,
  BLOCK_SERVICE_FILES |-> 121, REMOVE_INODE |-> 122, ADD_SPAN_INITIATE_WITH_REFERENCE |-> 124,
  REMOVE_ZERO_BLOCK_SERVICE_FILES |-> 125, SWAP_SPANS |-> 126, SAME_DIRECTORY_RENAME_SNAPSHOT |-> 127,
  ADD_SPAN_AT_LOCATION_INITIATE |-> 19, CREATE_DIRECTORY_INODE |-> 128, SET_DIRECTORY_OWNER |-> 129,
  REMOVE_DIRECTORY_OWNER |-> 137, CREATE_LOCKED_CURRENT_EDGE |-> 130, LOCK_CURRENT_EDGE |-> 131,
  UNLOCK_CURRENT_EDGE |-> 132, REMOVE_OWNED_SNAPSHOT_FILE_EDGE |-> 134, MAKE_FILE_TRANSIENT |-> 135]
CDCMessageKind == [
  MAKE_DIRECTORY |-> 1, RENAME_FILE |-> 2, SOFT_UNLINK_DIRECTORY |-> 3, RENAME_DIRECTORY |-> 4,
  CROSS_SHARD_HARD_UNLINK_FILE |-> 6, HARD_UNLINK_DIRECTORY |-> 5, CDC_SNAPSHOT |-> 7]
RegistryMessageKind == [
  LOCAL_SHARDS |-> 3, LOCAL_CDC |-> 7, INFO |-> 8, REGISTRY |-> 15, LOCAL_CHANGED_BLOCK_SERVICES |-> 34,
  CREATE_LOCATION |-> 1, RENAME_LOCATION |-> 2, REGISTER_SHARD |-> 4, LOCATIONS |-> 5, REGISTER_CDC |-> 6,
  SET_BLOCK_SERVICE_FLAGS |-> 9, REGISTER_BLOCK_SERVICES |-> 10, CHANGED_BLOCK_SERVICES_AT_LOCATION |-> 11,
  SHARDS_AT_LOCATION |-> 12, CDC_AT_LOCATION |-> 13, REGISTER_REGISTRY |-> 14,
  ALL_REGISTRY_REPLICAS_DE_PR_EC_AT_ED |-> 16, SHARD_BLOCK_SERVICES_DE_PR_EC_AT_ED |-> 17,
  CDC_REPLICAS_DE_PR_EC_AT_ED |-> 19, ALL_SHARDS_DE_PR_EC_AT_ED |-> 20, DECOMMISSION_BLOCK_SERVICE |-> 21,
  MOVE_SHARD_LEADER |-> 22, CLEAR_SHARD_INFO |-> 23, SHARD_BLOCK_SERVICES |-> 24,
  ALL_CDC_DE_PR_EC_AT_ED |-> 25, ERASE_DECOMMISSIONED_BLOCK |-> 32, ALL_BLOCK_SERVICES_DEPRECATED |-> 33,
  ALL_BLOCK_SERVICES |-> 40, MOVE_CDC_LEADER |-> 35, CLEAR_CDC_INFO |-> 36, UPDATE_BLOCK_SERVICE_PATH |-> 37,
  SET_BLOCK_SERVICE_HAS_FILES |-> 38, BLOCK_SERVICES_NEEDING_MIGRATION_DEPRECATED |-> 39,
  ALL_REGISTRY_REPLICAS |-> 41, ALL_SHARDS |-> 42, ALL_CDC |-> 43, CHANGED_BLOCK_SERVICES_DEPRECATED |-> 44,
  BLOCK_SERVICE_AVAILABLE_SPACE_DEPRECATED |-> 45, CHANGED_BLOCK_SERVICES |-> 46,
  BLOCK_SERVICES_NEEDING_MIGRATION |-> 47, BLOCK_SERVICE_AVAILABLE_SPACE |-> 48, LOCAL_SHARD_REPLICAS |-> 49]
BlocksMessageKind == [
  FETCH_BLOCK |-> 2, WRITE_BLOCK |-> 3, FETCH_BLOCK_WITH_CRC |-> 4, ERASE_BLOCK |-> 1, TEST_WRITE |-> 5,
  CHECK_BLOCK |-> 6]
LogMessageKind == [
  LOG_WRITE |-> 1, RELEASE |-> 2, LOG_READ |-> 3, NEW_LEADER |-> 4, NEW_LEADER_CONFIRM |-> 5,
  LOG_RECOVERY_READ |-> 6, LOG_RECOVERY_WRITE |-> 7]
TernError == [
  INTERNAL_ERROR |-> 10, FATAL_ERROR |-> 11, TIMEOUT |-> 12, MALFORMED_REQUEST |-> 13,
  MALFORMED_RESPONSE |-> 14, NOT_AUTHORISED |-> 15, UNRECOGNIZED_REQUEST |-> 16, FILE_NOT_FOUND |-> 17,
  DIRECTORY_NOT_FOUND |-> 18, NAME_NOT_FOUND |-> 19, EDGE_NOT_FOUND |-> 20, EDGE_IS_LOCKED |-> 21,
  TYPE_IS_DIRECTORY |-> 22, TYPE_IS_NOT_DIRECTORY |-> 23, BAD_COOKIE |-> 24,
  INCONSISTENT_STORAGE_CLASS_PARITY |-> 25, LAST_SPAN_STATE_NOT_CLEAN |-> 26,
  COULD_NOT_PICK_BLOCK_SERVICES |-> 27, BAD_SPAN_BODY |-> 28, SPAN_NOT_FOUND |-> 29,
  BLOCK_SERVICE_NOT_FOUND |-> 30, CANNOT_CERTIFY_BLOCKLESS_SPAN |-> 31, BAD_NUMBER_OF_BLOCKS_PROOFS |-> 32,
  BAD_BLOCK_PROOF |-> 33, CANNOT_OVERRIDE_NAME |-> 34, NAME_IS_LOCKED |-> 35, MTIME_IS_TOO_RECENT |-> 36,
  MISMATCHING_TARGET |-> 37, MISMATCHING_OWNER |-> 38, MISMATCHING_CREATION_TIME |-> 39,
  DIRECTORY_NOT_EMPTY |-> 40, FILE_IS_TRANSIENT |-> 41, OLD_DIRECTORY_NOT_FOUND |-> 42,
  NEW_DIRECTORY_NOT_FOUND |-> 43, LOOP_IN_DIRECTORY_RENAME |-> 44, DIRECTORY_HAS_OWNER |-> 45,
  FILE_IS_NOT_TRANSIENT |-> 46, FILE_NOT_EMPTY |-> 47, CANNOT_REMOVE_ROOT_DIRECTORY |-> 48,
  FILE_EMPTY |-> 49, CANNOT_REMOVE_DIRTY_SPAN |-> 50, BAD_SHARD |-> 51, BAD_NAME |-> 52,
  MORE_RECENT_SNAPSHOT_EDGE |-> 53, MORE_RECENT_CURRENT_EDGE |-> 54, BAD_DIRECTORY_INFO |-> 55,
  DEADLINE_NOT_PASSED |-> 56, SAME_SOURCE_AND_DESTINATION |-> 57, SAME_DIRECTORIES |-> 58, SAME_SHARD |-> 59,
  BAD_PROTOCOL_VERSION |-> 60, BAD_CERTIFICATE |-> 61, BLOCK_TOO_RECENT_FOR_DELETION |-> 62,
  BLOCK_FETCH_OUT_OF_BOUNDS |-> 63, BAD_BLOCK_CRC |-> 64, BLOCK_TOO_BIG |-> 65, BLOCK_NOT_FOUND |-> 66,
  CANNOT_UNSET_DECOMMISSIONED |-> 67, CANNOT_REGISTER_DECOMMISSIONED_OR_STALE |-> 68,
  BLOCK_TOO_OLD_FOR_WRITE |-> 69, BLOCK_IO_ERROR_DEVICE |-> 70, BLOCK_IO_ERROR_FILE |-> 71,
  INVALID_REPLICA |-> 72, DIFFERENT_ADDRS_INFO |-> 73, LEADER_PREEMPTED |-> 74, LOG_ENTRY_MISSING |-> 75,
  LOG_ENTRY_TRIMMED |-> 76, LOG_ENTRY_UNRELEASED |-> 77, LOG_ENTRY_RELEASED |-> 78,
  AUTO_DECOMMISSION_FORBIDDEN |-> 79, INCONSISTENT_BLOCK_SERVICE_REGISTRATION |-> 80,
  SWAP_BLOCKS_INLINE_STORAGE |-> 81, SWAP_BLOCKS_MISMATCHING_SIZE |-> 82,
  SWAP_BLOCKS_MISMATCHING_STATE |-> 83, SWAP_BLOCKS_MISMATCHING_CRC |-> 84,
  SWAP_BLOCKS_DUPLICATE_BLOCK_SERVICE |-> 85, SWAP_SPANS_INLINE_STORAGE |-> 86,
  SWAP_SPANS_MISMATCHING_SIZE |-> 87, SWAP_SPANS_NOT_CLEAN |-> 88, SWAP_SPANS_MISMATCHING_CRC |-> 89,
  SWAP_SPANS_MISMATCHING_BLOCKS |-> 90, EDGE_NOT_OWNED |-> 91, CANNOT_CREATE_DB_SNAPSHOT |-> 92,
  BLOCK_SIZE_NOT_MULTIPLE_OF_PAGE_SIZE |-> 93, SWAP_BLOCKS_DUPLICATE_FAILURE_DOMAIN |-> 94,
  TRANSIENT_LOCATION_COUNT |-> 95, ADD_SPAN_LOCATION_INLINE_STORAGE |-> 96,
  ADD_SPAN_LOCATION_MISMATCHING_SIZE |-> 97, ADD_SPAN_LOCATION_NOT_CLEAN |-> 98,
  ADD_SPAN_LOCATION_MISMATCHING_CRC |-> 99, ADD_SPAN_LOCATION_EXISTS |-> 100,
  SWAP_BLOCKS_MISMATCHING_LOCATION |-> 101, LOCATION_EXISTS |-> 102, LOCATION_NOT_FOUND |-> 103,
  AUTO_DECOMMISSION_RATE_LIMITED |-> 104, REGISTRY_OVERLOADED |-> 105, SHARDS_NOT_READY |-> 106,
  CDC_NOT_READY |-> 107]

(* The same in the C++ code. *)
ShardKind == [
  ERROR |-> 0, LOOKUP |-> 1, STAT_FILE |-> 2, STAT_DIRECTORY |-> 4, READ_DIR |-> 5, CONSTRUCT_FILE |-> 6,
  ADD_SPAN_INITIATE |-> 7, ADD_SPAN_CERTIFY |-> 8, LINK_FILE |-> 9, SOFT_UNLINK_FILE |-> 10,
  LOCAL_FILE_SPANS |-> 11, SAME_DIRECTORY_RENAME |-> 12, ADD_INLINE_SPAN |-> 16, SET_TIME |-> 17,
  FULL_READ_DIR |-> 115, MOVE_SPAN |-> 123, REMOVE_NON_OWNED_EDGE |-> 116,
  SAME_SHARD_HARD_FILE_UNLINK |-> 117, STAT_TRANSIENT_FILE |-> 3, SHARD_SNAPSHOT |-> 18, FILE_SPANS |-> 20,
  ADD_SPAN_LOCATION |-> 21, SCRAP_TRANSIENT_FILE |-> 22, SET_DIRECTORY_INFO |-> 13, GET_LINK_ENTRIES |-> 14,
  WAIT_STATE_APPLIED |-> 15, VISIT_DIRECTORIES |-> 112, VISIT_FILES |-> 113, VISIT_TRANSIENT_FILES |-> 114,
  REMOVE_SPAN_INITIATE |-> 118, REMOVE_SPAN_CERTIFY |-> 119, SWAP_BLOCKS |-> 120,
  BLOCK_SERVICE_FILES |-> 121, REMOVE_INODE |-> 122, ADD_SPAN_INITIATE_WITH_REFERENCE |-> 124,
  REMOVE_ZERO_BLOCK_SERVICE_FILES |-> 125, SWAP_SPANS |-> 126, SAME_DIRECTORY_RENAME_SNAPSHOT |-> 127,
  ADD_SPAN_AT_LOCATION_INITIATE |-> 19, CREATE_DIRECTORY_INODE |-> 128, SET_DIRECTORY_OWNER |-> 129,
  REMOVE_DIRECTORY_OWNER |-> 137, CREATE_LOCKED_CURRENT_EDGE |-> 130, LOCK_CURRENT_EDGE |-> 131,
  UNLOCK_CURRENT_EDGE |-> 132, REMOVE_OWNED_SNAPSHOT_FILE_EDGE |-> 134, MAKE_FILE_TRANSIENT |-> 135]
CDCKind == [
  ERROR |-> 0, MAKE_DIRECTORY |-> 1, RENAME_FILE |-> 2, SOFT_UNLINK_DIRECTORY |-> 3, RENAME_DIRECTORY |-> 4,
  CROSS_SHARD_HARD_UNLINK_FILE |-> 6, HARD_UNLINK_DIRECTORY |-> 5, CDC_SNAPSHOT |-> 7]
RegistryKind == [
  ERROR |-> 0, LOCAL_SHARDS |-> 3, LOCAL_CDC |-> 7, INFO |-> 8, REGISTRY |-> 15,
  LOCAL_CHANGED_BLOCK_SERVICES |-> 34, CREATE_LOCATION |-> 1, RENAME_LOCATION |-> 2, REGISTER_SHARD |-> 4,
  LOCATIONS |-> 5, REGISTER_CDC |-> 6, SET_BLOCK_SERVICE_FLAGS |-> 9, REGISTER_BLOCK_SERVICES |-> 10,
  CHANGED_BLOCK_SERVICES_AT_LOCATION |-> 11, SHARDS_AT_LOCATION |-> 12, CDC_AT_LOCATION |-> 13,
  REGISTER_REGISTRY |-> 14, ALL_REGISTRY_REPLICAS_DE_PR_EC_AT_ED |-> 16,
  SHARD_BLOCK_SERVICES_DE_PR_EC_AT_ED |-> 17, CDC_REPLICAS_DE_PR_EC_AT_ED |-> 19,
  ALL_SHARDS_DE_PR_EC_AT_ED |-> 20, DECOMMISSION_BLOCK_SERVICE |-> 21, MOVE_SHARD_LEADER |-> 22,
  CLEAR_SHARD_INFO |-> 23, SHARD_BLOCK_SERVICES |-> 24, ALL_CDC_DE_PR_EC_AT_ED |-> 25,
  ERASE_DECOMMISSIONED_BLOCK |-> 32, ALL_BLOCK_SERVICES_DEPRECATED |-> 33, ALL_BLOCK_SERVICES |-> 40,
  MOVE_CDC_LEADER |-> 35, CLEAR_CDC_INFO |-> 36, UPDATE_BLOCK_SERVICE_PATH |-> 37,
  SET_BLOCK_SERVICE_HAS_FILES |-> 38, BLOCK_SERVICES_NEEDING_MIGRATION_DEPRECATED |-> 39,
  ALL_REGISTRY_REPLICAS |-> 41, ALL_SHARDS |-> 42, ALL_CDC |-> 43, CHANGED_BLOCK_SERVICES_DEPRECATED |-> 44,
  BLOCK_SERVICE_AVAILABLE_SPACE_DEPRECATED |-> 45, CHANGED_BLOCK_SERVICES |-> 46,
  BLOCK_SERVICES_NEEDING_MIGRATION |-> 47, BLOCK_SERVICE_AVAILABLE_SPACE |-> 48, LOCAL_SHARD_REPLICAS |-> 49]
LogKind == [
  ERROR |-> 0, LOG_WRITE |-> 1, RELEASE |-> 2, LOG_READ |-> 3, NEW_LEADER |-> 4, NEW_LEADER_CONFIRM |-> 5,
  LOG_RECOVERY_READ |-> 6, LOG_RECOVERY_WRITE |-> 7]
Errors == [
  INTERNAL_ERROR |-> 10, FATAL_ERROR |-> 11, TIMEOUT |-> 12, MALFORMED_REQUEST |-> 13,
  MALFORMED_RESPONSE |-> 14, NOT_AUTHORISED |-> 15, UNRECOGNIZED_REQUEST |-> 16, FILE_NOT_FOUND |-> 17,
  DIRECTORY_NOT_FOUND |-> 18, NAME_NOT_FOUND |-> 19, EDGE_NOT_FOUND |-> 20, EDGE_IS_LOCKED |-> 21,
  TYPE_IS_DIRECTORY |-> 22, TYPE_IS_NOT_DIRECTORY |-> 23, BAD_COOKIE |-> 24,
  INCONSISTENT_STORAGE_CLASS_PARITY |-> 25, LAST_SPAN_STATE_NOT_CLEAN |-> 26,
  COULD_NOT_PICK_BLOCK_SERVICES |-> 27, BAD_SPAN_BODY |-> 28, SPAN_NOT_FOUND |-> 29,
  BLOCK_SERVICE_NOT_FOUND |-> 30, CANNOT_CERTIFY_BLOCKLESS_SPAN |-> 31, BAD_NUMBER_OF_BLOCKS_PROOFS |-> 32,
  BAD_BLOCK_PROOF |-> 33, CANNOT_OVERRIDE_NAME |-> 34, NAME_IS_LOCKED |-> 35, MTIME_IS_TOO_RECENT |-> 36,
  MISMATCHING_TARGET |-> 37, MISMATCHING_OWNER |-> 38, MISMATCHING_CREATION_TIME |-> 39,
  DIRECTORY_NOT_EMPTY |-> 40, FILE_IS_TRANSIENT |-> 41, OLD_DIRECTORY_NOT_FOUND |-> 42,
  NEW_DIRECTORY_NOT_FOUND |-> 43, LOOP_IN_DIRECTORY_RENAME |-> 44, DIRECTORY_HAS_OWNER |-> 45,
  FILE_IS_NOT_TRANSIENT |-> 46, FILE_NOT_EMPTY |-> 47, CANNOT_REMOVE_ROOT_DIRECTORY |-> 48,
  FILE_EMPTY |-> 49, CANNOT_REMOVE_DIRTY_SPAN |-> 50, BAD_SHARD |-> 51, BAD_NAME |-> 52,
  MORE_RECENT_SNAPSHOT_EDGE |-> 53, MORE_RECENT_CURRENT_EDGE |-> 54, BAD_DIRECTORY_INFO |-> 55,
  DEADLINE_NOT_PASSED |-> 56, SAME_SOURCE_AND_DESTINATION |-> 57, SAME_DIRECTORIES |-> 58, SAME_SHARD |-> 59,
  BAD_PROTOCOL_VERSION |-> 60, BAD_CERTIFICATE |-> 61, BLOCK_TOO_RECENT_FOR_DELETION |-> 62,
  BLOCK_FETCH_OUT_OF_BOUNDS |-> 63, BAD_BLOCK_CRC |-> 64, BLOCK_TOO_BIG |-> 65, BLOCK_NOT_FOUND |-> 66,
  CANNOT_UNSET_DECOMMISSIONED |-> 67, CANNOT_REGISTER_DECOMMISSIONED_OR_STALE |-> 68,
  BLOCK_TOO_OLD_FOR_WRITE |-> 69, BLOCK_IO_ERROR_DEVICE |-> 70, BLOCK_IO_ERROR_FILE |-> 71,
  INVALID_REPLICA |-> 72, DIFFERENT_ADDRS_INFO |-> 73, LEADER_PREEMPTED |-> 74, LOG_ENTRY_MISSING |-> 75,
  LOG_ENTRY_TRIMMED |-> 76, LOG_ENTRY_UNRELEASED |-> 77, LOG_ENTRY_RELEASED |-> 78,
  AUTO_DECOMMISSION_FORBIDDEN |-> 79, INCONSISTENT_BLOCK_SERVICE_REGISTRATION |-> 80,
  SWAP_BLOCKS_INLINE_STORAGE |-> 81, SWAP_BLOCKS_MISMATCHING_SIZE |-> 82,
  SWAP_BLOCKS_MISMATCHING_STATE |-> 83, SWAP_BLOCKS_MISMATCHING_CRC |-> 84,
  SWAP_BLOCKS_DUPLICATE_BLOCK_SERVICE |-> 85, SWAP_SPANS_INLINE_STORAGE |-> 86,
  SWAP_SPANS_MISMATCHING_SIZE |-> 87, SWAP_SPANS_NOT_CLEAN |-> 88, SWAP_SPANS_MISMATCHING_CRC |-> 89,
  SWAP_SPANS_MISMATCHING_BLOCKS |-> 90, EDGE_NOT_OWNED |-> 91, CANNOT_CREATE_DB_SNAPSHOT |-> 92,
  BLOCK_SIZE_NOT_MULTIPLE_OF_PAGE_SIZE |-> 93, SWAP_BLOCKS_DUPLICATE_FAILURE_DOMAIN |-> 94,
  TRANSIENT_LOCATION_COUNT |-> 95, ADD_SPAN_LOCATION_INLINE_STORAGE |-> 96,
  ADD_SPAN_LOCATION_MISMATCHING_SIZE |-> 97, ADD_SPAN_LOCATION_NOT_CLEAN |-> 98,
  ADD_SPAN_LOCATION_MISMATCHING_CRC |-> 99, ADD_SPAN_LOCATION_EXISTS |-> 100,
  SWAP_BLOCKS_MISMATCHING_LOCATION |-> 101, LOCATION_EXISTS |-> 102, LOCATION_NOT_FOUND |-> 103,
  AUTO_DECOMMISSION_RATE_LIMITED |-> 104, REGISTRY_OVERLOADED |-> 105, SHARDS_NOT_READY |-> 106,
  CDC_NOT_READY |-> 107]

(* The least sizes. *)
IpPort_STATIC_SIZE == 4 + 2
AddrsInfo_STATIC_SIZE == IpPort_STATIC_SIZE + IpPort_STATIC_SIZE
DirectoryInfoEntry_STATIC_SIZE == 1 + 1
CurrentEdge_STATIC_SIZE == 8 + 8 + 1 + 8
FailureDomain_STATIC_SIZE == 16
BlacklistEntry_STATIC_SIZE == FailureDomain_STATIC_SIZE + 8
AddSpanInitiateBlockInfo_STATIC_SIZE == AddrsInfo_STATIC_SIZE + 8 + FailureDomain_STATIC_SIZE + 8 + 8
BlockProof_STATIC_SIZE == 8 + 8
BlockService_STATIC_SIZE == AddrsInfo_STATIC_SIZE + 8 + 1
FetchedSpanHeader_STATIC_SIZE == 8 + 4 + 4 + 1
FetchedBlock_STATIC_SIZE == 1 + 8 + 4
FetchedSpan_STATIC_SIZE == FetchedSpanHeader_STATIC_SIZE
Edge_STATIC_SIZE == 1 + 8 + 8 + 1 + 8
FetchedSpanHeaderFull_STATIC_SIZE == 8 + 4 + 4 + 1
FetchedBlockServices_STATIC_SIZE == 1 + 1 + 1 + 1 + 4 + 2 + 2
FetchedFullSpan_STATIC_SIZE == FetchedSpanHeaderFull_STATIC_SIZE
LinkEntry_STATIC_SIZE == 8 + 8 + 8
TransientFile_STATIC_SIZE == 8 + 8 + 8
RemoveSpanInitiateBlockInfo_STATIC_SIZE == AddrsInfo_STATIC_SIZE + 8 + FailureDomain_STATIC_SIZE + 1 + 8 + 8
ShardInfo_STATIC_SIZE == AddrsInfo_STATIC_SIZE + 8
BlockPolicyEntry_STATIC_SIZE == 1 + 4
SpanPolicyEntry_STATIC_SIZE == 4 + 1
FullRegistryInfo_STATIC_SIZE == 1 + 1 + 1 + AddrsInfo_STATIC_SIZE + 8
BlockServiceDeprecatedInfo_STATIC_SIZE == 8 + AddrsInfo_STATIC_SIZE + 1 + FailureDomain_STATIC_SIZE + 16 + 1 + 8 + 8 + 8 + 1 + 8 + 1 + 8
BlockServiceInfoShort_STATIC_SIZE == 1 + FailureDomain_STATIC_SIZE + 8 + 1
FullShardInfo_STATIC_SIZE == 2 + 1 + AddrsInfo_STATIC_SIZE + 8 + 1
RegisterBlockServiceInfo_STATIC_SIZE == 8 + 1 + AddrsInfo_STATIC_SIZE + 1 + FailureDomain_STATIC_SIZE + 16 + 1 + 1 + 8 + 8 + 8 + 1
FullBlockServiceInfo_STATIC_SIZE == 8 + 1 + AddrsInfo_STATIC_SIZE + 1 + FailureDomain_STATIC_SIZE + 16 + 1 + 8 + 8 + 8 + 8 + 8 + 8 + 1 + 1
BlockServiceSpace_STATIC_SIZE == 8 + 8 + 8 + 8
CdcInfo_STATIC_SIZE == 1 + 1 + 1 + AddrsInfo_STATIC_SIZE + 8
LocationInfo_STATIC_SIZE == 1 + 1
=============================================================================
