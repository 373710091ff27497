-------------------------------- MODULE Wire --------------------------------
(***************************************************************************)
(* One exchange between two TernFS processes, byte by byte: a client packs *)
(* a request, the network may cut it short or, on a TCP connection, have   *)
(* more bytes follow it, the server reads it, and answers or reports an    *)
(* error.  A metadata request goes from a Go client to a C++ shard or CDC  *)
(* in a UDP datagram; a registry request goes over TCP to the C++ registry,*)
(* directly or through the Go registry proxy, which turns some requests    *)
(* into others; a block request goes over TCP to the Go block service; a   *)
(* log message goes between C++ shard replicas.                            *)
(***************************************************************************)
EXTENDS MsgsGo, MsgsCpp

CONSTANTS
  Protocols,   \* the protocols that are tried, of {"Shard", "CDC", "Registry", "Blocks", "Log"}
  Shapes,      \* how long the strings of a message are; a list is at most two long
  Seeds,       \* what the bytes of a message are
  MaxCutLength,      \* bound: a message up to this long is cut at every place
  Location,    \* the location of the proxy, <<0..255>>
  Following       \* the bytes that follow a message on a connection

VARIABLES
  stage,   \* "idle", "request", "serving", "response", "relay" or "done"
  hop,     \* "direct", "proxy" (client and proxy) or "upstream" (proxy and registry)
  call,    \* [proto, kind, val]: what the client asked for
  sent,    \* the last message sent: [kind, val], or [kind |-> "ERROR", val |-> an error]
  packet,    \* its bytes that arrive
  state,   \* "whole", "cut" or "followed": what happened to them
  received,     \* what the receiver made of them: [ok, kind, val, rest]
  told     \* (history) what the server that acted on the request answered

wireVars == <<stage, hop, call, sent, packet, state, received, told>>

-----------------------------------------------------------------------------
(* Example values of a type: n sets the lengths, s the bytes. *)

Byte(s, i) == (s + 3 * i) % 256
RECURSIVE ExampleOf(_, _, _)
ExampleOf(type, n, s) ==
  CASE type.t = "num" -> [i \in 1..type.n |-> Byte(s, i)]
    [] type.t = "bool" -> <<s % 2>>
    [] type.t = "inode" -> [i \in 1..8 |-> IF i = 1 THEN 32 * (1 + (s % 3)) + (s % 31) ELSE Byte(s, i)]
    [] type.t = "shrid" -> <<s % 5, s % 256>>
    [] type.t = "text" -> [i \in 1..n |-> Byte(s, 2 * i)]
    [] type.t = "list" -> [i \in 1..(n % 3) |-> ExampleOf(type.el, n, s + 13 * i)]
    [] type.t = "struct" ->
         LET F == {i \in 1..Len(type.fields) : i % 2 = 1}
             Index(f) == CHOOSE i \in F : type.fields[i] = f
         IN [f \in {type.fields[i] : i \in F} |-> ExampleOf(type.fields[Index(f) + 1], n, s + 17 * Index(f))]
    [] type.t = "span" ->
         LET in == (s \div 13) % 2 = 0
             h == ExampleOf(type.header, n, s)
         IN [f \in {"Header", "Body"} |->
               IF f = "Header" THEN [h EXCEPT ![type.tag] = IF in THEN type.inline ELSE type.other]
               ELSE ExampleOf(IF in THEN type.arm ELSE type.body, n, s + 5)]

Values(type) == {ExampleOf(type, n, s) : n \in Shapes, s \in Seeds}
\* a BincodeBytes is at most 255 bytes long
CppValues(type) == {ExampleOf(type, n, s) : n \in Shapes \ {256}, s \in Seeds}

-----------------------------------------------------------------------------
(* Tables by protocol. *)

Named(kinds, code, S) == {k \in S \cap DOMAIN kinds : kinds[k] = code}
ErrorCode == 0
Id == <<0, 0, 0, 0, 0, 0, 1, 7>>     \* a request id, or the id of a block service

PROTOCOL_VERSION ==
  [Shard |-> [req |-> <<0, 65, 72, 83>>, resp |-> <<1, 65, 72, 83>>],
   CDC |-> [req |-> <<0, 67, 68, 67>>, resp |-> <<1, 67, 68, 67>>],
   Registry |-> [req |-> <<0, 85, 72, 83>>, resp |-> <<1, 85, 72, 83>>],
   Blocks |-> [req |-> <<0, 79, 76, 66>>, resp |-> <<1, 79, 76, 66>>],
   Log |-> [req |-> <<0, 71, 79, 76>>, resp |-> <<1, 71, 79, 76>>]]
CPP_PROTOCOL_VERSION ==
  [Shard |-> [req |-> <<0, 65, 72, 83>>, resp |-> <<1, 65, 72, 83>>],
   CDC |-> [req |-> <<0, 67, 68, 67>>, resp |-> <<1, 67, 68, 67>>],
   Registry |-> [req |-> <<0, 85, 72, 83>>, resp |-> <<1, 85, 72, 83>>],
   Log |-> [req |-> <<0, 71, 79, 76>>, resp |-> <<1, 71, 79, 76>>]]

(* The switches that choose the message to unpack. *)
RegistryResponses == [
  LOCAL_SHARDS |-> LocalShardsRespUnpack, LOCAL_SHARD_REPLICAS |-> LocalShardReplicasRespUnpack,
  LOCAL_CDC |-> LocalCdcRespUnpack, INFO |-> InfoRespUnpack, REGISTRY |-> RegistryRespUnpack,
  LOCAL_CHANGED_BLOCK_SERVICES |-> LocalChangedBlockServicesRespUnpack,
  CREATE_LOCATION |-> CreateLocationRespUnpack, RENAME_LOCATION |-> RenameLocationRespUnpack,
  REGISTER_SHARD |-> RegisterShardRespUnpack, LOCATIONS |-> LocationsRespUnpack,
  REGISTER_CDC |-> RegisterCdcRespUnpack, SET_BLOCK_SERVICE_FLAGS |-> SetBlockServiceFlagsRespUnpack,
  REGISTER_BLOCK_SERVICES |-> RegisterBlockServicesRespUnpack,
  CHANGED_BLOCK_SERVICES_AT_LOCATION |-> ChangedBlockServicesAtLocationRespUnpack,
  SHARDS_AT_LOCATION |-> ShardsAtLocationRespUnpack, CDC_AT_LOCATION |-> CdcAtLocationRespUnpack,
  REGISTER_REGISTRY |-> RegisterRegistryRespUnpack,
  ALL_REGISTRY_REPLICAS_DE_PR_EC_AT_ED |-> AllRegistryReplicasDEPRECATEDRespUnpack,
  SHARD_BLOCK_SERVICES_DE_PR_EC_AT_ED |-> ShardBlockServicesDEPRECATEDRespUnpack,
  CDC_REPLICAS_DE_PR_EC_AT_ED |-> CdcReplicasDEPRECATEDRespUnpack,
  ALL_SHARDS_DE_PR_EC_AT_ED |-> AllShardsDEPRECATEDRespUnpack,
  DECOMMISSION_BLOCK_SERVICE |-> DecommissionBlockServiceRespUnpack,
  MOVE_SHARD_LEADER |-> MoveShardLeaderRespUnpack, CLEAR_SHARD_INFO |-> ClearShardInfoRespUnpack,
  SHARD_BLOCK_SERVICES |-> ShardBlockServicesRespUnpack,
  ALL_CDC_DE_PR_EC_AT_ED |-> AllCdcDEPRECATEDRespUnpack,
  ERASE_DECOMMISSIONED_BLOCK |-> EraseDecommissionedBlockRespUnpack,
  ALL_BLOCK_SERVICES_DEPRECATED |-> AllBlockServicesDeprecatedRespUnpack,
  ALL_BLOCK_SERVICES |-> AllBlockServicesRespUnpack, MOVE_CDC_LEADER |-> MoveCdcLeaderRespUnpack,
  CLEAR_CDC_INFO |-> ClearCdcInfoRespUnpack, UPDATE_BLOCK_SERVICE_PATH |-> UpdateBlockServicePathRespUnpack,
  SET_BLOCK_SERVICE_HAS_FILES |-> SetBlockServiceHasFilesRespUnpack,
  BLOCK_SERVICES_NEEDING_MIGRATION_DEPRECATED |-> BlockServicesNeedingMigrationDeprecatedRespUnpack,
  BLOCK_SERVICES_NEEDING_MIGRATION |-> BlockServicesNeedingMigrationRespUnpack,
  ALL_REGISTRY_REPLICAS |-> AllRegistryReplicasRespUnpack, ALL_SHARDS |-> AllShardsRespUnpack,
  ALL_CDC |-> AllCdcRespUnpack,
  CHANGED_BLOCK_SERVICES_DEPRECATED |-> ChangedBlockServicesDeprecatedRespUnpack,
  CHANGED_BLOCK_SERVICES |-> ChangedBlockServicesRespUnpack,
  BLOCK_SERVICE_AVAILABLE_SPACE_DEPRECATED |-> BlockServiceAvailableSpaceDeprecatedRespUnpack,
  BLOCK_SERVICE_AVAILABLE_SPACE |-> BlockServiceAvailableSpaceRespUnpack]
ProxyRequests == [
  LOCAL_SHARDS |-> LocalShardsReqUnpack, LOCAL_SHARD_REPLICAS |-> LocalShardReplicasReqUnpack,
  REGISTER_SHARD |-> RegisterShardReqUnpack,
  ALL_BLOCK_SERVICES_DEPRECATED |-> AllBlockServicesDeprecatedReqUnpack,
  LOCAL_CHANGED_BLOCK_SERVICES |-> LocalChangedBlockServicesReqUnpack,
  DECOMMISSION_BLOCK_SERVICE |-> DecommissionBlockServiceReqUnpack,
  SET_BLOCK_SERVICE_FLAGS |-> SetBlockServiceFlagsReqUnpack, REGISTER_CDC |-> RegisterCdcReqUnpack,
  LOCAL_CDC |-> LocalCdcReqUnpack, CDC_REPLICAS_DE_PR_EC_AT_ED |-> CdcReplicasDEPRECATEDReqUnpack,
  INFO |-> InfoReqUnpack, REGISTRY |-> RegistryReqUnpack,
  SHARD_BLOCK_SERVICES_DE_PR_EC_AT_ED |-> ShardBlockServicesDEPRECATEDReqUnpack,
  ERASE_DECOMMISSIONED_BLOCK |-> EraseDecommissionedBlockReqUnpack,
  ALL_CDC_DE_PR_EC_AT_ED |-> AllCdcDEPRECATEDReqUnpack, CLEAR_SHARD_INFO |-> ClearShardInfoReqUnpack,
  MOVE_SHARD_LEADER |-> MoveShardLeaderReqUnpack, ALL_SHARDS_DE_PR_EC_AT_ED |-> AllShardsDEPRECATEDReqUnpack,
  MOVE_CDC_LEADER |-> MoveCdcLeaderReqUnpack, CLEAR_CDC_INFO |-> ClearCdcInfoReqUnpack,
  CREATE_LOCATION |-> CreateLocationReqUnpack, RENAME_LOCATION |-> RenameLocationReqUnpack,
  LOCATIONS |-> LocationsReqUnpack, REGISTER_BLOCK_SERVICES |-> RegisterBlockServicesReqUnpack,
  CDC_AT_LOCATION |-> CdcAtLocationReqUnpack,
  CHANGED_BLOCK_SERVICES_AT_LOCATION |-> ChangedBlockServicesAtLocationReqUnpack,
  SHARDS_AT_LOCATION |-> ShardsAtLocationReqUnpack, SHARD_BLOCK_SERVICES |-> ShardBlockServicesReqUnpack,
  BLOCK_SERVICES_NEEDING_MIGRATION_DEPRECATED |-> BlockServicesNeedingMigrationDeprecatedReqUnpack,
  BLOCK_SERVICES_NEEDING_MIGRATION |-> BlockServicesNeedingMigrationReqUnpack,
  ALL_BLOCK_SERVICES |-> AllBlockServicesReqUnpack, ALL_REGISTRY_REPLICAS |-> AllRegistryReplicasReqUnpack,
  ALL_SHARDS |-> AllShardsReqUnpack, ALL_CDC |-> AllCdcReqUnpack,
  CHANGED_BLOCK_SERVICES_DEPRECATED |-> ChangedBlockServicesDeprecatedReqUnpack,
  CHANGED_BLOCK_SERVICES |-> ChangedBlockServicesReqUnpack,
  BLOCK_SERVICE_AVAILABLE_SPACE_DEPRECATED |-> BlockServiceAvailableSpaceDeprecatedReqUnpack,
  BLOCK_SERVICE_AVAILABLE_SPACE |-> BlockServiceAvailableSpaceReqUnpack]
BlocksRequests == [
  ERASE_BLOCK |-> EraseBlockReqUnpack, FETCH_BLOCK |-> FetchBlockReqUnpack,
  FETCH_BLOCK_WITH_CRC |-> FetchBlockWithCrcReqUnpack, WRITE_BLOCK |-> WriteBlockReqUnpack,
  TEST_WRITE |-> TestWriteReqUnpack, CHECK_BLOCK |-> CheckBlockReqUnpack]

(* Every operator below that looks a message up takes the tables as T.     *)

MessageTables ==
  [types |-> [Shard |-> MkShardMessage, CDC |-> MkCDCMessage, Registry |-> MkRegistryMessage,
              Blocks |-> MkBlocksMessage, Log |-> MkLogMessage],
   registry |-> RegistryMessageKind, blocks |-> BlocksMessageKind, errors |-> TernError,
   responses |-> RegistryResponses, proxied |-> ProxyRequests, stored |-> BlocksRequests,
   cppKinds |-> [Shard |-> ShardKind, CDC |-> CDCKind, Registry |-> RegistryKind, Log |-> LogKind],
   cppErrors |-> Errors,
   cppPack |->
     [Shard |-> [req |-> ShardReqContainer_pack, resp |-> ShardRespContainer_pack],
      CDC |-> [req |-> CDCReqContainer_pack, resp |-> CDCRespContainer_pack],
      Registry |-> [req |-> RegistryReqContainer_pack, resp |-> RegistryRespContainer_pack],
      Log |-> [req |-> LogReqContainer_pack, resp |-> LogRespContainer_pack]],
   cppUnpack |->
     [Shard |-> [req |-> ShardReqContainer_unpack, resp |-> ShardRespContainer_unpack],
      CDC |-> [req |-> CDCReqContainer_unpack, resp |-> CDCRespContainer_unpack],
      Registry |-> [req |-> RegistryReqContainer_unpack, resp |-> RegistryRespContainer_unpack],
      Log |-> [req |-> LogReqContainer_unpack, resp |-> LogRespContainer_unpack]]]

-----------------------------------------------------------------------------
(* Sending.  A message is [kind, val]; an error is [kind |-> "ERROR", val |-> its name]. *)

Content(k, v) == [kind |-> k, val |-> v]
Failure(e) == Content("ERROR", e)
IsFailure(m) == m.kind = "ERROR"

LE(n, l) == PackScalar(n, NumberOf(l, n))
GoVersion(p, side) == PackScalar(4, PROTOCOL_VERSION[p][side])
GoBody(T, p, side, m) == PackSteps(T.types[p][m.kind][side].pack.steps, m.val)
GoKind(T, p, side, m) == Wrote(<<T.types[p][m.kind][side].pack.kind>>)

\* the datagram of clientMetadata.processRequests
processRequests(T, p, m) ==
  And(And(GoVersion(p, "req"), PackScalar(8, Id)), And(GoKind(T, p, "req", m), GoBody(T, p, "req", m)))

writeRegistryRequest(T, m) ==
  LET b == GoBody(T, "Registry", "req", m)
  IN And(And(GoVersion("Registry", "req"), LE(4, 1 + Len(b.out))), And(GoKind(T, "Registry", "req", m), b))

writeRegistryResponse(T, m) ==
  LET b == GoBody(T, "Registry", "resp", m)
  IN And(And(GoVersion("Registry", "resp"), LE(4, 1 + Len(b.out))), And(GoKind(T, "Registry", "resp", m), b))

writeRegistryResponseError(T, m) ==
  And(And(GoVersion("Registry", "resp"), LE(4, 3)), And(Wrote(<<ErrorCode>>), LE(2, T.errors[m.val])))

writeBlocksRequest(T, m) ==
  And(And(GoVersion("Blocks", "req"), PackScalar(8, Id)), And(GoKind(T, "Blocks", "req", m), GoBody(T, "Blocks", "req", m)))

writeBlocksResponse(T, m) ==
  And(GoVersion("Blocks", "resp"), And(GoKind(T, "Blocks", "resp", m), GoBody(T, "Blocks", "resp", m)))

writeBlocksResponseError(T, m) ==
  And(GoVersion("Blocks", "resp"), And(Wrote(<<ErrorCode>>), LE(2, T.errors[m.val])))

Container_pack(T, p, side, m) ==
  IF IsFailure(m) THEN And(packScalar(1, <<ErrorCode>>), packScalar(2, NumberOf(T.cppErrors[m.val], 2)))
  ELSE And(packScalar(1, <<T.cppKinds[p][m.kind]>>), packSteps(T.cppPack[p][side][m.kind].steps, m.val))

ProtocolMessage_pack(T, p, side, m) ==
  And(And(packScalar(4, CPP_PROTOCOL_VERSION[p][side]), packScalar(8, Id)), Container_pack(T, p, side, m))

\* stands for AES-CBC-MAC: eight bytes that depend on the bytes signed
cbcmac(bytes) == [i \in 1..8 |-> (Len(bytes) + bytes[1 + ((5 * i) % Len(bytes))]) % 256]

SignedProtocolMessage_pack(T, p, side, m) ==
  LET b == ProtocolMessage_pack(T, p, side, m) IN And(b, Wrote(cbcmac(b.out)))

sendResponse(T, m) ==
  LET b == Container_pack(T, "Registry", "resp", m)
  IN And(And(packScalar(4, CPP_PROTOCOL_VERSION["Registry"].resp), packScalar(4, NumberOf(Len(b.out), 4))), b)

-----------------------------------------------------------------------------
(* Receiving.  The result has the message, and the bytes that the reader   *)
(* has left on the connection.                                             *)

Refused == [ok |-> FALSE, kind |-> "", val |-> <<>>, rest |-> <<>>]
Accept(k, v, rest) == [ok |-> TRUE, kind |-> k, val |-> v, rest |-> rest]
After(buf, pos) == SubSeq(buf, pos + 1, Len(buf))
Starts(buf, version) == Len(buf) >= 4 /\ SubSeq(buf, 1, 4) = Reverse(version)
ErrorNamed(errors, x) == CHOOSE e \in DOMAIN errors : errors[e] = Value(x)
\* what the reader makes of the result r of unpacking a message of kind k
Result(k, r, rest) == IF r.ok THEN Accept(k, r.val, rest) ELSE Refused
Entire(buf, r) == IF r.ok /\ r.pos = Len(buf) THEN r ELSE Short

\* bincode.Unpack: nothing may be left over
Unpack(steps, data, pos) == Entire(data, UnpackSteps(steps, data, pos, <<>>))

parseResponse(T, p, kind, buf) ==
  IF Len(buf) < 13 \/ ~ Starts(buf, PROTOCOL_VERSION[p].resp) THEN Refused
  ELSE IF buf[13] = ErrorCode
  THEN IF Len(buf) # 15 THEN Refused
       ELSE Accept("ERROR", ErrorNamed(T.errors, Reverse(SubSeq(buf, 14, 15))), <<>>)
  ELSE IF buf[13] # T.types[p][kind].req.pack.kind THEN Refused
  ELSE Result(kind, Unpack(T.types[p][kind].resp.unpack.steps, buf, 13), <<>>)

\* what follows the version on a registry connection: a length, and so many bytes
Framed(buf) == TakeCounted(buf, UnpackLength(4, buf, 4))

Switch(arms, K, data, rest) ==
  IF K = {} THEN Refused
  ELSE LET k == CHOOSE k \in K : TRUE IN Result(k, Unpack(arms[k].steps, data, 1), rest)

RegistryResponse(T, buf, data) ==
  IF ~ Starts(buf, PROTOCOL_VERSION["Registry"].resp) \/ ~ data.ok THEN Refused
  ELSE IF data.val[1] = ErrorCode
  THEN Accept("ERROR", ErrorNamed(T.errors, Reverse(SubSeq(data.val, 2, 3))), After(buf, data.pos))
  ELSE Switch(T.responses, Named(T.registry, data.val[1], DOMAIN T.responses), data.val,
              After(buf, data.pos))
readRegistryResponse(T, buf) == RegistryResponse(T, buf, Framed(buf))

RegistryRequest(T, buf, data) ==
  IF ~ Starts(buf, PROTOCOL_VERSION["Registry"].req) \/ ~ data.ok THEN Refused
  ELSE Switch(T.proxied, Named(T.registry, data.val[1], DOMAIN T.proxied), data.val,
              After(buf, data.pos))
readRegistryRequest(T, buf) == RegistryRequest(T, buf, Framed(buf))

\* a message on a connection without lengths ends where its unpacking does
ResultFrom(k, buf, r) == Result(k, r, After(buf, r.pos))

readBlocksRequest(T, buf) ==
  IF Len(buf) < 13 \/ ~ Starts(buf, PROTOCOL_VERSION["Blocks"].req) THEN Refused
  ELSE LET K == Named(T.blocks, buf[13], DOMAIN T.stored)
           k == CHOOSE k \in K : TRUE
       IN IF K = {} THEN Refused
          ELSE ResultFrom(k, buf, UnpackSteps(T.stored[k].steps, buf, 13, <<>>))

BlocksError(T, buf, e) ==
  IF e.ok THEN Accept("ERROR", ErrorNamed(T.errors, e.val), After(buf, e.pos)) ELSE Refused

readBlocksResponse(T, kind, buf) ==
  IF Len(buf) < 5 \/ ~ Starts(buf, PROTOCOL_VERSION["Blocks"].resp) THEN Refused
  ELSE IF buf[5] = ErrorCode THEN BlocksError(T, buf, UnpackScalar(2, buf, 5))
  ELSE IF buf[5] # T.types["Blocks"][kind].resp.pack.kind THEN Refused
  ELSE ResultFrom(kind, buf, UnpackSteps(T.types["Blocks"][kind].resp.unpack.steps, buf, 5, <<>>))

ContainerError(T, e) == IF e.ok THEN Got(e.pos, Failure(ErrorNamed(T.cppErrors, e.val))) ELSE Short
Contained(k, r) == IF r.ok THEN Got(r.pos, Content(k, r.val)) ELSE Short
ContainerOf(T, p, side, buf, code) ==
  IF ~ code.ok THEN Short
  ELSE IF side = "resp" /\ code.val[1] = ErrorCode
  THEN ContainerError(T, unpackScalar(2, buf, code.pos))
  ELSE LET K == Named(T.cppKinds[p], code.val[1], DOMAIN T.cppUnpack[p][side])
           k == CHOOSE k \in K : TRUE
       IN IF K = {} THEN Short
          ELSE Contained(k, unpackSteps(T.cppUnpack[p][side][k].steps, buf, code.pos, <<>>))
Container_unpack(T, p, side, buf, pos) == ContainerOf(T, p, side, buf, unpackScalar(1, buf, pos))

\* ProtocolMessage::unpack; what follows the body is the caller's business
ProtocolMessage_unpack(T, p, side, buf) ==
  IF Len(buf) < 12 \/ ~ Starts(buf, CPP_PROTOCOL_VERSION[p][side]) THEN Short
  ELSE Container_unpack(T, p, side, buf, 12)

Unwrapped(r, rest) == IF r.ok THEN Accept(r.val.kind, r.val.val, rest) ELSE Refused

UnsignedMessage_unpack(T, p, side, buf) ==
  Unwrapped(Entire(buf, ProtocolMessage_unpack(T, p, side, buf)), <<>>)

Verified(buf, r) ==
  IF r.ok /\ r.pos + 8 = Len(buf)
     /\ SubSeq(buf, r.pos + 1, Len(buf)) = cbcmac(SubSeq(buf, 1, r.pos)) THEN r ELSE Short
SignedProtocolMessage_unpack(T, p, side, buf) ==
  Unwrapped(Verified(buf, ProtocolMessage_unpack(T, p, side, buf)), <<>>)

\* a client that sends nothing more is dropped once it hangs up
ClientRequest(T, buf, data) ==
  IF ~ data.ok \/ data.val = <<>> THEN Refused
  ELSE Unwrapped(Entire(data.val, Container_unpack(T, "Registry", "req", data.val, 0)),
                 After(buf, data.pos))
readClient(T, buf) ==
  IF ~ Starts(buf, CPP_PROTOCOL_VERSION["Registry"].req) THEN Refused
  ELSE ClientRequest(T, buf, TakeCounted(buf, counted(unpackScalar(4, buf, 4))))

-----------------------------------------------------------------------------
(* The registry proxy (go/ternregistryproxy): what it asks the registry    *)
(* for a request it got, and what it answers once the registry has.        *)

handleRequestParsed(m) ==
  CASE m.kind = "LOCAL_CHANGED_BLOCK_SERVICES" ->
         Content("CHANGED_BLOCK_SERVICES_AT_LOCATION",
                 [f \in {"LocationId", "ChangedSince"} |->
                    IF f = "LocationId" THEN Location ELSE m.val["ChangedSince"]])
    [] m.kind = "LOCAL_SHARDS" -> Content("SHARDS_AT_LOCATION", [f \in {"LocationId"} |-> Location])
    [] m.kind = "LOCAL_CDC" -> Content("CDC_AT_LOCATION", [f \in {"LocationId"} |-> Location])
    [] m.kind = "LOCAL_SHARD_REPLICAS" -> Content("ALL_SHARDS", [f \in {"MinKnownReplicas", "Location", "ShardId"} |-> <<0>>])
    [] OTHER -> m

\* Mutant: the registry's answer is passed on as it is.
proxyResponse_unconverted(kind, m) == m

\* what handleLocalChangedBlockServices, handleLocalShards, handleLocalCdc and handleLocalShardReplicas return
proxyResponse(kind, m) ==
  CASE kind = "LOCAL_CHANGED_BLOCK_SERVICES" ->
         Content(kind, [f \in {"LastChange", "BlockServices"} |-> m.val[f]])
    [] kind = "LOCAL_SHARDS" -> Content(kind, [f \in {"Shards"} |-> m.val[f]])
    [] kind = "LOCAL_CDC" -> Content(kind, [f \in {"Addrs", "LastSeen"} |-> m.val[f]])
    [] kind = "LOCAL_SHARD_REPLICAS" ->
         Content(kind, [f \in {"Shards"} |-> SelectSeq(m.val[f], LAMBDA sh : sh["LocationId"] = Location)])
    [] OTHER -> m

-----------------------------------------------------------------------------

NoMessage == Content("", <<>>)
Stream == call.proto \in {"Registry", "Blocks"}

WireInit ==
  /\ stage = "idle" /\ hop = "direct" /\ call = [proto |-> "", kind |-> "", val |-> <<>>]
  /\ sent = NoMessage /\ packet = <<>> /\ state = "whole" /\ received = Refused /\ told = NoMessage

SendRequest(T, p, m) ==
  CASE p \in {"Shard", "CDC"} -> processRequests(T, p, m)
    [] p = "Registry" -> writeRegistryRequest(T, m)
    [] p = "Blocks" -> writeBlocksRequest(T, m)
    [] p = "Log" -> SignedProtocolMessage_pack(T, p, "req", m)

SendResponse(T, p, h, m) ==
  CASE p \in {"Shard", "CDC"} -> ProtocolMessage_pack(T, p, "resp", m)
    [] p = "Registry" /\ h = "proxy" -> IF IsFailure(m) THEN writeRegistryResponseError(T, m) ELSE writeRegistryResponse(T, m)
    [] p = "Registry" /\ h # "proxy" -> sendResponse(T, m)
    [] p = "Blocks" -> IF IsFailure(m) THEN writeBlocksResponseError(T, m) ELSE writeBlocksResponse(T, m)
    [] p = "Log" -> SignedProtocolMessage_pack(T, p, "resp", m)

ReadRequest(T, p, h, buf) ==
  CASE p \in {"Shard", "CDC"} -> UnsignedMessage_unpack(T, p, "req", buf)
    [] p = "Registry" -> IF h = "proxy" THEN readRegistryRequest(T, buf) ELSE readClient(T, buf)
    [] p = "Blocks" -> readBlocksRequest(T, buf)
    [] p = "Log" -> SignedProtocolMessage_unpack(T, p, "req", buf)

ReadResponse(T, p, kind, buf) ==
  CASE p \in {"Shard", "CDC"} -> parseResponse(T, p, kind, buf)
    [] p = "Registry" -> readRegistryResponse(T, buf)
    [] p = "Blocks" -> readBlocksResponse(T, kind, buf)
    [] p = "Log" -> SignedProtocolMessage_unpack(T, p, "resp", buf)

\* message m goes out as the bytes b; one that does not pack is not sent at all
Out(m, b, ph) ==
  /\ sent' = m /\ state' = "whole" /\ received' = Refused
  /\ IF b.ok THEN packet' = b.out /\ stage' = ph ELSE packet' = <<>> /\ stage' = "done"

Request(T) ==
  /\ stage = "idle"
  /\ \E p \in Protocols, h \in {"direct", "proxy"} : \E k \in DOMAIN T.types[p] :
     \E v \in IF p = "Log" THEN CppValues(T.types[p][k].req.type) ELSE Values(T.types[p][k].req.type) :
       /\ h = "proxy" => p = "Registry"
       /\ call' = [proto |-> p, kind |-> k, val |-> IF h = "proxy" THEN v ELSE <<>>]
       /\ hop' = h
       /\ Out(Content(k, v), SendRequest(T, p, Content(k, v)), "request")
  /\ UNCHANGED told

\* a datagram longer than the buffer that receives it, or a connection that breaks
CutShort ==
  /\ stage \in {"request", "response"} /\ state = "whole"
  /\ \E n \in 0..(Len(packet) - 1) :
       /\ Len(packet) <= MaxCutLength \/ n \in {0, 12, Len(packet) \div 2, Len(packet) - 1}
       /\ packet' = SubSeq(packet, 1, n)
  /\ state' = "cut"
  /\ UNCHANGED <<stage, hop, call, sent, received, told>>

\* on a connection, the next request or the data of a block may be there already
More ==
  /\ stage \in {"request", "response"} /\ state = "whole" /\ Stream
  /\ packet' = packet \o Following /\ state' = "followed"
  /\ UNCHANGED <<stage, hop, call, sent, received, told>>

Serve(T) ==
  /\ stage = "request" /\ stage' = "serving"
  /\ received' = ReadRequest(T, call.proto, hop, packet)
  /\ UNCHANGED <<hop, call, sent, packet, state, told>>

\* the errors a server of each language can name
Failures(T, p) == IF p = "Blocks" THEN DOMAIN T.errors ELSE DOMAIN T.cppErrors
Answers(T, p, k) ==
  {Content(k, v) : v \in IF p = "Blocks" THEN Values(T.types[p][k].resp.type) ELSE CppValues(T.types[p][k].resp.type)}
  \cup {Failure(e) : e \in Failures(T, p)}

Answer(T) ==
  /\ stage = "serving" /\ received.ok /\ hop # "proxy"
  /\ \E m \in Answers(T, call.proto, received.kind) :
       /\ told' = m
       /\ Out(m, SendResponse(T, call.proto, hop, m), "response")
  /\ call' = [call EXCEPT !.val = <<>>]
  /\ UNCHANGED hop

\* the proxy answers a REGISTRY request itself, with its own addresses
handleRegistry(T) ==
  /\ stage = "serving" /\ received.ok /\ hop = "proxy" /\ received.kind = "REGISTRY"
  /\ \E v \in Values(RegistryResp) :
       /\ told' = Content("REGISTRY", v)
       /\ Out(told', SendResponse(T, "Registry", hop, told'), "response")
  /\ call' = [call EXCEPT !.val = <<>>]
  /\ UNCHANGED hop

handleProxyRequest(T) ==
  /\ stage = "serving" /\ received.ok /\ hop = "proxy" /\ received.kind # "REGISTRY"
  /\ LET m == handleRequestParsed(Content(received.kind, received.val)) IN Out(m, writeRegistryRequest(T, m), "request")
  /\ hop' = "upstream"
  /\ UNCHANGED <<call, told>>

\* the proxy reports a request it cannot read, or an answer it did not get; the others drop the request
Drop(T) ==
  /\ stage = "serving" /\ ~ received.ok
  /\ IF hop = "direct" \/ (hop = "proxy" /\ state = "cut")
     THEN stage' = "done" /\ UNCHANGED <<hop, sent, packet, state, received, told>>
     ELSE /\ told' = Failure("INTERNAL_ERROR") /\ hop' = "proxy"
          /\ Out(told', writeRegistryResponseError(T, told'), "response")
  /\ call' = [call EXCEPT !.val = <<>>]

Receive(T) ==
  /\ stage = "response" /\ stage' = IF hop = "upstream" THEN "relay" ELSE "done"
  /\ received' = ReadResponse(T, call.proto, call.kind, packet)
  /\ UNCHANGED <<hop, call, sent, packet, state, told>>

Relay(T) ==
  /\ stage = "relay" /\ hop' = "proxy"
  /\ LET m == IF ~ received.ok THEN Failure("INTERNAL_ERROR")
             ELSE IF received.kind = "ERROR" THEN Failure(received.val)
             ELSE proxyResponse(call.kind, Content(received.kind, received.val))
     IN /\ Out(m, SendResponse(T, "Registry", "proxy", m), "response")
        /\ told' = IF received.ok THEN told ELSE m
  /\ UNCHANGED call

NextCall ==
  /\ stage = "done"
  /\ stage' = "idle" /\ hop' = "direct" /\ call' = [proto |-> "", kind |-> "", val |-> <<>>]
  /\ sent' = NoMessage /\ packet' = <<>> /\ state' = "whole" /\ received' = Refused /\ told' = NoMessage

WireNext ==
  \E T \in {MessageTables} :
    \/ Request(T) \/ CutShort \/ More \/ Serve(T) \/ Answer(T) \/ handleRegistry(T)
    \/ handleProxyRequest(T) \/ Drop(T) \/ Receive(T) \/ Relay(T) \/ NextCall

WireSpec == WireInit /\ [][WireNext]_wireVars

-----------------------------------------------------------------------------

\* The state is well formed: every message is of a kind of some protocol, and what is on
\* the wire is bytes.
MessageKinds == {"", "ERROR"} \cup UNION {DOMAIN MessageTables.types[p] : p \in Protocols}
WireTypeOK ==
  /\ stage \in {"idle", "request", "serving", "response", "relay", "done"}
  /\ hop \in {"direct", "proxy", "upstream"} /\ state \in {"whole", "cut", "followed"}
  /\ {call.kind, sent.kind, received.kind, told.kind} \subseteq MessageKinds
  /\ \A i \in DOMAIN packet : packet[i] \in 0..255

HasRead == stage \in {"serving", "relay"} \/ (stage = "done" /\ packet # <<>>)
\* the proxy's switch knows nothing of these
NotProxied == {"SET_BLOCK_SERVICE_HAS_FILES", "UPDATE_BLOCK_SERVICE_PATH", "REGISTER_REGISTRY",
               "ALL_REGISTRY_REPLICAS_DE_PR_EC_AT_ED"}

\* What one process packs another unpacks to the same message, whichever of the two
\* languages each is written in: same kind, same fields, same error.  The bytes that
\* follow it on a connection are still there for the next read.  A message
\* that arrives short is never taken for a whole one, by any of the readers.
Faithful ==
  /\ HasRead /\ state # "cut" =>
       \/ hop = "proxy" /\ stage = "serving" /\ sent.kind \in NotProxied /\ ~ received.ok
       \/ received = Accept(sent.kind, sent.val, IF state = "followed" THEN Following ELSE <<>>)
  /\ HasRead /\ state = "cut" => ~ received.ok

\* Through the proxy, a request about the client's own location reaches the registry
\* as one about the location of the proxy, with what the client asked for.
AsksLocally ==
  stage = "serving" /\ hop = "upstream" /\ received.ok =>
    /\ call.kind \in {"LOCAL_SHARDS", "LOCAL_CDC", "LOCAL_CHANGED_BLOCK_SERVICES"} =>
         "LocationId" \in DOMAIN received.val /\ received.val["LocationId"] = Location
    /\ call.kind = "LOCAL_SHARD_REPLICAS" => received.kind = "ALL_SHARDS" /\ received.val["MinKnownReplicas"] = <<0>>
    /\ call.kind = "LOCAL_CHANGED_BLOCK_SERVICES" => received.val["ChangedSince"] = call.val["ChangedSince"]
    /\ call.kind \notin {"LOCAL_SHARDS", "LOCAL_CDC", "LOCAL_CHANGED_BLOCK_SERVICES", "LOCAL_SHARD_REPLICAS"} =>
         received.kind = call.kind /\ received.val = call.val

Fits(type, v) == DOMAIN v = {type.fields[i] : i \in {i \in 1..Len(type.fields) : i % 2 = 1}}

Answered ==
  stage = "done" /\ received.ok /\ packet # <<>> /\ told # NoMessage =>
    \/ received.kind = "ERROR" /\ told = Failure(received.val)
    \/ /\ received.kind = call.kind
       /\ Fits(MessageTables.types[call.proto][call.kind].resp.type, received.val)
       /\ \A f \in DOMAIN received.val :
            IF call.kind = "LOCAL_SHARD_REPLICAS" /\ hop = "proxy"
            THEN /\ \A i \in DOMAIN received.val[f] : received.val[f][i]["LocationId"] = Location
                 /\ \A i \in DOMAIN told.val[f] :
                      told.val[f][i]["LocationId"] = Location => \E j \in DOMAIN received.val[f] : received.val[f][j] = told.val[f][i]
            ELSE received.val[f] = told.val[f]

\* A client that gets an answer gets an answer to its own request: of the kind it asked
\* for, with the fields its response type has, all that the registry told of them (of
\* the shard replicas, those at the proxy's location); and an error arrives as the same
\* error.  And what the proxy asked for it is what the client wanted, at the
\* proxy's location.
AnswerFits == AsksLocally /\ Answered
=============================================================================
