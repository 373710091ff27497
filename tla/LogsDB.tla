------------------------------- MODULE LogsDB -------------------------------
(***************************************************************************)
(* The replicated log under a shard, the CDC and the registry: a leader    *)
(* appends entries, releases those a majority stores, and a new leader     *)
(* recovers what its predecessor may have released.                        *)
(*                                                                         *)
(* A replica is a record, and what the code does to it is an operator on   *)
(* that record.  An action is one turn of the loop of a replica: at most   *)
(* one message, then the calls at the end of processIncomingMessages.      *)
(* Messages are UDP packets: a request that is not answered is sent again, *)
(* so that it may arrive at any time while its sender waits for an answer, *)
(* once, many times or never, and a copy may arrive later still.           *)
(***************************************************************************)
EXTENDS Integers, Sequences, FiniteSets, FiniteSetsExt, Functions, SequencesExt, TLC

CONSTANTS
  Replicas,      \* REPLICA_COUNT replica ids, numbers below 8
  FirstLeader,   \* the leader in the initial state
  Base,          \* how many entries everybody has and has read initially
  Window,        \* IN_FLIGHT_APPEND_WINDOW
  None,
\* The environment.
  Gaps,          \* whether a write may arrive before the write of the preceding entry
  LateTypes,     \* the requests that may arrive after their sender gave them up
  Overlap,       \* whether an election may start while there is a live leader or nominee
  \* Bounds.
  MaxAppends, MaxElections, MaxCrashes, MaxLate

ASSUME ReplicasAssumption == Replicas \subseteq 0..7 /\ FirstLeader \in Replicas

VARIABLES
  node,       \* the replicas
  late,       \* copies of requests that may arrive after their sender gave them up
  responses,  \* the responses that may still be of use
  appended,   \* how many entries were handed to appendEntries so far
  crashes

vars == <<node, late, responses, appended, crashes>>

Idx == 1 .. Base + MaxAppends

-----------------------------------------------------------------------------
(* LeaderToken: the replica id in the three low bits of the epoch. *)

Token(r, epoch) == 8 * epoch + r
ReplicaOf(t)    == t % 8
EpochOf(t)      == t \div 8

(* ReqResp.  A QuorumTrackArray holds for every replica the id of a request *)
(* ("waiting"), CONFIRMED_REQ_ID or UNUSED_REQ_ID.                          *)

isQuorum(track) ==
  Cardinality({r \in Replicas : track[r] = "confirmed"}) > Cardinality(Replicas) \div 2

cleanupRequests(track) ==
  [r \in Replicas |-> IF track[r] = "waiting" THEN "unused" ELSE track[r]]

NobodyAsked == [r \in Replicas |-> "confirmed"]

EverybodyAsked(me) == [r \in Replicas |-> IF r = me THEN "confirmed" ELSE "waiting"]

\* The replicas that take part in an election are the ones that answered NEW_LEADER.
ParticipantsAsked(me, participants) ==
  [r \in Replicas |-> IF r = me THEN "confirmed"
                      ELSE IF participants[r] = "confirmed" THEN "waiting" ELSE "unused"]

(* DataPartitions: an iterator is set to the first key that is not below idx, *)
(* which is idx itself only if that entry is there, and moves on once.        *)

\* Mutant: the iterator does not move on.
From(log, idx) == {i \in DOMAIN log : idx <= i}

After(log, idx) == {i \in DOMAIN log : \E j \in DOMAIN log : idx <= j /\ j < i}

dropEntriesAfterIdx(log, idx) == Restrict(log, DOMAIN log \ After(log, idx))

(* LogMetadata. *)

\* A failed ALWAYS_ASSERT ends the process.
abort(n) == [n EXCEPT !.up = FALSE, !.aborted = TRUE]

setLastReleased(n, idx) ==
  IF idx < n.lastReleased THEN abort(n) ELSE [n EXCEPT !.lastReleased = idx]

preempted(n, token) == token < n.leaderToken \/ token < n.nomineeToken

\* Mutant: the index of the last assigned entry is not reset.
updateLeaderTokenOnly(n, token) ==
  IF token = n.leaderToken \/ ~n.up THEN n
  ELSE [n EXCEPT !.log = dropEntriesAfterIdx(@, n.lastReleased),
                 !.leaderToken = token, !.nomineeToken = 0]

\* Mutant: a replica that was not part of the election keeps what it has.
updateLeaderTokenKeep(n, token) ==
  IF token = n.leaderToken \/ ~n.up THEN n
  ELSE [n EXCEPT !.lastAssigned = IF ReplicaOf(token) = n.id THEN n.lastReleased ELSE @,
                 !.leaderToken = token, !.nomineeToken = 0]

\* updateLeaderToken for a token that is not preempted.
updateLeaderToken(n, token) ==
  IF token = n.leaderToken \/ ~n.up THEN n
  ELSE [n EXCEPT !.log = dropEntriesAfterIdx(@, n.lastReleased),
                 !.lastAssigned = IF ReplicaOf(token) = n.id THEN n.lastReleased ELSE @,
                 !.leaderToken = token,
                 !.nomineeToken = 0]

setNomineeToken(n, token) ==
  [n EXCEPT !.log = IF EpochOf(n.leaderToken) + 1 < EpochOf(token)
                      THEN dropEntriesAfterIdx(@, n.lastReleased) ELSE @,
            !.nomineeToken = token]

-----------------------------------------------------------------------------
(* LeaderElection: the nominee. *)

clearElectionState(n) == [n EXCEPT !.election = None]

resetLeaderElection(n) ==
  clearElectionState([setNomineeToken(n, 0) EXCEPT !.state = "FOLLOWER"])

\* maybeStartLeaderElection, once the leader has been silent for long enough.
startLeaderElection(n) ==
  [setNomineeToken(n, Token(n.id, EpochOf(n.leaderToken) + 1)) EXCEPT
     !.state    = "BECOMING_NOMINEE",
     !.rounds   = @ + 1,
     !.election = [requestIds       |-> EverybodyAsked(n.id),
                   lastReleased     |-> n.lastReleased,
                   recoveryEntries  |-> [i \in 1..Window |-> None],
                   recoveryRequests |-> [i \in 1..Window |-> NobodyAsked]]]

tryProgressToDigest(n) ==
  LET e     == n.election
      ids   == cleanupRequests(e.requestIds)
      own   == After(n.log, e.lastReleased)
      found == [i \in 1..Window |-> IF e.lastReleased + i \in own
                                      THEN n.log[e.lastReleased + i] ELSE None]
  IN IF ~isQuorum(e.requestIds) THEN n
     ELSE [setLastReleased(n, e.lastReleased) EXCEPT
             !.up       = @ /\ Cardinality(own) <= Window,
             !.aborted  = @ \/ Cardinality(own) > Window,
             !.state    = "DIGESTING_ENTRIES",
             !.election = [e EXCEPT
               !.requestIds       = ids,
               !.recoveryEntries  = found,
               !.recoveryRequests = [i \in 1..Window |->
                 IF found[i] = None THEN ParticipantsAsked(n.id, ids) ELSE NobodyAsked]]]

\* Mutant: the last entry before the hole is left out.
RecoveredButLast(e) == {i \in 1..Window : \A j \in 1..Window : j <= i + 1 => e.recoveryEntries[j] # None}

\* The recovered entries up to the first hole.
Recovered(e) == {i \in 1..Window : \A j \in 1..i : e.recoveryEntries[j] # None}

tryProgressToLeaderConfirm(n) ==
  LET e        == n.election
      stored   == {i \in Recovered(e) : \A j \in 1..i : isQuorum(e.recoveryRequests[j])}
      released == setLastReleased(n, e.lastReleased + Cardinality(stored))
      cleaned  == [i \in 1..Window |-> IF i \in stored
                     THEN cleanupRequests(e.recoveryRequests[i]) ELSE e.recoveryRequests[i]]
  IN IF stored # Recovered(e)
       THEN [released EXCEPT !.election.recoveryRequests = cleaned]
       ELSE [released EXCEPT
               !.state = "CONFIRMING_LEADERSHIP",
               !.election.recoveryRequests = cleaned,
               !.election.requestIds = ParticipantsAsked(n.id, e.requestIds)]

tryProgressToReplication(n) ==
  LET e     == n.election
      holes == {i \in 1..Window : e.recoveryEntries[i] = None}
      next  == [n EXCEPT
        !.state = "CONFIRMING_REPLICATION",
        !.election.recoveryRequests = [i \in 1..Window |->
          IF i \in Recovered(e) THEN ParticipantsAsked(n.id, e.requestIds)
          ELSE cleanupRequests(e.recoveryRequests[i])],
        !.log = [i \in {e.lastReleased + j : j \in Recovered(e)} |->
                   e.recoveryEntries[i - e.lastReleased]] @@ @]
  IN IF holes # {} /\ ~isQuorum(e.recoveryRequests[Min(holes)]) THEN n
     ELSE IF Recovered(e) = {} THEN tryProgressToLeaderConfirm(next) ELSE next

tryBecomeLeader(n) ==
  CASE ~isQuorum(n.election.requestIds) -> n
    [] isQuorum(n.election.requestIds) /\ preempted(n, n.nomineeToken) -> abort(n)
    [] OTHER -> clearElectionState(
                  [updateLeaderToken(n, n.nomineeToken) EXCEPT !.state = "LEADER"])

writeLogEntries(n, token, released, entries) ==
  LET written == [clearElectionState(updateLeaderToken(n, token)) EXCEPT !.log = entries @@ @]
  IN IF written.lastReleased < released THEN setLastReleased(written, released) ELSE written

-----------------------------------------------------------------------------
(* Appender. *)

\* How many entries at the head of the window a majority has.
Stored(n) == CHOOSE k \in 0 .. Len(n.entries) :
  /\ \A i \in 1..k : isQuorum(n.entries[i].requestIds)
  /\ k < Len(n.entries) => ~isQuorum(n.entries[k + 1].requestIds)

maybeMoveRelease(n) ==
  LET k       == Stored(n)
      newly   == n.lastReleased + 1 .. n.lastReleased + k
      written == writeLogEntries(n, n.leaderToken, n.lastReleased + k,
                                 [i \in newly |-> n.entries[i - n.lastReleased].value])
  IN CASE n.state = "LEADER" /\ n.release = None ->
            [n EXCEPT !.release = [token |-> n.leaderToken, lastReleased |-> n.lastReleased]]
       [] n.state # "LEADER" -> [n EXCEPT !.release = None, !.entries = <<>>]
       [] n.state = "LEADER" /\ n.release # None /\ k = 0 -> n
       [] OTHER ->
            IF \/ preempted(n, n.leaderToken)
               \/ \E i \in newly : n.entries[i - n.lastReleased].idx # i
              THEN abort(n)
              ELSE [written EXCEPT
                      !.entries = SubSeq(@, k + 1, Len(@)),
                      !.release = [token        |-> written.leaderToken,
                                   lastReleased |-> written.lastReleased]]

CanAppend(n) == n.state = "LEADER" /\ Len(n.entries) < Window

\* appendEntries of one entry.
appendEntry(n, value) ==
  LET idx == n.lastAssigned + 1
  IN IF ReplicaOf(n.leaderToken) # n.id THEN abort(n)
     ELSE [n EXCEPT !.lastAssigned = idx,
                    !.entries = Append(@, [idx          |-> idx,
                                           value        |-> value,
                                           token        |-> n.leaderToken,
                                           lastReleased |-> n.lastReleased,
                                           requestIds   |-> EverybodyAsked(n.id)])]

(* CatchupReader.  lastRead is the length of what was read. *)

findMissingEntries(n) ==
  LET missing == (n.lastContinuous + 1 .. n.lastReleased) \ DOMAIN n.log
  IN CASE n.lastReleased <= Len(n.read) -> n
       [] n.lastReleased > Len(n.read) /\ missing = {} ->
            [n EXCEPT !.lastContinuous = n.lastReleased, !.lastMissing = n.lastReleased]
       [] OTHER -> [n EXCEPT !.missing = missing, !.lastContinuous = Min(missing) - 1,
                             !.lastMissing = Max(missing)]

maybeCatchUp(n) ==
  IF n.missing # {} THEN n
  ELSE findMissingEntries([n EXCEPT !.lastContinuous = n.lastMissing])

readEntries(n) ==
  LET new      == Len(n.read) + 1 .. n.lastContinuous
      readable == {i \in new : Len(n.read) + 1 .. i \subseteq DOMAIN n.log}
  IN IF new \cap DOMAIN n.log # readable THEN abort(n)
     ELSE [n EXCEPT !.read = @ \o [i \in 1 .. Cardinality(readable) |-> n.log[Len(n.read) + i]]]

\* A process starts from what RocksDB has: the metadata, the log and what was applied.
restarted(n) ==
  findMissingEntries(
    [n EXCEPT !.up = TRUE, !.aborted = FALSE, !.state = "FOLLOWER", !.nomineeToken = 0,
              !.lastAssigned = 0, !.election = None, !.entries = <<>>, !.release = None, !.missing = {},
              !.lastContinuous = Len(n.read), !.lastMissing = Len(n.read)])

-----------------------------------------------------------------------------
(* The requests a replica keeps sending until they are answered or erased. *)

Waiting(track) == {r \in Replicas : track[r] = "waiting"}

ElectionRequest(n, type, r, body) ==
  [type |-> type, from |-> n.id, to |-> r, token |-> n.nomineeToken, round |-> n.rounds] @@ body

RecoveryRequests(n, type, body) ==
  UNION {{ElectionRequest(n, type, r, body[i]) : r \in Waiting(n.election.recoveryRequests[i])} :
           i \in 1..Window}

ElectionRequests(n) ==
  LET e    == n.election
      ask  == [i \in 1..Window |-> [idx |-> e.lastReleased + i]]
      send == [i \in 1..Window |-> [idx |-> e.lastReleased + i, value |-> e.recoveryEntries[i]]]
  IN CASE n.state = "BECOMING_NOMINEE" ->
            {ElectionRequest(n, "NEW_LEADER", r, << >>) : r \in Waiting(e.requestIds)}
       [] n.state = "DIGESTING_ENTRIES"      -> RecoveryRequests(n, "LOG_RECOVERY_READ", ask)
       [] n.state = "CONFIRMING_REPLICATION" -> RecoveryRequests(n, "LOG_RECOVERY_WRITE", send)
       [] n.state = "CONFIRMING_LEADERSHIP"  ->
            {ElectionRequest(n, "NEW_LEADER_CONFIRM", r, [releasedIdx |-> n.lastReleased]) :
               r \in Waiting(e.requestIds)}

LeaderRequest(n, type, r, x) ==
  [type |-> type, from |-> n.id, to |-> r, token |-> x.token, lastReleased |-> x.lastReleased]

LeaderRequests(n) ==
  {LeaderRequest(n, "RELEASE", r, n.release) : r \in Replicas \ {n.id}}
  \cup UNION {{LeaderRequest(n, "LOG_WRITE", r, x) @@ [idx |-> x.idx, value |-> x.value] :
                 r \in Waiting(x.requestIds)} : x \in Range(n.entries)}

Requests(n) ==
  IF ~n.up THEN {}
  ELSE (IF n.election = None THEN {} ELSE ElectionRequests(n))
       \cup (IF n.release = None THEN {} ELSE LeaderRequests(n))

\* The requests that may arrive: whatever is not answered is sent again and again.
Arriving == late \cup UNION {Requests(node[r]) : r \in Replicas}

-----------------------------------------------------------------------------
Init ==
  /\ LET token == Token(FirstLeader, 1)
         log   == [i \in 1..Base |-> 0]
     IN node = [r \in Replicas |->
          [id |-> r, up |-> TRUE, aborted |-> FALSE,
           leaderToken |-> token, nomineeToken |-> 0, lastReleased |-> Base,
           lastAssigned |-> IF r = FirstLeader THEN Base ELSE 0,
           log |-> log, read |-> log, lastContinuous |-> Base, lastMissing |-> Base,
           missing |-> {},
           state |-> IF r = FirstLeader THEN "LEADER" ELSE "FOLLOWER",
           rounds |-> 0, election |-> None, entries |-> << >>,
           release |-> IF r = FirstLeader THEN [token |-> token, lastReleased |-> Base] ELSE None]]
  /\ late = {}
  /\ responses = {}
  /\ appended = 0
  /\ crashes = 0

\* The end of a turn of r's loop that made it n and answered some requests.  Of the
\* requests that it gives up a copy may still be on its way, and a response to them is
\* ignored.
Turn(r, n, arrived, answers) ==
  LET done    == IF n.up THEN readEntries(maybeCatchUp(maybeMoveRelease(n))) ELSE n
      pending == Requests(done)
      givenUp == {m \in Requests(node[r]) \ pending : m.type \in LateTypes}
      sent    == IF done.up THEN answers ELSE {}
  IN /\ node' = [node EXCEPT ![r] = done]
     /\ responses' = {x \in responses : x.request.from = r => x.request \in pending}
                     \cup {x \in sent : x.request \in Requests(node[x.request.from])}
     /\ \E copies \in SUBSET givenUp :
          /\ late' = (late \ arrived) \cup copies
          /\ Cardinality(late') <= MaxLate

-----------------------------------------------------------------------------
(* Requests. *)

Refusal(m)       == [request |-> m, ok |-> FALSE]
Answer(m, body)  == [request |-> m, ok |-> TRUE] @@ body

\* Mutant: a nominee of the leader's epoch is accepted.
refusedOlder(n, m) ==
  CASE m.type = "NEW_LEADER" ->
         EpochOf(m.token) < EpochOf(n.leaderToken) \/ m.token < n.nomineeToken
    [] m.type \in {"LOG_RECOVERY_READ", "LOG_RECOVERY_WRITE"} -> m.token # n.nomineeToken
    [] m.type \in {"NEW_LEADER_CONFIRM", "LOG_WRITE", "RELEASE"} ->
         m.token < n.nomineeToken

refused(n, m) ==
  CASE m.type = "NEW_LEADER" ->
         EpochOf(m.token) <= EpochOf(n.leaderToken) \/ m.token < n.nomineeToken
    [] m.type \in {"LOG_RECOVERY_READ", "LOG_RECOVERY_WRITE"} -> m.token # n.nomineeToken
    [] m.type \in {"NEW_LEADER_CONFIRM", "LOG_WRITE", "RELEASE"} -> preempted(n, m.token)

\* LEADER_PREEMPTED, a RELEASE has no response.
RefuseRequest(m) ==
  /\ node[m.to].up /\ refused(node[m.to], m)
  /\ Turn(m.to, node[m.to], {m}, IF m.type = "RELEASE" THEN {} ELSE {Refusal(m)})
  /\ UNCHANGED <<appended, crashes>>

Accept(m, type, n, body) ==
  /\ m.type = type
  /\ node[m.to].up /\ ~refused(node[m.to], m)
  /\ Turn(m.to, n, {m}, IF m.type = "RELEASE" THEN {} ELSE {Answer(m, body)})
  /\ UNCHANGED <<appended, crashes>>

NewLeaderRequest(m) ==
  LET n == node[m.to]
  IN Accept(m, "NEW_LEADER",
            IF n.nomineeToken = m.token THEN n
            ELSE setNomineeToken(resetLeaderElection(n), m.token),
            [lastReleased |-> n.lastReleased])

NewLeaderConfirmRequest(m) ==
  LET n        == node[m.to]
      released == IF n.nomineeToken = m.token THEN setLastReleased(n, m.releasedIdx) ELSE n
  IN /\ m.type = "NEW_LEADER_CONFIRM"
     /\ Accept(m, "NEW_LEADER_CONFIRM",
               resetLeaderElection(updateLeaderToken(released, m.token)), << >>)

RecoveryReadRequest(m) ==
  LET n == node[m.to]
  IN /\ m.type = "LOG_RECOVERY_READ"
     /\ Accept(m, "LOG_RECOVERY_READ", n,
               [value |-> IF m.idx \in DOMAIN n.log THEN n.log[m.idx] ELSE None])

\* Whether the entry before idx is there, where entries arrive in order.
InOrder(n, idx) == Gaps \/ idx - 1 \in DOMAIN n.log

RecoveryWriteRequest(m) ==
  LET n == node[m.to]
  IN /\ m.type = "LOG_RECOVERY_WRITE"
     /\ InOrder(n, m.idx)
     /\ Accept(m, "LOG_RECOVERY_WRITE", [n EXCEPT !.log = (m.idx :> m.value) @@ @], << >>)

LogWriteRequest(m) ==
  /\ m.type = "LOG_WRITE"
  /\ LET n == writeLogEntries(node[m.to], m.token, m.lastReleased, m.idx :> m.value)
     IN InOrder(n, m.idx) /\ Accept(m, "LOG_WRITE", n, << >>)

ReleaseRequest(m) ==
  /\ m.type = "RELEASE"
  /\ Accept(m, "RELEASE", writeLogEntries(node[m.to], m.token, m.lastReleased, << >>), << >>)

-----------------------------------------------------------------------------
(* Responses. *)

Receive(x, type, n) ==
  /\ x.ok /\ x.request.type = type
  /\ Turn(x.request.from, n, {}, {})
  /\ UNCHANGED <<appended, crashes>>

PreemptedResponse(x) ==
  /\ ~x.ok
  /\ Turn(x.request.from, resetLeaderElection(node[x.request.from]), {}, {})
  /\ UNCHANGED <<appended, crashes>>

NewLeaderResponse(x) ==
  /\ x.request.type = "NEW_LEADER" /\ x.ok
  /\ Receive(x, "NEW_LEADER",
             tryProgressToDigest(
               [node[x.request.from] EXCEPT
                  !.election.requestIds[x.request.to] = "confirmed",
                  !.election.lastReleased = Max({@, x.lastReleased})]))

NewLeaderConfirmResponse(x) ==
  /\ x.request.type = "NEW_LEADER_CONFIRM"
  /\ Receive(x, "NEW_LEADER_CONFIRM",
             tryBecomeLeader([node[x.request.from] EXCEPT
                                !.election.requestIds[x.request.to] = "confirmed"]))

RecoveryReadResponse(x) ==
  /\ x.request.type = "LOG_RECOVERY_READ" /\ x.ok
  /\ LET n == node[x.request.from]
         i == x.request.idx - n.election.lastReleased
     IN Receive(x, "LOG_RECOVERY_READ", tryProgressToReplication(
          IF x.value = None
            THEN [n EXCEPT !.election.recoveryRequests[i][x.request.to] = "confirmed"]
            ELSE [n EXCEPT !.election.recoveryEntries[i] = x.value,
                           !.election.recoveryRequests[i] = cleanupRequests(@)]))

RecoveryWriteResponse(x) ==
  /\ x.request.type = "LOG_RECOVERY_WRITE"
  /\ LET n == node[x.request.from]
         i == x.request.idx - n.election.lastReleased
     IN Receive(x, "LOG_RECOVERY_WRITE", tryProgressToLeaderConfirm(
          [n EXCEPT !.election.recoveryRequests[i][x.request.to] = "confirmed"]))

LogWriteResponse(x) ==
  /\ x.request.type = "LOG_WRITE"
  /\ LET n == node[x.request.from]
         k == x.request.idx - n.lastReleased
     IN Receive(x, "LOG_WRITE",
          IF k \in 1..Len(n.entries) /\ n.entries[k].idx = x.request.idx
            THEN [n EXCEPT !.entries[k].requestIds[x.request.to] = "confirmed"]
            ELSE abort(n))

\* A LOG_READ and its response.
CatchUp(r, s, idx) ==
  /\ node[r].up /\ node[s].up
  /\ idx \in node[r].missing
  /\ idx <= node[s].lastReleased /\ idx \in DOMAIN node[s].log
  /\ Turn(r, [node[r] EXCEPT !.missing = @ \ {idx}, !.log = (idx :> node[s].log[idx]) @@ @], {}, {})
  /\ UNCHANGED <<appended, crashes>>

-----------------------------------------------------------------------------
StartElection(r) ==
  /\ node[r].up /\ node[r].state = "FOLLOWER"
  /\ Overlap \/ \A s \in Replicas : node[s].up => node[s].state = "FOLLOWER"
  /\ MapThenSumSet(LAMBDA s : node[s].rounds, Replicas) < MaxElections
  /\ Turn(r, startLeaderElection(node[r]), {}, {})
  /\ UNCHANGED <<appended, crashes>>

AppendEntry(r) ==
  /\ node[r].up /\ CanAppend(node[r])
  /\ appended < MaxAppends
  /\ appended' = appended + 1
  /\ Turn(r, appendEntry(node[r], appended + 1), {}, {})
  /\ UNCHANGED crashes

Crash(r) ==
  /\ node[r].up
  /\ crashes < MaxCrashes
  /\ crashes' = crashes + 1
  /\ Turn(r, [node[r] EXCEPT !.up = FALSE], {}, {})
  /\ UNCHANGED appended

Restart(r) ==
  /\ ~node[r].up
  /\ Turn(r, restarted(node[r]), {}, {})
  /\ UNCHANGED <<appended, crashes>>

Next ==
  \/ \E m \in Arriving :
       \/ RefuseRequest(m) \/ NewLeaderRequest(m) \/ NewLeaderConfirmRequest(m)
       \/ RecoveryReadRequest(m) \/ RecoveryWriteRequest(m)
       \/ LogWriteRequest(m) \/ ReleaseRequest(m)
  \/ \E x \in responses :
       \/ PreemptedResponse(x) \/ NewLeaderResponse(x) \/ NewLeaderConfirmResponse(x)
       \/ RecoveryReadResponse(x) \/ RecoveryWriteResponse(x) \/ LogWriteResponse(x)
  \/ \E r \in Replicas : StartElection(r) \/ AppendEntry(r) \/ Crash(r) \/ Restart(r)
  \/ \E r, s \in Replicas, idx \in Idx : CatchUp(r, s, idx)

Spec == Init /\ [][Next]_vars

-----------------------------------------------------------------------------
Tracks  == [Replicas -> {"confirmed", "waiting", "unused"}]
Tokens  == {Token(r, e) : r \in Replicas, e \in 1 .. MaxElections + 1}

TypeOK ==
  /\ \A r \in Replicas :
       LET n == node[r]
       IN /\ n.id = r /\ n.up \in BOOLEAN /\ n.aborted \in BOOLEAN
          /\ n.state \in {"FOLLOWER", "BECOMING_NOMINEE", "DIGESTING_ENTRIES",
                          "CONFIRMING_REPLICATION", "CONFIRMING_LEADERSHIP", "LEADER"}
          /\ n.leaderToken \in Tokens /\ n.nomineeToken \in Tokens \cup {0}
          /\ DOMAIN n.log \subseteq Idx /\ Range(n.log) \subseteq 0..MaxAppends
          /\ n.lastReleased \in Idx /\ n.lastAssigned \in {0} \cup Idx
          /\ Len(n.read) <= n.lastContinuous /\ n.lastContinuous <= n.lastReleased
          /\ n.missing \subseteq n.lastContinuous + 1 .. n.lastMissing
          /\ Len(n.entries) <= Window
          /\ n.election # None => n.election.requestIds \in Tracks
  /\ Cardinality(late) <= MaxLate /\ appended \in 0..MaxAppends /\ crashes \in 0..MaxCrashes

\* What two replicas hand to their state machines agrees: the same entry at every index
\* both have reached (readEntries).
ReadersAgree ==
  \A r, s \in Replicas : IsPrefix(node[r].read, node[s].read) \/ IsPrefix(node[s].read, node[r].read)

\* No two replicas lead the same epoch, each with its own token.
OneLeaderPerEpoch ==
  \A r, s \in Replicas :
    /\ node[r].state = "LEADER" /\ ReplicaOf(node[r].leaderToken) = r
    /\ node[s].state = "LEADER" /\ ReplicaOf(node[s].leaderToken) = s
    /\ EpochOf(node[r].leaderToken) = EpochOf(node[s].leaderToken)
    => r = s

\* What was released is not lost.  The latest leader has released whatever was read
\* somewhere, so it never assigns the index of such an entry again; and an entry that some
\* replica knows to be released is stored by one that answers a LOG_READ for it, so that
\* the others can catch up.
ReleasedSurvives ==
  /\ \A r, s \in Replicas :
       /\ node[r].up /\ node[r].state = "LEADER"
       /\ \A q \in Replicas : node[q].leaderToken <= node[r].leaderToken
       => Len(node[s].read) <= node[r].lastReleased
  /\ \A r \in Replicas : \A i \in 1 .. node[r].lastReleased :
       \E s \in Replicas : i <= node[s].lastReleased /\ i \in DOMAIN node[s].log

\* No ALWAYS_ASSERT of LogsDB ends a replica: the release point never moves back, a
\* leader's next index lies behind everything it has, what it releases it can read.
NoReplicaAborts == \A r \in Replicas : ~node[r].aborted

\* An entry that a replica stores and has released is neither overwritten nor dropped.
ReleasedIsFinal ==
  [][\A r \in Replicas : \A i \in DOMAIN node[r].log :
       i <= node[r].lastReleased =>
         i \in DOMAIN node'[r].log /\ node'[r].log[i] = node[r].log[i]]_vars

=============================================================================
