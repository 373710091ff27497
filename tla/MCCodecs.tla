------------------------------ MODULE MCCodecs ------------------------------
(***************************************************************************)
(* The exchanges of XDR (NFS clients and nfsd) and of Wire (the processes  *)
(* of TernFS), on small instances: one exchange of either kind at a time.  *)
(***************************************************************************)
EXTENDS XDR, Wire

\* A trailing fixed structure (or the elements of a list of enums) has an
\* accessor and no method of the writer, or the other way round; FfIostats4
\* contains one of them.
MCPartial ==
    {"NfsImplId4", "Fs4Status", "WriteResponse4", "GETDIRDELEGATION4args", "TESTSTATEID4resok",
     "COPY4resok", "OFFLOADSTATUS4resok", "FfLayoutupdate4", "LayoutrecallFile4",
     "CBOFFLOAD4args", "FfIostats4"}

\* The decoder records an offset before it aligns.
MCEven == {"AuthsysParms", "CopyConfirmAuthPriv", "FsLocationsServer4", "EXCHANGEID4resok"}

\* A list whose count is written with its first element is not the last field.
MCPeopled == {"CopyToAuthPriv", "SsvSpParms4"}

MCKinds == DOMAIN Writers \ MCPartial

MCProtocols == {"Shard", "CDC", "Registry", "Blocks", "Log"}

\* The location of the first shard in an example of AllShardsResp.
MCLocation == ExampleOf(AllShardsResp, 2, 3)["Shards"][1]["LocationId"]

MCFollowing == <<0, 1, 255, 7, 7>>

CodecsInit == Init /\ WireInit

CodecsNext ==
    \/ stage = "idle" /\ Next /\ UNCHANGED wireVars
    \/ phase = "idle" /\ WireNext /\ UNCHANGED vars

CodecsSpec == CodecsInit /\ [][CodecsNext]_<<vars, wireVars>>
=============================================================================
