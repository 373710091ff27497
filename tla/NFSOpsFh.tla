------------------------------ MODULE NFSOpsFh ------------------------------
(***************************************************************************)
(* The arguments and results of the operations of NFS version 4.0, from    *)
(* PUTFH to ILLEGAL, and the callback security parameters. Each type of    *)
(* the generated file has its decoder, its accessors and its writer, in    *)
(* the order of the file.                                                  *)
(***************************************************************************)
EXTENDS XDRSteps

PUTFH4args ==
    [read |-> <<Sub("NfsFh4")>>,
     get |-> [Object |-> Cast("NfsFh4", At(0, 0), End)],
     write |-> Writer(0, <<Child("Object", "NfsFh4")>>)]

PUTFH4res == NumberOnly("Status", 4)

PUTPUBFH4res == NumberOnly("Status", 4)

PUTROOTFH4res == NumberOnly("Status", 4)

READ4args ==
    [read |-> <<Take(28)>>,
     get |-> [Stateid |-> Struct("Stateid4", At(0, 0)), Offset |-> Num(At(0, 16), 8),
         Count |-> Num(At(0, 24), 4)],
     write |-> Writer(28, <<Put("Offset", 16, 8), Put("Count", 24, 4),
         PutIn("Stateid", "Stateid4", 0)>>)]

READ4resok ==
    [read |-> <<TakePadded(8, 4)>>,
     get |-> [Eof |-> Num(At(0, 0), 4), DataLen |-> LenOf("Data", At(0, 4)),
         Data |-> Data(At(0, 4), At(0, 8))],
     write |-> Writer(8, <<Put("Eof", 0, 4), Pad("Data"), Patch("Data", 4)>>)]

READ4res ==
    [read |-> Union([NFS4_OK |-> "READ4resok"], "Void"),
     get |-> [NFS4_OK |-> As("READ4resok")]]

READDIR4args ==
    [read |-> <<Take(24), Sub("Bitmap4")>>,
     get |-> [Cookie |-> Num(At(0, 0), 8), Cookieverf |-> Struct("Verifier4", At(0, 8)),
         Dircount |-> Num(At(0, 16), 4), Maxcount |-> Num(At(0, 20), 4),
         AttrRequest |-> Cast("Bitmap4", At(0, 24), End)],
     write |-> Writer(24, <<Put("Cookie", 0, 8), PutIn("Cookieverf", "Verifier4", 8),
         Put("Dircount", 16, 4), Put("Maxcount", 20, 4), Child("AttrRequest", "Bitmap4")>>)]

Entry4Opt ==
    [read |-> Union([XDR_TRUE |-> "Entry4"], "Void"),
     get |-> [XDR_TRUE |-> AsRead("Entry4")]]

Entry4 ==
    [read |-> <<Take(8), Sub("Component4"), Mark, Sub("Fattr4"), Mark, TakeCount(4, 0),
         SubArmHere("Entry4Opt")>>,
     get |-> [Cookie |-> Num(At(0, 0), 8), Name |-> Cast("Component4", At(0, 8), At(1, 0)),
         Attrs |-> Reread("Fattr4", At(1, 0), At(2, 0)), NextentryPresent |-> Num(At(2, 0), 4),
         Nextentry |-> Arm("Entry4Opt", At(2, 4), End, At(2, 0))],
     write |-> Writer(8, <<Put("Cookie", 0, 8), In(0, Child("Name", "Component4")),
         In(1, Child("Attrs", "Fattr4")), In(2, Choice("Nextentry", [XDR_TRUE |-> Inline("Entry4", 8),
         Default |-> Void]))>>)]

Dirlist4 ==
    [read |-> <<Take(4), SubArm("Entry4Opt", 0), Mark, Take(4)>>,
     get |-> [EntriesPresent |-> Num(At(0, 0), 4),
         Entries |-> Arm("Entry4Opt", At(0, 4), At(1, 0), At(0, 0)), Eof |-> Num(At(1, 0), 4)],
     write |-> Writer(4, <<Put("EntriesPresent", 0, 4),
         ChoiceAt("Entries", 0, [XDR_TRUE |-> Inline("Entry4", 8), Default |-> Void]), App("Eof", 4)>>)]

READDIR4resok ==
    [read |-> <<Take(8), Sub("Dirlist4")>>,
     get |-> [Cookieverf |-> Struct("Verifier4", At(0, 0)), Reply |-> Reread("Dirlist4", At(0, 8), End)],
     write |-> Writer(8, <<PutIn("Cookieverf", "Verifier4", 0), Child("Reply", "Dirlist4")>>)]

READDIR4res ==
    [read |-> Union([NFS4_OK |-> "READDIR4resok"], "Void"),
     get |-> [NFS4_OK |-> As("READDIR4resok")]]

READLINK4resok ==
    [read |-> <<Sub("Linktext4")>>,
     get |-> [Link |-> Cast("Linktext4", At(0, 0), End)],
     write |-> Writer(0, <<Child("Link", "Linktext4")>>)]

READLINK4res ==
    [read |-> Union([NFS4_OK |-> "READLINK4resok"], "Void"),
     get |-> [NFS4_OK |-> As("READLINK4resok")]]

REMOVE4args ==
    [read |-> <<Sub("Component4")>>,
     get |-> [Target |-> Cast("Component4", At(0, 0), End)],
     write |-> Writer(0, <<Child("Target", "Component4")>>)]

REMOVE4resok ==
    [read |-> <<Take(20)>>,
     get |-> [Cinfo |-> Struct("ChangeInfo4", At(0, 0))],
     write |-> Writer(20, <<PutIn("Cinfo", "ChangeInfo4", 0)>>)]

REMOVE4res ==
    [read |-> Union([NFS4_OK |-> "REMOVE4resok"], "Void"),
     get |-> [NFS4_OK |-> As("REMOVE4resok")]]

RENAME4args ==
    [read |-> <<Sub("Component4"), Mark, Sub("Component4")>>,
     get |-> [Oldname |-> Cast("Component4", At(0, 0), At(1, 0)),
         Newname |-> Cast("Component4", At(1, 0), End)],
     write |-> Writer(0, <<In(0, Child("Oldname", "Component4")),
         In(1, Child("Newname", "Component4"))>>)]

RENAME4resok ==
    [read |-> <<Take(40)>>,
     get |-> [SourceCinfo |-> Struct("ChangeInfo4", At(0, 0)),
         TargetCinfo |-> Struct("ChangeInfo4", At(0, 20))],
     write |-> Writer(40, <<PutIn("SourceCinfo", "ChangeInfo4", 0),
         PutIn("TargetCinfo", "ChangeInfo4", 20)>>)]

RENAME4res ==
    [read |-> Union([NFS4_OK |-> "RENAME4resok"], "Void"),
     get |-> [NFS4_OK |-> As("RENAME4resok")]]

RENEW4args == NumberOnly("Clientid", 8)

RENEW4res == NumberOnly("Status", 4)

RESTOREFH4res == NumberOnly("Status", 4)

SAVEFH4res == NumberOnly("Status", 4)

SECINFO4args ==
    [read |-> <<Sub("Component4")>>,
     get |-> [Name |-> Cast("Component4", At(0, 0), End)],
     write |-> Writer(0, <<Child("Name", "Component4")>>)]

RpcsecGssInfo ==
    [read |-> <<Sub("SecOid4"), Mark, Take(4), Take(4)>>,
     get |-> [Oid |-> Cast("SecOid4", At(0, 0), At(1, 0)), Qop |-> Num(At(1, 0), 4),
         Service |-> Num(At(1, 4), 4)],
     write |-> Writer(0, <<Child("Oid", "SecOid4"), App("Qop", 4), App("Service", 4)>>)]

Secinfo4 ==
    [read |-> Union([RPCSEC_GSS |-> "RpcsecGssInfo"], "Void"),
     get |-> [RPCSEC_GSS |-> AsRead("RpcsecGssInfo")]]

Secinfo4Entry == EntryOf("Secinfo4", [RPCSEC_GSS |-> Start("RpcsecGssInfo"), Default |-> Void])

SECINFO4resok ==
    [read |-> <<TakeCount(4, 0), Each("Secinfo4Entry")>>,
     peek |-> <<Peek(4)>>,
     get |-> [Count |-> LenOf("Data", At(0, 0)), Data |-> Iter("Secinfo4Entry", At(0, 0), At(0, 4))],
     write |-> Writer(4, <<Items("Data", OneOf([RPCSEC_GSS |-> Start("RpcsecGssInfo"),
         Default |-> Void])), Patch("Data", 0)>>)]

SECINFO4res ==
    [read |-> Union([NFS4_OK |-> "SECINFO4resok"], "Void"),
     get |-> [NFS4_OK |-> As("SECINFO4resok")]]

SETATTR4args ==
    [read |-> <<Take(16), Sub("Fattr4")>>,
     get |-> [Stateid |-> Struct("Stateid4", At(0, 0)),
         ObjAttributes |-> Reread("Fattr4", At(0, 16), End)],
     write |-> Writer(16, <<PutIn("Stateid", "Stateid4", 0), Child("ObjAttributes", "Fattr4")>>)]

SETATTR4res ==
    [read |-> <<Take(4), Sub("Bitmap4")>>,
     get |-> [Status |-> Num(At(0, 0), 4), Attrsset |-> Cast("Bitmap4", At(0, 4), End)],
     write |-> Writer(4, <<Put("Status", 0, 4), Child("Attrsset", "Bitmap4")>>)]

SETCLIENTID4args ==
    [read |-> <<Sub("NfsClientId4"), Mark, Sub("CbClient4"), Mark, Take(4)>>,
     get |-> [Client |-> Cast("NfsClientId4", At(0, 0), At(1, 0)),
         Callback |-> Cast("CbClient4", At(1, 0), At(2, 0)), CallbackIdent |-> Num(At(2, 0), 4)],
     write |-> Writer(0, <<In(0, Child("Client", "NfsClientId4")),
         In(1, Child("Callback", "CbClient4")), In(2, App("CallbackIdent", 4))>>)]

SETCLIENTID4resok ==
    [read |-> <<Take(16)>>,
     get |-> [Clientid |-> Num(At(0, 0), 8), SetclientidConfirm |-> Struct("Verifier4", At(0, 8))],
     write |-> Writer(16, <<Put("Clientid", 0, 8), PutIn("SetclientidConfirm", "Verifier4", 8)>>)]

SETCLIENTID4res ==
    [read |-> Union([NFS4_OK |-> "SETCLIENTID4resok", NFS4ERR_CLID_INUSE |-> "Netaddr4"], "Void"),
     get |-> [NFS4_OK |-> As("SETCLIENTID4resok"), NFS4ERR_CLID_INUSE |-> AsRead("Netaddr4")]]

SETCLIENTIDCONFIRM4args ==
    [read |-> <<Take(16)>>,
     get |-> [Clientid |-> Num(At(0, 0), 8), SetclientidConfirm |-> Struct("Verifier4", At(0, 8))],
     write |-> Writer(16, <<Put("Clientid", 0, 8), PutIn("SetclientidConfirm", "Verifier4", 8)>>)]

SETCLIENTIDCONFIRM4res == NumberOnly("Status", 4)

VERIFY4args ==
    [read |-> <<Sub("Fattr4")>>,
     get |-> [ObjAttributes |-> Reread("Fattr4", At(0, 0), End)],
     write |-> Writer(0, <<Child("ObjAttributes", "Fattr4")>>)]

VERIFY4res == NumberOnly("Status", 4)

WRITE4args ==
    [read |-> <<TakePadded(32, 28)>>,
     get |-> [Stateid |-> Struct("Stateid4", At(0, 0)), Offset |-> Num(At(0, 16), 8),
         Stable |-> Num(At(0, 24), 4), DataLen |-> LenOf("Data", At(0, 28)),
         Data |-> Data(At(0, 28), At(0, 32))],
     write |-> Writer(32, <<PutIn("Stateid", "Stateid4", 0), Put("Offset", 16, 8), Put("Stable", 24, 4),
         Pad("Data"), Patch("Data", 28)>>)]

WRITE4resok ==
    [read |-> <<Take(16)>>,
     get |-> [Count |-> Num(At(0, 0), 4), Committed |-> Num(At(0, 4), 4),
         Writeverf |-> Struct("Verifier4", At(0, 8))],
     write |-> Writer(16, <<Put("Count", 0, 4), Put("Committed", 4, 4),
         PutIn("Writeverf", "Verifier4", 8)>>)]

WRITE4res ==
    [read |-> Union([NFS4_OK |-> "WRITE4resok"], "Void"),
     get |-> [NFS4_OK |-> As("WRITE4resok")]]

RELEASELOCKOWNER4args ==
    [read |-> <<Sub("StateOwner4")>>,
     get |-> [LockOwner |-> Cast("StateOwner4", At(0, 0), End)],
     write |-> Writer(0, <<Child("LockOwner", "StateOwner4")>>)]

RELEASELOCKOWNER4res == NumberOnly("Status", 4)

ILLEGAL4res == NumberOnly("Status", 4)

Gsshandle4T == OpaqueBytes

GssCbHandles4 ==
    [read |-> <<Take(4), Sub("Gsshandle4T"), Mark, Sub("Gsshandle4T")>>,
     get |-> [GcbpService |-> Num(At(0, 0), 4),
         GcbpHandleFromServer |-> Cast("Gsshandle4T", At(0, 4), At(1, 0)),
         GcbpHandleFromClient |-> Cast("Gsshandle4T", At(1, 0), End)],
     write |-> Writer(4, <<Put("GcbpService", 0, 4),
         In(0, Child("GcbpHandleFromServer", "Gsshandle4T")),
         In(1, Child("GcbpHandleFromClient", "Gsshandle4T"))>>)]

CallbackSecParms4 ==
    [read |-> Union([AUTH_NONE |-> "Void", AUTH_SYS |-> "AuthsysParms",
         RPCSEC_GSS |-> "GssCbHandles4"], "Refused"),
     get |-> [AUTH_SYS |-> AsRead("AuthsysParms"), RPCSEC_GSS |-> AsRead("GssCbHandles4")]]

CallbackSecParms4Entry ==
    EntryOf("CallbackSecParms4", [AUTH_NONE |-> Void, AUTH_SYS |-> Inline("AuthsysParms", 8),
        RPCSEC_GSS |-> Inline("GssCbHandles4", 4)])
=============================================================================
