------------------------------- MODULE NFSOps -------------------------------
(***************************************************************************)
(* The arguments and results of the operations of NFS version 4.0, from    *)
(* CREATE to OPEN_DOWNGRADE. Each type of the generated file has its       *)
(* decoder, its accessors and its writer, in the order of the file.        *)
(***************************************************************************)
EXTENDS XDRSteps

CREATE4resok ==
    [read |-> <<Take(20), Sub("Bitmap4")>>,
     get |-> [Cinfo |-> Struct("ChangeInfo4", At(0, 0)), Attrset |-> Cast("Bitmap4", At(0, 20), End)],
     write |-> Writer(20, <<PutIn("Cinfo", "ChangeInfo4", 0), Child("Attrset", "Bitmap4")>>)]

CREATE4res ==
    [read |-> Union([NFS4_OK |-> "CREATE4resok"], "Void"),
     get |-> [NFS4_OK |-> As("CREATE4resok")]]

DELEGPURGE4args == NumberOnly("Clientid", 8)

DELEGPURGE4res == NumberOnly("Status", 4)

DELEGRETURN4args ==
    [read |-> <<Take(16)>>,
     get |-> [DelegStateid |-> Struct("Stateid4", At(0, 0))],
     write |-> Writer(16, <<PutIn("DelegStateid", "Stateid4", 0)>>)]

DELEGRETURN4res == NumberOnly("Status", 4)

GETATTR4args ==
    [read |-> <<Sub("Bitmap4")>>,
     get |-> [AttrRequest |-> Cast("Bitmap4", At(0, 0), End)],
     write |-> Writer(0, <<Child("AttrRequest", "Bitmap4")>>)]

GETATTR4resok ==
    [read |-> <<Sub("Fattr4")>>,
     get |-> [ObjAttributes |-> Reread("Fattr4", At(0, 0), End)],
     write |-> Writer(0, <<Child("ObjAttributes", "Fattr4")>>)]

GETATTR4res ==
    [read |-> Union([NFS4_OK |-> "GETATTR4resok"], "Void"),
     get |-> [NFS4_OK |-> As("GETATTR4resok")]]

GETFH4resok ==
    [read |-> <<Sub("NfsFh4")>>,
     get |-> [Object |-> Cast("NfsFh4", At(0, 0), End)],
     write |-> Writer(0, <<Child("Object", "NfsFh4")>>)]

GETFH4res ==
    [read |-> Union([NFS4_OK |-> "GETFH4resok"], "Void"),
     get |-> [NFS4_OK |-> As("GETFH4resok")]]

LINK4args ==
    [read |-> <<Sub("Component4")>>,
     get |-> [Newname |-> Cast("Component4", At(0, 0), End)],
     write |-> Writer(0, <<Child("Newname", "Component4")>>)]

LINK4resok ==
    [read |-> <<Take(20)>>,
     get |-> [Cinfo |-> Struct("ChangeInfo4", At(0, 0))],
     write |-> Writer(20, <<PutIn("Cinfo", "ChangeInfo4", 0)>>)]

LINK4res ==
    [read |-> Union([NFS4_OK |-> "LINK4resok"], "Void"),
     get |-> [NFS4_OK |-> As("LINK4resok")]]

OpenToLockOwner4 ==
    [read |-> <<Take(24), Sub("StateOwner4")>>,
     get |-> [OpenSeqid |-> Num(At(0, 0), 4), OpenStateid |-> Struct("Stateid4", At(0, 4)),
         LockSeqid |-> Num(At(0, 20), 4), LockOwner |-> Cast("StateOwner4", At(0, 24), End)],
     write |-> Writer(24, <<Put("OpenSeqid", 0, 4), PutIn("OpenStateid", "Stateid4", 4),
         Put("LockSeqid", 20, 4), Child("LockOwner", "StateOwner4")>>)]

ExistLockOwner4 ==
    [read |-> <<Take(20)>>,
     get |-> [LockStateid |-> Struct("Stateid4", At(0, 0)), LockSeqid |-> Num(At(0, 16), 4)],
     write |-> Writer(20, <<Put("LockSeqid", 16, 4), PutIn("LockStateid", "Stateid4", 0)>>)]

Locker4 ==
    [read |-> Union([XDR_TRUE |-> "OpenToLockOwner4", XDR_FALSE |-> "ExistLockOwner4"], "Refused"),
     get |-> [XDR_TRUE |-> As("OpenToLockOwner4"), XDR_FALSE |-> As("ExistLockOwner4")]]

LOCK4args ==
    [read |-> <<Take(28), SubArm("Locker4", 24)>>,
     get |-> [Locktype |-> Num(At(0, 0), 4), Reclaim |-> Num(At(0, 4), 4), Offset |-> Num(At(0, 8), 8),
         Length |-> Num(At(0, 16), 8), LockerType |-> Num(At(0, 24), 4),
         Locker |-> Arm("Locker4", At(0, 28), End, At(0, 24))],
     write |-> Writer(28, <<Put("Locktype", 0, 4), Put("Reclaim", 4, 4), Put("Offset", 8, 8),
         Put("Length", 16, 8), Put("LockerType", 24, 4),
         ChoiceAt("Locker", 24, [XDR_TRUE |-> Inline("OpenToLockOwner4", 24),
         XDR_FALSE |-> Fixed("ExistLockOwner4", 20)])>>)]

LOCK4denied ==
    [read |-> <<Take(20), Sub("StateOwner4")>>,
     get |-> [Offset |-> Num(At(0, 0), 8), Length |-> Num(At(0, 8), 8), Locktype |-> Num(At(0, 16), 4),
         Owner |-> Cast("StateOwner4", At(0, 20), End)],
     write |-> Writer(20, <<Put("Offset", 0, 8), Put("Length", 8, 8), Put("Locktype", 16, 4),
         Child("Owner", "StateOwner4")>>)]

LOCK4resok ==
    [read |-> <<Take(16)>>,
     get |-> [LockStateid |-> Struct("Stateid4", At(0, 0))],
     write |-> Writer(16, <<PutIn("LockStateid", "Stateid4", 0)>>)]

LOCK4res ==
    [read |-> Union([NFS4_OK |-> "LOCK4resok", NFS4ERR_DENIED |-> "LOCK4denied"], "Void"),
     get |-> [NFS4_OK |-> As("LOCK4resok"), NFS4ERR_DENIED |-> As("LOCK4denied")]]

LOCKT4args ==
    [read |-> <<Take(20), Sub("StateOwner4")>>,
     get |-> [Locktype |-> Num(At(0, 0), 4), Offset |-> Num(At(0, 4), 8), Length |-> Num(At(0, 12), 8),
         Owner |-> Cast("StateOwner4", At(0, 20), End)],
     write |-> Writer(20, <<Put("Locktype", 0, 4), Put("Offset", 4, 8), Put("Length", 12, 8),
         Child("Owner", "StateOwner4")>>)]

LOCKT4res ==
    [read |-> Union([NFS4ERR_DENIED |-> "LOCK4denied", NFS4_OK |-> "Void"], "Void"),
     get |-> [NFS4ERR_DENIED |-> As("LOCK4denied")]]

LOCKU4args ==
    [read |-> <<Take(40)>>,
     get |-> [Locktype |-> Num(At(0, 0), 4), Seqid |-> Num(At(0, 4), 4),
         LockStateid |-> Struct("Stateid4", At(0, 8)), Offset |-> Num(At(0, 24), 8),
         Length |-> Num(At(0, 32), 8)],
     write |-> Writer(40, <<Put("Locktype", 0, 4), Put("Seqid", 4, 4), Put("Offset", 24, 8),
         Put("Length", 32, 8), PutIn("LockStateid", "Stateid4", 8)>>)]

LOCKU4res ==
    [read |-> Union([NFS4_OK |-> "Stateid4"], "Void"),
     get |-> [NFS4_OK |-> As("Stateid4")]]

LOOKUP4args ==
    [read |-> <<Sub("Component4")>>,
     get |-> [Objname |-> Cast("Component4", At(0, 0), End)],
     write |-> Writer(0, <<Child("Objname", "Component4")>>)]

LOOKUP4res == NumberOnly("Status", 4)

LOOKUPP4res == NumberOnly("Status", 4)

NVERIFY4args ==
    [read |-> <<Sub("Fattr4")>>,
     get |-> [ObjAttributes |-> Reread("Fattr4", At(0, 0), End)],
     write |-> Writer(0, <<Child("ObjAttributes", "Fattr4")>>)]

NVERIFY4res == NumberOnly("Status", 4)

Creatverfattr ==
    [read |-> <<Take(8), Sub("Fattr4")>>,
     get |-> [CvaVerf |-> Struct("Verifier4", At(0, 0)), CvaAttrs |-> Reread("Fattr4", At(0, 8), End)],
     write |-> Writer(8, <<PutIn("CvaVerf", "Verifier4", 0), Child("CvaAttrs", "Fattr4")>>)]

Createhow4 ==
    [read |-> Union([UNCHECKED4 |-> "Fattr4", GUARDED4 |-> "Fattr4", EXCLUSIVE4 |-> "Verifier4",
         EXCLUSIVE4_1 |-> "Creatverfattr"], "Refused"),
     get |-> [UNCHECKED4 |-> AsRead("Fattr4"), GUARDED4 |-> AsRead("Fattr4"),
         EXCLUSIVE4 |-> As("Verifier4"), EXCLUSIVE4_1 |-> As("Creatverfattr")]]

Createhow4Entry ==
    EntryOf("Createhow4", [UNCHECKED4 |-> Start("Fattr4"), GUARDED4 |-> Start("Fattr4"),
        EXCLUSIVE4 |-> Fixed("Verifier4", 8), EXCLUSIVE4_1 |-> Inline("Creatverfattr", 8)])

Openflag4 ==
    [read |-> Union([OPEN4_CREATE |-> "Createhow4Entry"], "Void"),
     get |-> [OPEN4_CREATE |-> As("Createhow4Entry")]]

NfsModifiedLimit4 ==
    [read |-> <<Take(8)>>,
     get |-> [NumBlocks |-> Num(At(0, 0), 4), BytesPerBlock |-> Num(At(0, 4), 4)],
     write |-> Writer(8, <<Put("NumBlocks", 0, 4), Put("BytesPerBlock", 4, 4)>>)]

NfsSpaceLimit4NFSLIMITSIZE == NumberOnly("Value", 8)

NfsSpaceLimit4 ==
    [read |-> Union([NFS_LIMIT_SIZE |-> "NfsSpaceLimit4NFSLIMITSIZE",
         NFS_LIMIT_BLOCKS |-> "NfsModifiedLimit4"], "Refused"),
     get |-> [NFS_LIMIT_SIZE |-> As("NfsSpaceLimit4NFSLIMITSIZE"),
         NFS_LIMIT_BLOCKS |-> As("NfsModifiedLimit4")]]

OpenClaimDelegateCur4 ==
    [read |-> <<Take(16), Sub("Component4")>>,
     get |-> [DelegateStateid |-> Struct("Stateid4", At(0, 0)),
         File |-> Cast("Component4", At(0, 16), End)],
     write |-> Writer(16, <<PutIn("DelegateStateid", "Stateid4", 0), Child("File", "Component4")>>)]

OpenClaim4CLAIMPREVIOUS == NumberOnly("Value", 4)

OpenClaim4 ==
    [read |-> Union([CLAIM_NULL |-> "Component4", CLAIM_PREVIOUS |-> "OpenClaim4CLAIMPREVIOUS",
         CLAIM_DELEGATE_CUR |-> "OpenClaimDelegateCur4", CLAIM_DELEGATE_PREV |-> "Component4",
         CLAIM_FH |-> "Void", CLAIM_DELEG_PREV_FH |-> "Void",
         CLAIM_DELEG_CUR_FH |-> "Stateid4"], "Refused"),
     get |-> [CLAIM_NULL |-> As("Component4"), CLAIM_PREVIOUS |-> As("OpenClaim4CLAIMPREVIOUS"),
         CLAIM_DELEGATE_CUR |-> As("OpenClaimDelegateCur4"), CLAIM_DELEGATE_PREV |-> As("Component4"),
         CLAIM_DELEG_CUR_FH |-> As("Stateid4")]]

readOPEN4args ==
    <<Take(12), Sub("StateOwner4"), Mark, TakeCount(4, 0), SubArmHere("Openflag4"), Mark,
      TakeCount(4, 0), SubArmHere("OpenClaim4")>>
OPEN4argsWriter ==
    Writer(12, <<Put("Seqid", 0, 4), Put("ShareAccess", 4, 4), Put("ShareDeny", 8, 4),
      In(0, Child("Owner", "StateOwner4")),
      In(1, Choice("Openhow", [OPEN4_CREATE |-> Start("Createhow4Entry"), Default |-> Void])),
      In(2, Choice("Claim", [CLAIM_NULL |-> Start("Component4"),
      CLAIM_PREVIOUS |-> Fixed("OpenClaim4CLAIMPREVIOUS", 4),
      CLAIM_DELEGATE_CUR |-> Inline("OpenClaimDelegateCur4", 16),
      CLAIM_DELEGATE_PREV |-> Start("Component4"), CLAIM_FH |-> Void, CLAIM_DELEG_PREV_FH |-> Void,
      CLAIM_DELEG_CUR_FH |-> Fixed("Stateid4", 16)]))>>)
OPEN4args ==
    [read |-> readOPEN4args,
     get |-> [Seqid |-> Num(At(0, 0), 4), ShareAccess |-> Num(At(0, 4), 4),
         ShareDeny |-> Num(At(0, 8), 4), Owner |-> Cast("StateOwner4", At(0, 12), At(1, 0)),
         OpenhowType |-> Num(At(1, 0), 4), Openhow |-> Arm("Openflag4", At(1, 4), At(2, 0), At(1, 0)),
         ClaimType |-> Num(At(2, 0), 4), Claim |-> Arm("OpenClaim4", At(2, 4), End, At(2, 0))],
     write |-> OPEN4argsWriter]

OpenReadDelegation4 ==
    [read |-> <<Take(20), Sub("Nfsace4")>>,
     get |-> [Stateid |-> Struct("Stateid4", At(0, 0)), Recall |-> Num(At(0, 16), 4),
         Permissions |-> Cast("Nfsace4", At(0, 20), End)],
     write |-> Writer(20, <<PutIn("Stateid", "Stateid4", 0), Put("Recall", 16, 4),
         Child("Permissions", "Nfsace4")>>)]

OpenWriteDelegation4 ==
    [read |-> <<Take(24), SubArm("NfsSpaceLimit4", 20), Mark, Sub("Nfsace4")>>,
     get |-> [Stateid |-> Struct("Stateid4", At(0, 0)), Recall |-> Num(At(0, 16), 4),
         SpaceLimitType |-> Num(At(0, 20), 4),
         SpaceLimit |-> Arm("NfsSpaceLimit4", At(0, 24), At(1, 0), At(0, 20)),
         Permissions |-> Cast("Nfsace4", At(1, 0), End)],
     write |-> Writer(24, <<PutIn("Stateid", "Stateid4", 0), Put("Recall", 16, 4),
         Put("SpaceLimitType", 20, 4),
         ChoiceAt("SpaceLimit", 20, [NFS_LIMIT_SIZE |-> Fixed("NfsSpaceLimit4NFSLIMITSIZE", 8),
         NFS_LIMIT_BLOCKS |-> Fixed("NfsModifiedLimit4", 8)]), Child("Permissions", "Nfsace4")>>)]

OpenNoneDelegation4WND4CONTENTION == NumberOnly("Value", 4)

OpenNoneDelegation4WND4RESOURCE == NumberOnly("Value", 4)

OpenNoneDelegation4 ==
    [read |-> Union([WND4_CONTENTION |-> "OpenNoneDelegation4WND4CONTENTION",
         WND4_RESOURCE |-> "OpenNoneDelegation4WND4RESOURCE"], "Void"),
     get |-> [WND4_CONTENTION |-> As("OpenNoneDelegation4WND4CONTENTION"),
         WND4_RESOURCE |-> As("OpenNoneDelegation4WND4RESOURCE")]]

OpenNoneDelegation4Entry ==
    EntryOf("OpenNoneDelegation4", [WND4_CONTENTION |-> Fixed("OpenNoneDelegation4WND4CONTENTION", 4),
        WND4_RESOURCE |-> Fixed("OpenNoneDelegation4WND4RESOURCE", 4), Default |-> Void])

OpenDelegation4 ==
    [read |-> Union([OPEN_DELEGATE_NONE |-> "Void", OPEN_DELEGATE_READ |-> "OpenReadDelegation4",
         OPEN_DELEGATE_READ_ATTRS_DELEG |-> "OpenReadDelegation4",
         OPEN_DELEGATE_WRITE |-> "OpenWriteDelegation4",
         OPEN_DELEGATE_WRITE_ATTRS_DELEG |-> "OpenWriteDelegation4",
         OPEN_DELEGATE_NONE_EXT |-> "OpenNoneDelegation4Entry"], "Refused"),
     get |-> [OPEN_DELEGATE_READ |-> As("OpenReadDelegation4"),
         OPEN_DELEGATE_READ_ATTRS_DELEG |-> As("OpenReadDelegation4"),
         OPEN_DELEGATE_WRITE |-> AsRead("OpenWriteDelegation4"),
         OPEN_DELEGATE_WRITE_ATTRS_DELEG |-> AsRead("OpenWriteDelegation4"),
         OPEN_DELEGATE_NONE_EXT |-> As("OpenNoneDelegation4Entry")]]

readOPEN4resok == <<Take(40), Sub("Bitmap4"), Mark, TakeCount(4, 0), SubArmHere("OpenDelegation4")>>
OPEN4resokWriter ==
    Writer(40, <<PutIn("Stateid", "Stateid4", 0), PutIn("Cinfo", "ChangeInfo4", 16),
      Put("Rflags", 36, 4), In(0, Child("Attrset", "Bitmap4")),
      In(1, Choice("Delegation", [OPEN_DELEGATE_NONE |-> Void,
      OPEN_DELEGATE_READ |-> Inline("OpenReadDelegation4", 20),
      OPEN_DELEGATE_READ_ATTRS_DELEG |-> Inline("OpenReadDelegation4", 20),
      OPEN_DELEGATE_WRITE |-> Inline("OpenWriteDelegation4", 24),
      OPEN_DELEGATE_WRITE_ATTRS_DELEG |-> Inline("OpenWriteDelegation4", 24),
      OPEN_DELEGATE_NONE_EXT |-> Start("OpenNoneDelegation4Entry")]))>>)
OPEN4resok ==
    [read |-> readOPEN4resok,
     get |-> [Stateid |-> Struct("Stateid4", At(0, 0)), Cinfo |-> Struct("ChangeInfo4", At(0, 16)),
         Rflags |-> Num(At(0, 36), 4), Attrset |-> Cast("Bitmap4", At(0, 40), At(1, 0)),
         DelegationType |-> Num(At(1, 0), 4),
         Delegation |-> Arm("OpenDelegation4", At(1, 4), End, At(1, 0))],
     write |-> OPEN4resokWriter]

OPEN4res ==
    [read |-> Union([NFS4_OK |-> "OPEN4resok"], "Void"),
     get |-> [NFS4_OK |-> AsRead("OPEN4resok")]]

OPENATTR4args == NumberOnly("Createdir", 4)

OPENATTR4res == NumberOnly("Status", 4)

OPENCONFIRM4args ==
    [read |-> <<Take(20)>>,
     get |-> [OpenStateid |-> Struct("Stateid4", At(0, 0)), Seqid |-> Num(At(0, 16), 4)],
     write |-> Writer(20, <<Put("Seqid", 16, 4), PutIn("OpenStateid", "Stateid4", 0)>>)]

OPENCONFIRM4resok ==
    [read |-> <<Take(16)>>,
     get |-> [OpenStateid |-> Struct("Stateid4", At(0, 0))],
     write |-> Writer(16, <<PutIn("OpenStateid", "Stateid4", 0)>>)]

OPENCONFIRM4res ==
    [read |-> Union([NFS4_OK |-> "OPENCONFIRM4resok"], "Void"),
     get |-> [NFS4_OK |-> As("OPENCONFIRM4resok")]]

OPENDOWNGRADE4args ==
    [read |-> <<Take(28)>>,
     get |-> [OpenStateid |-> Struct("Stateid4", At(0, 0)), Seqid |-> Num(At(0, 16), 4),
         ShareAccess |-> Num(At(0, 20), 4), ShareDeny |-> Num(At(0, 24), 4)],
     write |-> Writer(28, <<Put("Seqid", 16, 4), Put("ShareAccess", 20, 4), Put("ShareDeny", 24, 4),
         PutIn("OpenStateid", "Stateid4", 0)>>)]

OPENDOWNGRADE4resok ==
    [read |-> <<Take(16)>>,
     get |-> [OpenStateid |-> Struct("Stateid4", At(0, 0))],
     write |-> Writer(16, <<PutIn("OpenStateid", "Stateid4", 0)>>)]

OPENDOWNGRADE4res ==
    [read |-> Union([NFS4_OK |-> "OPENDOWNGRADE4resok"], "Void"),
     get |-> [NFS4_OK |-> As("OPENDOWNGRADE4resok")]]
=============================================================================
