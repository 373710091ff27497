---------------------------- MODULE NFSCallback -----------------------------
(***************************************************************************)
(* The callback operations, and the CB_COMPOUND. Each type of the          *)
(* generated file has its decoder, its accessors and its writer, in the    *)
(* order of the file.                                                      *)
(***************************************************************************)
EXTENDS XDRSteps

CBGETATTR4args ==
    [read |-> <<Sub("NfsFh4"), Mark, Sub("Bitmap4")>>,
     get |-> [Fh |-> Cast("NfsFh4", At(0, 0), At(1, 0)), AttrRequest |-> Cast("Bitmap4", At(1, 0), End)],
     write |-> Writer(0, <<In(0, Child("Fh", "NfsFh4")), In(1, Child("AttrRequest", "Bitmap4"))>>)]

CBGETATTR4resok ==
    [read |-> <<Sub("Fattr4")>>,
     get |-> [ObjAttributes |-> Reread("Fattr4", At(0, 0), End)],
     write |-> Writer(0, <<Child("ObjAttributes", "Fattr4")>>)]

CBGETATTR4res ==
    [read |-> Union([NFS4_OK |-> "CBGETATTR4resok"], "Void"),
     get |-> [NFS4_OK |-> As("CBGETATTR4resok")]]

CBRECALL4args ==
    [read |-> <<Take(20), Sub("NfsFh4")>>,
     get |-> [Stateid |-> Struct("Stateid4", At(0, 0)), Truncate |-> Num(At(0, 16), 4),
         Fh |-> Cast("NfsFh4", At(0, 20), End)],
     write |-> Writer(20, <<PutIn("Stateid", "Stateid4", 0), Put("Truncate", 16, 4),
         Child("Fh", "NfsFh4")>>)]

CBRECALL4res == NumberOnly("Status", 4)

CBILLEGAL4res == NumberOnly("Status", 4)

LayoutrecallFile4 ==
    [read |-> <<Sub("NfsFh4"), Mark, Take(8), Take(8), Take(16)>>,
     get |-> [LorFh |-> Cast("NfsFh4", At(0, 0), At(1, 0)), LorOffset |-> Num(At(1, 0), 8),
         LorLength |-> Num(At(1, 8), 8), LorStateid |-> Struct("Stateid4", At(1, 16))],
     write |-> Writer(0, <<Child("LorFh", "NfsFh4"), App("LorOffset", 8), App("LorLength", 8)>>)]

Layoutrecall4 ==
    [read |-> Union([LAYOUTRECALL4_FILE |-> "LayoutrecallFile4", LAYOUTRECALL4_FSID |-> "Fsid4",
         LAYOUTRECALL4_ALL |-> "Void"], "Refused"),
     get |-> [LAYOUTRECALL4_FILE |-> AsRead("LayoutrecallFile4"), LAYOUTRECALL4_FSID |-> As("Fsid4")]]

CBLAYOUTRECALL4args ==
    [read |-> <<Take(16), SubArm("Layoutrecall4", 12)>>,
     get |-> [CloraType |-> Num(At(0, 0), 4), CloraIomode |-> Num(At(0, 4), 4),
         CloraChanged |-> Num(At(0, 8), 4), CloraRecallType |-> Num(At(0, 12), 4),
         CloraRecall |-> Arm("Layoutrecall4", At(0, 16), End, At(0, 12))],
     write |-> Writer(16, <<Put("CloraType", 0, 4), Put("CloraIomode", 4, 4), Put("CloraChanged", 8, 4),
         Put("CloraRecallType", 12, 4),
         ChoiceAt("CloraRecall", 12, [LAYOUTRECALL4_FILE |-> Start("LayoutrecallFile4"),
         LAYOUTRECALL4_FSID |-> Fixed("Fsid4", 16), LAYOUTRECALL4_ALL |-> Void])>>)]

CBLAYOUTRECALL4res == NumberOnly("ClorrStatus", 4)

NotifyEntry4 ==
    [read |-> <<Sub("Component4"), Mark, Sub("Fattr4")>>,
     get |-> [NeFile |-> Cast("Component4", At(0, 0), At(1, 0)),
         NeAttrs |-> Reread("Fattr4", At(1, 0), End)],
     write |-> Writer(0, <<In(0, Child("NeFile", "Component4")), In(1, Child("NeAttrs", "Fattr4"))>>)]

PrevEntry4 ==
    [read |-> <<Sub("NotifyEntry4"), Mark, Take(8)>>,
     get |-> [PePrevEntry |-> Reread("NotifyEntry4", At(0, 0), At(1, 0)),
         PePrevEntryCookie |-> Num(At(1, 0), 8)],
     write |-> Writer(0, <<Child("PePrevEntry", "NotifyEntry4"), App("PePrevEntryCookie", 8)>>)]

NotifyRemove4 ==
    [read |-> <<Sub("NotifyEntry4"), Mark, Take(8)>>,
     get |-> [NrmOldEntry |-> Reread("NotifyEntry4", At(0, 0), At(1, 0)),
         NrmOldEntryCookie |-> Num(At(1, 0), 8)],
     write |-> Writer(0, <<Child("NrmOldEntry", "NotifyEntry4"), App("NrmOldEntryCookie", 8)>>)]

NotifyAdd4NadNewEntryCookie ==
    [read |-> <<TakeCount(4, 0), Elems(8)>>,
     get |-> [Count |-> LenOf("Data", At(0, 0)), Data |-> Nth("", At(0, 0), At(0, 4), 8)],
     write |-> Writer(4, <<Items("Data", Word(8)), Patch("Data", 0)>>)]

NotifyAdd4NadPrevEntry ==
    [read |-> <<TakeCount(4, 0), Each("PrevEntry4")>>,
     peek |-> <<Peek(4)>>,
     get |-> [Count |-> LenOf("Data", At(0, 0)), Data |-> Iter("PrevEntry4", At(0, 0), At(0, 4))],
     write |-> Writer(4, <<Items("Data", Start("PrevEntry4")), Patch("Data", 0)>>)]

readNotifyAdd4 ==
    <<TakeCount(4, 0), Each("NotifyRemove4"), Mark, Sub("NotifyEntry4"), Mark,
      Sub("NotifyAdd4NadNewEntryCookie"), Mark, Sub("NotifyAdd4NadPrevEntry"), Mark, Take(4)>>
NotifyAdd4Writer ==
    Writer(4, <<In(0, Items("NadOldEntry", Start("NotifyRemove4"))),
      In(1, Child("NadNewEntry", "NotifyEntry4")),
      In(2, Child("NadNewEntryCookie", "NotifyAdd4NadNewEntryCookie")),
      In(3, Child("NadPrevEntry", "NotifyAdd4NadPrevEntry")), In(4, App("NadLastEntry", 4)),
      Patch("NadOldEntry", 0)>>)
NotifyAdd4 ==
    [read |-> readNotifyAdd4,
     get |-> [NadOldEntry |-> Iter("NotifyRemove4", At(0, 0), At(0, 4)),
         NadOldEntryCount |-> LenOf("NadOldEntry", At(0, 0)),
         NadNewEntry |-> Reread("NotifyEntry4", At(1, 0), At(2, 0)),
         NadNewEntryCookie |-> Cast("NotifyAdd4NadNewEntryCookie", At(2, 0), At(3, 0)),
         NadPrevEntry |-> Cast("NotifyAdd4NadPrevEntry", At(3, 0), At(4, 0)),
         NadLastEntry |-> Num(At(4, 0), 4)],
     write |-> NotifyAdd4Writer]

NotifyAttr4 ==
    [read |-> <<Sub("NotifyEntry4")>>,
     get |-> [NaChangedEntry |-> Reread("NotifyEntry4", At(0, 0), End)],
     write |-> Writer(0, <<Child("NaChangedEntry", "NotifyEntry4")>>)]

NotifyRename4 ==
    [read |-> <<Sub("NotifyRemove4"), Mark, Sub("NotifyAdd4")>>,
     get |-> [NrnOldEntry |-> Reread("NotifyRemove4", At(0, 0), At(1, 0)),
         NrnNewEntry |-> Reread("NotifyAdd4", At(1, 0), End)],
     write |-> Writer(0, <<In(0, Child("NrnOldEntry", "NotifyRemove4")),
         In(1, Child("NrnNewEntry", "NotifyAdd4"))>>)]

NotifyVerifier4 ==
    [read |-> <<Take(16)>>,
     get |-> [NvOldCookieverf |-> Struct("Verifier4", At(0, 0)),
         NvNewCookieverf |-> Struct("Verifier4", At(0, 8))],
     write |-> Writer(16, <<PutIn("NvOldCookieverf", "Verifier4", 0),
         PutIn("NvNewCookieverf", "Verifier4", 8)>>)]

Notifylist4 == OpaqueBytes

Notify4 ==
    [read |-> <<Sub("Bitmap4"), Mark, Sub("Notifylist4")>>,
     get |-> [NotifyMask |-> Cast("Bitmap4", At(0, 0), At(1, 0)),
         NotifyVals |-> Cast("Notifylist4", At(1, 0), End)],
     write |-> Writer(0, <<In(0, Child("NotifyMask", "Bitmap4")),
         In(1, Child("NotifyVals", "Notifylist4"))>>)]

CBNOTIFY4args ==
    [read |-> <<Take(16), Sub("NfsFh4"), Mark, TakeCount(4, 0), Each("Notify4")>>,
     get |-> [CnaStateid |-> Struct("Stateid4", At(0, 0)),
         CnaFh |-> Cast("NfsFh4", At(0, 16), At(1, 0)),
         CnaChanges |-> Iter("Notify4", At(1, 0), At(1, 4)),
         CnaChangesCount |-> LenOf("CnaChanges", At(1, 0))],
     write |-> Writer(16, <<PutIn("CnaStateid", "Stateid4", 0), In(0, Child("CnaFh", "NfsFh4")),
         In(1, Late("CnaChanges", Start("Notify4"))), Close("CnaChanges")>>)]

CBNOTIFY4res == NumberOnly("CnrStatus", 4)

CBPUSHDELEG4args ==
    [read |-> <<Sub("NfsFh4"), Mark, TakeCount(4, 0), SubArmHere("OpenDelegation4")>>,
     get |-> [CpdaFh |-> Cast("NfsFh4", At(0, 0), At(1, 0)), CpdaDelegationType |-> Num(At(1, 0), 4),
         CpdaDelegation |-> Arm("OpenDelegation4", At(1, 4), End, At(1, 0))],
     write |-> Writer(0, <<In(0, Child("CpdaFh", "NfsFh4")),
         In(1, Choice("CpdaDelegation", [OPEN_DELEGATE_NONE |-> Void,
         OPEN_DELEGATE_READ |-> Inline("OpenReadDelegation4", 20),
         OPEN_DELEGATE_READ_ATTRS_DELEG |-> Inline("OpenReadDelegation4", 20),
         OPEN_DELEGATE_WRITE |-> Inline("OpenWriteDelegation4", 24),
         OPEN_DELEGATE_WRITE_ATTRS_DELEG |-> Inline("OpenWriteDelegation4", 24),
         OPEN_DELEGATE_NONE_EXT |-> Start("OpenNoneDelegation4Entry")]))>>)]

CBPUSHDELEG4res == NumberOnly("CpdrStatus", 4)

CBRECALLANY4args ==
    [read |-> <<Take(4), Sub("Bitmap4")>>,
     get |-> [CraaObjectsToKeep |-> Num(At(0, 0), 4), CraaTypeMask |-> Cast("Bitmap4", At(0, 4), End)],
     write |-> Writer(4, <<Put("CraaObjectsToKeep", 0, 4), Child("CraaTypeMask", "Bitmap4")>>)]

CBRECALLANY4res == NumberOnly("CrarStatus", 4)

CBRECALLABLEOBJAVAIL4res == NumberOnly("CroaStatus", 4)

CBRECALLSLOT4args == NumberOnly("RsaTargetHighestSlotid", 4)

CBRECALLSLOT4res == NumberOnly("RsrStatus", 4)

ReferringCall4 ==
    [read |-> <<Take(8)>>,
     get |-> [RcSequenceid |-> Num(At(0, 0), 4), RcSlotid |-> Num(At(0, 4), 4)],
     write |-> Writer(8, <<Put("RcSequenceid", 0, 4), Put("RcSlotid", 4, 4)>>)]

ReferringCallList4 ==
    [read |-> <<TakeCount(20, 16), Elems(8)>>,
     get |-> [RclSessionid |-> Struct("Sessionid4", At(0, 0)),
         RclReferringCallsCount |-> LenOf("RclReferringCalls", At(0, 16)),
         RclReferringCalls |-> Nth("ReferringCall4", At(0, 16), At(0, 20), 8)],
     write |-> Writer(20, <<PutIn("RclSessionid", "Sessionid4", 0),
         Items("RclReferringCalls", Fixed("ReferringCall4", 8)), Patch("RclReferringCalls", 16)>>)]

CBSEQUENCE4args ==
    [read |-> <<TakeCount(36, 32), Each("ReferringCallList4")>>,
     peek |-> <<Peek(36)>>,
     get |-> [CsaSessionid |-> Struct("Sessionid4", At(0, 0)), CsaSequenceid |-> Num(At(0, 16), 4),
         CsaSlotid |-> Num(At(0, 20), 4), CsaHighestSlotid |-> Num(At(0, 24), 4),
         CsaCachethis |-> Num(At(0, 28), 4),
         CsaReferringCallListsCount |-> LenOf("CsaReferringCallLists", At(0, 32)),
         CsaReferringCallLists |-> Iter("ReferringCallList4", At(0, 32), At(0, 36))],
     write |-> Writer(36, <<PutIn("CsaSessionid", "Sessionid4", 0), Put("CsaSequenceid", 16, 4),
         Put("CsaSlotid", 20, 4), Put("CsaHighestSlotid", 24, 4), Put("CsaCachethis", 28, 4),
         Items("CsaReferringCallLists", Start("ReferringCallList4")),
         Patch("CsaReferringCallLists", 32)>>)]

CBSEQUENCE4resok ==
    [read |-> <<Take(32)>>,
     get |-> [CsrSessionid |-> Struct("Sessionid4", At(0, 0)), CsrSequenceid |-> Num(At(0, 16), 4),
         CsrSlotid |-> Num(At(0, 20), 4), CsrHighestSlotid |-> Num(At(0, 24), 4),
         CsrTargetHighestSlotid |-> Num(At(0, 28), 4)],
     write |-> Writer(32, <<Put("CsrSequenceid", 16, 4), Put("CsrSlotid", 20, 4),
         Put("CsrHighestSlotid", 24, 4), Put("CsrTargetHighestSlotid", 28, 4),
         PutIn("CsrSessionid", "Sessionid4", 0)>>)]

CBSEQUENCE4res ==
    [read |-> Union([NFS4_OK |-> "CBSEQUENCE4resok"], "Void"),
     get |-> [NFS4_OK |-> As("CBSEQUENCE4resok")]]

CBWANTSCANCELLED4args ==
    [read |-> <<Take(8)>>,
     get |-> [CwcaContendedWantsCancelled |-> Num(At(0, 0), 4),
         CwcaResourcedWantsCancelled |-> Num(At(0, 4), 4)],
     write |-> Writer(8, <<Put("CwcaContendedWantsCancelled", 0, 4),
         Put("CwcaResourcedWantsCancelled", 4, 4)>>)]

CBWANTSCANCELLED4res == NumberOnly("CwcrStatus", 4)

CBNOTIFYLOCK4args ==
    [read |-> <<Sub("NfsFh4"), Mark, Sub("StateOwner4")>>,
     get |-> [CnlaFh |-> Cast("NfsFh4", At(0, 0), At(1, 0)),
         CnlaLockOwner |-> Cast("StateOwner4", At(1, 0), End)],
     write |-> Writer(0, <<In(0, Child("CnlaFh", "NfsFh4")),
         In(1, Child("CnlaLockOwner", "StateOwner4"))>>)]

CBNOTIFYLOCK4res == NumberOnly("CnlrStatus", 4)

NotifyDeviceidDelete4 ==
    [read |-> <<Take(20)>>,
     get |-> [NddLayouttype |-> Num(At(0, 0), 4), NddDeviceid |-> Struct("Deviceid4", At(0, 4))],
     write |-> Writer(20, <<Put("NddLayouttype", 0, 4), PutIn("NddDeviceid", "Deviceid4", 4)>>)]

NotifyDeviceidChange4 ==
    [read |-> <<Take(24)>>,
     get |-> [NdcLayouttype |-> Num(At(0, 0), 4), NdcDeviceid |-> Struct("Deviceid4", At(0, 4)),
         NdcImmediate |-> Num(At(0, 20), 4)],
     write |-> Writer(24, <<Put("NdcLayouttype", 0, 4), Put("NdcImmediate", 20, 4),
         PutIn("NdcDeviceid", "Deviceid4", 4)>>)]

CBNOTIFYDEVICEID4args ==
    [read |-> <<TakeCount(4, 0), Each("Notify4")>>,
     peek |-> <<Peek(4)>>,
     get |-> [CndaChangesCount |-> LenOf("CndaChanges", At(0, 0)),
         CndaChanges |-> Iter("Notify4", At(0, 0), At(0, 4))],
     write |-> Writer(4, <<Items("CndaChanges", Start("Notify4")), Patch("CndaChanges", 0)>>)]

CBNOTIFYDEVICEID4res == NumberOnly("CndrStatus", 4)

OffloadInfo4Default == NumberOnly("Value", 8)

OffloadInfo4 ==
    [read |-> Union([NFS4_OK |-> "WriteResponse4"], "OffloadInfo4Default"),
     get |-> [NFS4_OK |-> AsRead("WriteResponse4"), Default |-> As("OffloadInfo4Default")]]

CBOFFLOAD4args ==
    [read |-> <<Sub("NfsFh4"), Mark, Take(16), TakeCount(4, 0), SubArmHere("OffloadInfo4")>>,
     get |-> [CoaFh |-> Cast("NfsFh4", At(0, 0), At(1, 0)), CoaStateid |-> Struct("Stateid4", At(1, 0)),
         CoaOffloadInfoType |-> Num(At(1, 16), 4),
         CoaOffloadInfo |-> Arm("OffloadInfo4", At(1, 20), End, At(1, 16))],
     write |-> Writer(0, <<In(0, Child("CoaFh", "NfsFh4")),
         In(1, Choice("CoaOffloadInfo", [NFS4_OK |-> Inline("WriteResponse4", 4),
         Default |-> Fixed("OffloadInfo4Default", 8)]))>>)]

CBOFFLOAD4res == NumberOnly("CorStatus", 4)

readNfsCbArgop4 ==
    Union([OP_CB_GETATTR |-> "CBGETATTR4args", OP_CB_RECALL |-> "CBRECALL4args",
      OP_CB_LAYOUTRECALL |-> "CBLAYOUTRECALL4args", OP_CB_NOTIFY |-> "CBNOTIFY4args",
      OP_CB_PUSH_DELEG |-> "CBPUSHDELEG4args", OP_CB_RECALL_ANY |-> "CBRECALLANY4args",
      OP_CB_RECALLABLE_OBJ_AVAIL |-> "CBRECALLANY4args", OP_CB_RECALL_SLOT |-> "CBRECALLSLOT4args",
      OP_CB_SEQUENCE |-> "CBSEQUENCE4args", OP_CB_WANTS_CANCELLED |-> "CBWANTSCANCELLED4args",
      OP_CB_NOTIFY_LOCK |-> "CBNOTIFYLOCK4args", OP_CB_NOTIFY_DEVICEID |-> "CBNOTIFYDEVICEID4args",
      OP_CB_OFFLOAD |-> "CBOFFLOAD4args", OP_CB_ILLEGAL |-> "Void"], "Refused")
NfsCbArgop4 ==
    [read |-> readNfsCbArgop4,
     get |-> [OP_CB_GETATTR |-> AsRead("CBGETATTR4args"), OP_CB_RECALL |-> As("CBRECALL4args"),
         OP_CB_LAYOUTRECALL |-> As("CBLAYOUTRECALL4args"), OP_CB_NOTIFY |-> AsRead("CBNOTIFY4args"),
         OP_CB_PUSH_DELEG |-> AsRead("CBPUSHDELEG4args"), OP_CB_RECALL_ANY |-> As("CBRECALLANY4args"),
         OP_CB_RECALLABLE_OBJ_AVAIL |-> As("CBRECALLANY4args"),
         OP_CB_RECALL_SLOT |-> As("CBRECALLSLOT4args"), OP_CB_SEQUENCE |-> As("CBSEQUENCE4args"),
         OP_CB_WANTS_CANCELLED |-> As("CBWANTSCANCELLED4args"),
         OP_CB_NOTIFY_LOCK |-> AsRead("CBNOTIFYLOCK4args"),
         OP_CB_NOTIFY_DEVICEID |-> As("CBNOTIFYDEVICEID4args"),
         OP_CB_OFFLOAD |-> AsRead("CBOFFLOAD4args")]]

CBGETATTR4resEntry == EntryOf("CBGETATTR4res", [NFS4_OK |-> Start("CBGETATTR4resok"), Default |-> Void])

CBSEQUENCE4resEntry ==
    EntryOf("CBSEQUENCE4res", [NFS4_OK |-> Fixed("CBSEQUENCE4resok", 32), Default |-> Void])

readNfsCbResop4 ==
    Union([OP_CB_GETATTR |-> "CBGETATTR4resEntry", OP_CB_RECALL |-> "CBRECALL4res",
      OP_CB_LAYOUTRECALL |-> "CBLAYOUTRECALL4res", OP_CB_NOTIFY |-> "CBNOTIFY4res",
      OP_CB_PUSH_DELEG |-> "CBPUSHDELEG4res", OP_CB_RECALL_ANY |-> "CBRECALLANY4res",
      OP_CB_RECALLABLE_OBJ_AVAIL |-> "CBRECALLABLEOBJAVAIL4res",
      OP_CB_RECALL_SLOT |-> "CBRECALLSLOT4res", OP_CB_SEQUENCE |-> "CBSEQUENCE4resEntry",
      OP_CB_WANTS_CANCELLED |-> "CBWANTSCANCELLED4res", OP_CB_NOTIFY_LOCK |-> "CBNOTIFYLOCK4res",
      OP_CB_NOTIFY_DEVICEID |-> "CBNOTIFYDEVICEID4res", OP_CB_OFFLOAD |-> "CBOFFLOAD4res",
      OP_CB_ILLEGAL |-> "CBILLEGAL4res"], "Refused")
NfsCbResop4 ==
    [read |-> readNfsCbResop4,
     get |-> [OP_CB_GETATTR |-> As("CBGETATTR4resEntry"), OP_CB_RECALL |-> As("CBRECALL4res"),
         OP_CB_LAYOUTRECALL |-> As("CBLAYOUTRECALL4res"), OP_CB_NOTIFY |-> As("CBNOTIFY4res"),
         OP_CB_PUSH_DELEG |-> As("CBPUSHDELEG4res"), OP_CB_RECALL_ANY |-> As("CBRECALLANY4res"),
         OP_CB_RECALLABLE_OBJ_AVAIL |-> As("CBRECALLABLEOBJAVAIL4res"),
         OP_CB_RECALL_SLOT |-> As("CBRECALLSLOT4res"), OP_CB_SEQUENCE |-> As("CBSEQUENCE4resEntry"),
         OP_CB_WANTS_CANCELLED |-> As("CBWANTSCANCELLED4res"),
         OP_CB_NOTIFY_LOCK |-> As("CBNOTIFYLOCK4res"),
         OP_CB_NOTIFY_DEVICEID |-> As("CBNOTIFYDEVICEID4res"), OP_CB_OFFLOAD |-> As("CBOFFLOAD4res"),
         OP_CB_ILLEGAL |-> As("CBILLEGAL4res")]]

readNfsCbArgop4Entry == <<Take(4), SubArm("NfsCbArgop4", 0)>>
NfsCbArgop4EntryWriter ==
    Writer(0, <<Choice("Value", [OP_CB_GETATTR |-> Start("CBGETATTR4args"),
      OP_CB_RECALL |-> Inline("CBRECALL4args", 20),
      OP_CB_LAYOUTRECALL |-> Inline("CBLAYOUTRECALL4args", 16),
      OP_CB_NOTIFY |-> Inline("CBNOTIFY4args", 16), OP_CB_PUSH_DELEG |-> Start("CBPUSHDELEG4args"),
      OP_CB_RECALL_ANY |-> Inline("CBRECALLANY4args", 4),
      OP_CB_RECALLABLE_OBJ_AVAIL |-> Inline("CBRECALLANY4args", 4),
      OP_CB_RECALL_SLOT |-> Fixed("CBRECALLSLOT4args", 4),
      OP_CB_SEQUENCE |-> Inline("CBSEQUENCE4args", 36),
      OP_CB_WANTS_CANCELLED |-> Fixed("CBWANTSCANCELLED4args", 8),
      OP_CB_NOTIFY_LOCK |-> Start("CBNOTIFYLOCK4args"),
      OP_CB_NOTIFY_DEVICEID |-> Inline("CBNOTIFYDEVICEID4args", 4),
      OP_CB_OFFLOAD |-> Start("CBOFFLOAD4args"), OP_CB_ILLEGAL |-> Void])>>)
NfsCbArgop4Entry ==
    [read |-> readNfsCbArgop4Entry,
     get |-> [Disc |-> Num(At(0, 0), 4), Value |-> Arm("NfsCbArgop4", At(0, 4), End, At(0, 0))],
     write |-> NfsCbArgop4EntryWriter]

readCBCOMPOUND4args ==
    <<Sub("Utf8strCs"), Mark, Take(4), Take(4), TakeCount(4, 0), Each("NfsCbArgop4Entry")>>
CBCOMPOUND4argsWriter ==
    Writer(0, <<In(0, Child("Tag", "Utf8strCs")), In(1, App("Minorversion", 4)),
      In(1, App("CallbackIdent", 4)),
      In(1, Late("Argarray", OneOf([OP_CB_GETATTR |-> Start("CBGETATTR4args"),
      OP_CB_RECALL |-> Inline("CBRECALL4args", 20),
      OP_CB_LAYOUTRECALL |-> Inline("CBLAYOUTRECALL4args", 16),
      OP_CB_NOTIFY |-> Inline("CBNOTIFY4args", 16), OP_CB_PUSH_DELEG |-> Start("CBPUSHDELEG4args"),
      OP_CB_RECALL_ANY |-> Inline("CBRECALLANY4args", 4),
      OP_CB_RECALLABLE_OBJ_AVAIL |-> Inline("CBRECALLANY4args", 4),
      OP_CB_RECALL_SLOT |-> Fixed("CBRECALLSLOT4args", 4),
      OP_CB_SEQUENCE |-> Inline("CBSEQUENCE4args", 36),
      OP_CB_WANTS_CANCELLED |-> Fixed("CBWANTSCANCELLED4args", 8),
      OP_CB_NOTIFY_LOCK |-> Start("CBNOTIFYLOCK4args"),
      OP_CB_NOTIFY_DEVICEID |-> Inline("CBNOTIFYDEVICEID4args", 4),
      OP_CB_OFFLOAD |-> Start("CBOFFLOAD4args"), OP_CB_ILLEGAL |-> Void]))), Close("Argarray")>>)
CBCOMPOUND4args ==
    [read |-> readCBCOMPOUND4args,
     get |-> [Tag |-> Cast("Utf8strCs", At(0, 0), At(1, 0)), Minorversion |-> Num(At(1, 0), 4),
         CallbackIdent |-> Num(At(1, 4), 4), Argarray |-> Iter("NfsCbArgop4Entry", At(1, 8), At(1, 12)),
         ArgarrayCount |-> LenOf("Argarray", At(1, 8))],
     write |-> CBCOMPOUND4argsWriter]

NfsCbResop4Entry ==
    EntryOf("NfsCbResop4", [OP_CB_GETATTR |-> Start("CBGETATTR4resEntry"),
        OP_CB_RECALL |-> Fixed("CBRECALL4res", 4),
        OP_CB_LAYOUTRECALL |-> Fixed("CBLAYOUTRECALL4res", 4),
        OP_CB_NOTIFY |-> Fixed("CBNOTIFY4res", 4), OP_CB_PUSH_DELEG |-> Fixed("CBPUSHDELEG4res", 4),
        OP_CB_RECALL_ANY |-> Fixed("CBRECALLANY4res", 4),
        OP_CB_RECALLABLE_OBJ_AVAIL |-> Fixed("CBRECALLABLEOBJAVAIL4res", 4),
        OP_CB_RECALL_SLOT |-> Fixed("CBRECALLSLOT4res", 4),
        OP_CB_SEQUENCE |-> Start("CBSEQUENCE4resEntry"),
        OP_CB_WANTS_CANCELLED |-> Fixed("CBWANTSCANCELLED4res", 4),
        OP_CB_NOTIFY_LOCK |-> Fixed("CBNOTIFYLOCK4res", 4),
        OP_CB_NOTIFY_DEVICEID |-> Fixed("CBNOTIFYDEVICEID4res", 4),
        OP_CB_OFFLOAD |-> Fixed("CBOFFLOAD4res", 4), OP_CB_ILLEGAL |-> Fixed("CBILLEGAL4res", 4)])

readCBCOMPOUND4res == <<Take(4), Sub("Utf8strCs"), Mark, TakeCount(4, 0), Each("NfsCbResop4Entry")>>
CBCOMPOUND4resWriter ==
    Writer(4, <<Put("Status", 0, 4), In(0, Child("Tag", "Utf8strCs")),
      In(1, Late("Resarray", OneOf([OP_CB_GETATTR |-> Start("CBGETATTR4resEntry"),
      OP_CB_RECALL |-> Fixed("CBRECALL4res", 4), OP_CB_LAYOUTRECALL |-> Fixed("CBLAYOUTRECALL4res", 4),
      OP_CB_NOTIFY |-> Fixed("CBNOTIFY4res", 4), OP_CB_PUSH_DELEG |-> Fixed("CBPUSHDELEG4res", 4),
      OP_CB_RECALL_ANY |-> Fixed("CBRECALLANY4res", 4),
      OP_CB_RECALLABLE_OBJ_AVAIL |-> Fixed("CBRECALLABLEOBJAVAIL4res", 4),
      OP_CB_RECALL_SLOT |-> Fixed("CBRECALLSLOT4res", 4),
      OP_CB_SEQUENCE |-> Start("CBSEQUENCE4resEntry"),
      OP_CB_WANTS_CANCELLED |-> Fixed("CBWANTSCANCELLED4res", 4),
      OP_CB_NOTIFY_LOCK |-> Fixed("CBNOTIFYLOCK4res", 4),
      OP_CB_NOTIFY_DEVICEID |-> Fixed("CBNOTIFYDEVICEID4res", 4),
      OP_CB_OFFLOAD |-> Fixed("CBOFFLOAD4res", 4), OP_CB_ILLEGAL |-> Fixed("CBILLEGAL4res", 4)]))),
      Close("Resarray")>>)
CBCOMPOUND4res ==
    [read |-> readCBCOMPOUND4res,
     get |-> [Status |-> Num(At(0, 0), 4), Tag |-> Cast("Utf8strCs", At(0, 4), At(1, 0)),
         Resarray |-> Iter("NfsCbResop4Entry", At(1, 0), At(1, 4)),
         ResarrayCount |-> LenOf("Resarray", At(1, 0))],
     write |-> CBCOMPOUND4resWriter]

OpenArguments4 ==
    [read |-> <<Sub("Bitmap4"), Mark, Sub("Bitmap4"), Mark, Sub("Bitmap4"), Mark, Sub("Bitmap4"), Mark,
         Sub("Bitmap4")>>,
     get |-> [OaShareAccess |-> Cast("Bitmap4", At(0, 0), At(1, 0)),
         OaShareDeny |-> Cast("Bitmap4", At(1, 0), At(2, 0)),
         OaShareAccessWant |-> Cast("Bitmap4", At(2, 0), At(3, 0)),
         OaOpenClaim |-> Cast("Bitmap4", At(3, 0), At(4, 0)),
         OaCreateMode |-> Cast("Bitmap4", At(4, 0), End)],
     write |-> Writer(0, <<In(0, Child("OaShareAccess", "Bitmap4")),
         In(1, Child("OaShareDeny", "Bitmap4")), In(2, Child("OaShareAccessWant", "Bitmap4")),
         In(3, Child("OaOpenClaim", "Bitmap4")), In(4, Child("OaCreateMode", "Bitmap4"))>>)]
=============================================================================
