------------------------------ MODULE NFSOps41 ------------------------------
(***************************************************************************)
(* The arguments and results of the operations of version 4.1. Each type   *)
(* of the generated file has its decoder, its accessors and its writer, in *)
(* the order of the file.                                                  *)
(***************************************************************************)
EXTENDS XDRSteps

BACKCHANNELCTL4args ==
    [read |-> <<TakeCount(8, 4), Each("CallbackSecParms4Entry")>>,
     peek |-> <<Peek(8)>>,
     get |-> [BcaCbProgram |-> Num(At(0, 0), 4), BcaSecParmsCount |-> LenOf("BcaSecParms", At(0, 4)),
         BcaSecParms |-> Iter("CallbackSecParms4Entry", At(0, 4), At(0, 8))],
     write |-> Writer(8, <<Put("BcaCbProgram", 0, 4), Items("BcaSecParms", OneOf([AUTH_NONE |-> Void,
         AUTH_SYS |-> Inline("AuthsysParms", 8), RPCSEC_GSS |-> Inline("GssCbHandles4", 4)])),
         Patch("BcaSecParms", 4)>>)]

BACKCHANNELCTL4res == NumberOnly("BcrStatus", 4)

BINDCONNTOSESSION4args ==
    [read |-> <<Take(24)>>,
     get |-> [BctsaSessid |-> Struct("Sessionid4", At(0, 0)), BctsaDir |-> Num(At(0, 16), 4),
         BctsaUseConnInRdmaMode |-> Num(At(0, 20), 4)],
     write |-> Writer(24, <<Put("BctsaDir", 16, 4), Put("BctsaUseConnInRdmaMode", 20, 4),
         PutIn("BctsaSessid", "Sessionid4", 0)>>)]

BINDCONNTOSESSION4resok ==
    [read |-> <<Take(24)>>,
     get |-> [BctsrSessid |-> Struct("Sessionid4", At(0, 0)), BctsrDir |-> Num(At(0, 16), 4),
         BctsrUseConnInRdmaMode |-> Num(At(0, 20), 4)],
     write |-> Writer(24, <<Put("BctsrDir", 16, 4), Put("BctsrUseConnInRdmaMode", 20, 4),
         PutIn("BctsrSessid", "Sessionid4", 0)>>)]

BINDCONNTOSESSION4res ==
    [read |-> Union([NFS4_OK |-> "BINDCONNTOSESSION4resok"], "Void"),
     get |-> [NFS4_OK |-> As("BINDCONNTOSESSION4resok")]]

StateProtectOps4 ==
    [read |-> <<Sub("Bitmap4"), Mark, Sub("Bitmap4")>>,
     get |-> [SpoMustEnforce |-> Cast("Bitmap4", At(0, 0), At(1, 0)),
         SpoMustAllow |-> Cast("Bitmap4", At(1, 0), End)],
     write |-> Writer(0, <<In(0, Child("SpoMustEnforce", "Bitmap4")),
         In(1, Child("SpoMustAllow", "Bitmap4"))>>)]

SsvSpParms4SspEncrAlgs ==
    [read |-> <<TakeCount(4, 0), Each("SecOid4")>>,
     peek |-> <<Peek(4)>>,
     get |-> [Count |-> LenOf("Data", At(0, 0)), Data |-> Iter("SecOid4", At(0, 0), At(0, 4))],
     write |-> Writer(4, <<Items("Data", Start("SecOid4")), Patch("Data", 0)>>)]

readSsvSpParms4 ==
    <<Sub("StateProtectOps4"), Mark, TakeCount(4, 0), Each("SecOid4"), Mark,
      Sub("SsvSpParms4SspEncrAlgs"), Mark, Take(4), Take(4)>>
SsvSpParms4Writer ==
    Writer(0, <<In(0, Child("SspOps", "StateProtectOps4")),
      In(1, Late("SspHashAlgs", Start("SecOid4"))),
      In(2, Child("SspEncrAlgs", "SsvSpParms4SspEncrAlgs")), In(3, App("SspWindow", 4)),
      In(3, App("SspNumGssHandles", 4)), Close("SspHashAlgs")>>)
SsvSpParms4 ==
    [read |-> readSsvSpParms4,
     get |-> [SspOps |-> Reread("StateProtectOps4", At(0, 0), At(1, 0)),
         SspHashAlgs |-> Iter("SecOid4", At(1, 0), At(1, 4)),
         SspHashAlgsCount |-> LenOf("SspHashAlgs", At(1, 0)),
         SspEncrAlgs |-> Cast("SsvSpParms4SspEncrAlgs", At(2, 0), At(3, 0)),
         SspWindow |-> Num(At(3, 0), 4), SspNumGssHandles |-> Num(At(3, 4), 4)],
     write |-> SsvSpParms4Writer]

StateProtect4A ==
    [read |-> Union([SP4_NONE |-> "Void", SP4_MACH_CRED |-> "StateProtectOps4",
         SP4_SSV |-> "SsvSpParms4"], "Refused"),
     get |-> [SP4_MACH_CRED |-> AsRead("StateProtectOps4"), SP4_SSV |-> AsRead("SsvSpParms4")]]

readEXCHANGEID4args ==
    <<Sub("ClientOwner4"), Mark, Take(4), TakeCount(4, 0), SubArmHere("StateProtect4A"), Mark,
      TakeCount(4, 0), Each("NfsImplId4")>>
EXCHANGEID4argsWriter ==
    Writer(0, <<In(0, Child("EiaClientowner", "ClientOwner4")), In(1, App("EiaFlags", 4)),
      In(1, Choice("EiaStateProtect", [SP4_NONE |-> Void, SP4_MACH_CRED |-> Start("StateProtectOps4"),
      SP4_SSV |-> Start("SsvSpParms4")])), In(2, Late("EiaClientImplId", Start("NfsImplId4"))),
      Close("EiaClientImplId")>>)
EXCHANGEID4args ==
    [read |-> readEXCHANGEID4args,
     get |-> [EiaClientowner |-> Cast("ClientOwner4", At(0, 0), At(1, 0)),
         EiaFlags |-> Num(At(1, 0), 4), EiaStateProtectType |-> Num(At(1, 4), 4),
         EiaStateProtect |-> Arm("StateProtect4A", At(1, 8), At(2, 0), At(1, 4)),
         EiaClientImplId |-> Iter("NfsImplId4", At(2, 0), At(2, 4)),
         EiaClientImplIdCount |-> LenOf("EiaClientImplId", At(2, 0))],
     write |-> EXCHANGEID4argsWriter]

readSsvProtInfo4 ==
    <<Sub("StateProtectOps4"), Mark, Take(4), Take(4), Take(4), Take(4), TakeCount(4, 0),
      Each("Gsshandle4T")>>
SsvProtInfo4Writer ==
    Writer(0, <<In(0, Child("SpiOps", "StateProtectOps4")), In(1, App("SpiHashAlg", 4)),
      In(1, App("SpiEncrAlg", 4)), In(1, App("SpiSsvLen", 4)), In(1, App("SpiWindow", 4)),
      In(1, Late("SpiHandles", Start("Gsshandle4T"))), Close("SpiHandles")>>)
SsvProtInfo4 ==
    [read |-> readSsvProtInfo4,
     get |-> [SpiOps |-> Reread("StateProtectOps4", At(0, 0), At(1, 0)),
         SpiHashAlg |-> Num(At(1, 0), 4), SpiEncrAlg |-> Num(At(1, 4), 4),
         SpiSsvLen |-> Num(At(1, 8), 4), SpiWindow |-> Num(At(1, 12), 4),
         SpiHandles |-> Iter("Gsshandle4T", At(1, 16), At(1, 20)),
         SpiHandlesCount |-> LenOf("SpiHandles", At(1, 16))],
     write |-> SsvProtInfo4Writer]

StateProtect4R ==
    [read |-> Union([SP4_NONE |-> "Void", SP4_MACH_CRED |-> "StateProtectOps4",
         SP4_SSV |-> "SsvProtInfo4"], "Refused"),
     get |-> [SP4_MACH_CRED |-> AsRead("StateProtectOps4"), SP4_SSV |-> AsRead("SsvProtInfo4")]]

EXCHANGEID4resokEirServerImplId ==
    [read |-> <<TakeCount(4, 0), Each("NfsImplId4")>>,
     peek |-> <<Peek(4)>>,
     get |-> [Count |-> LenOf("Data", At(0, 0)), Data |-> Iter("NfsImplId4", At(0, 0), At(0, 4))],
     write |-> Writer(4, <<Items("Data", Start("NfsImplId4")), Patch("Data", 0)>>)]

readEXCHANGEID4resok ==
    <<Take(20), SubArm("StateProtect4R", 16), Mark, Sub("ServerOwner4"), Mark, TakeCount(4, 0),
      Elems(1), Mark, Align, Sub("EXCHANGEID4resokEirServerImplId")>>
EXCHANGEID4resokWriter ==
    Writer(20, <<Put("EirClientid", 0, 8), Put("EirSequenceid", 8, 4), Put("EirFlags", 12, 4),
      Put("EirStateProtectType", 16, 4), ChoiceAt("EirStateProtect", 16, [SP4_NONE |-> Void,
      SP4_MACH_CRED |-> Start("StateProtectOps4"), SP4_SSV |-> Start("SsvProtInfo4")]),
      In(1, Child("EirServerOwner", "ServerOwner4")), In(2, LatePad("EirServerScope")),
      In(2, Child("EirServerImplId", "EXCHANGEID4resokEirServerImplId")), Close("EirServerScope")>>)
EXCHANGEID4resok ==
    [read |-> readEXCHANGEID4resok,
     get |-> [EirClientid |-> Num(At(0, 0), 8), EirSequenceid |-> Num(At(0, 8), 4),
         EirFlags |-> Num(At(0, 12), 4), EirStateProtectType |-> Num(At(0, 16), 4),
         EirStateProtect |-> Arm("StateProtect4R", At(0, 20), At(1, 0), At(0, 16)),
         EirServerOwner |-> Cast("ServerOwner4", At(1, 0), At(2, 0)),
         EirServerScope |-> Data(At(2, 0), At(2, 4)),
         EirServerScopeLen |-> LenOf("EirServerScope", At(2, 0)),
         EirServerImplId |-> Cast("EXCHANGEID4resokEirServerImplId", At(3, 0), End)],
     write |-> EXCHANGEID4resokWriter]

EXCHANGEID4res ==
    [read |-> Union([NFS4_OK |-> "EXCHANGEID4resok"], "Void"),
     get |-> [NFS4_OK |-> AsRead("EXCHANGEID4resok")]]

ChannelAttrs4 ==
    [read |-> <<TakeCount(28, 24), Elems(4)>>,
     get |-> [CaHeaderpadsize |-> Num(At(0, 0), 4), CaMaxrequestsize |-> Num(At(0, 4), 4),
         CaMaxresponsesize |-> Num(At(0, 8), 4), CaMaxresponsesizeCached |-> Num(At(0, 12), 4),
         CaMaxoperations |-> Num(At(0, 16), 4), CaMaxrequests |-> Num(At(0, 20), 4),
         CaRdmaIrdCount |-> LenOf("CaRdmaIrd", At(0, 24)),
         CaRdmaIrd |-> Nth("", At(0, 24), At(0, 28), 4)],
     write |-> Writer(28, <<Put("CaHeaderpadsize", 0, 4), Put("CaMaxrequestsize", 4, 4),
         Put("CaMaxresponsesize", 8, 4), Put("CaMaxresponsesizeCached", 12, 4),
         Put("CaMaxoperations", 16, 4), Put("CaMaxrequests", 20, 4), Items("CaRdmaIrd", Word(4)),
         Patch("CaRdmaIrd", 24)>>)]

readCREATESESSION4args ==
    <<Take(16), Sub("ChannelAttrs4"), Mark, Sub("ChannelAttrs4"), Mark, Take(4), TakeCount(4, 0),
      Each("CallbackSecParms4Entry")>>
CREATESESSION4argsWriter ==
    Writer(16, <<Put("CsaClientid", 0, 8), Put("CsaSequence", 8, 4), Put("CsaFlags", 12, 4),
      In(0, Child("CsaForeChanAttrs", "ChannelAttrs4")),
      In(1, Child("CsaBackChanAttrs", "ChannelAttrs4")), In(2, App("CsaCbProgram", 4)),
      In(2, Late("CsaSecParms", OneOf([AUTH_NONE |-> Void, AUTH_SYS |-> Inline("AuthsysParms", 8),
      RPCSEC_GSS |-> Inline("GssCbHandles4", 4)]))), Close("CsaSecParms")>>)
CREATESESSION4args ==
    [read |-> readCREATESESSION4args,
     get |-> [CsaClientid |-> Num(At(0, 0), 8), CsaSequence |-> Num(At(0, 8), 4),
         CsaFlags |-> Num(At(0, 12), 4),
         CsaForeChanAttrs |-> Cast("ChannelAttrs4", At(0, 16), At(1, 0)),
         CsaBackChanAttrs |-> Cast("ChannelAttrs4", At(1, 0), At(2, 0)),
         CsaCbProgram |-> Num(At(2, 0), 4),
         CsaSecParms |-> Iter("CallbackSecParms4Entry", At(2, 4), At(2, 8)),
         CsaSecParmsCount |-> LenOf("CsaSecParms", At(2, 4))],
     write |-> CREATESESSION4argsWriter]

CREATESESSION4resok ==
    [read |-> <<Take(24), Sub("ChannelAttrs4"), Mark, Sub("ChannelAttrs4")>>,
     get |-> [CsrSessionid |-> Struct("Sessionid4", At(0, 0)), CsrSequence |-> Num(At(0, 16), 4),
         CsrFlags |-> Num(At(0, 20), 4),
         CsrForeChanAttrs |-> Cast("ChannelAttrs4", At(0, 24), At(1, 0)),
         CsrBackChanAttrs |-> Cast("ChannelAttrs4", At(1, 0), End)],
     write |-> Writer(24, <<PutIn("CsrSessionid", "Sessionid4", 0), Put("CsrSequence", 16, 4),
         Put("CsrFlags", 20, 4), In(0, Child("CsrForeChanAttrs", "ChannelAttrs4")),
         In(1, Child("CsrBackChanAttrs", "ChannelAttrs4"))>>)]

CREATESESSION4res ==
    [read |-> Union([NFS4_OK |-> "CREATESESSION4resok"], "Void"),
     get |-> [NFS4_OK |-> AsRead("CREATESESSION4resok")]]

DESTROYSESSION4args ==
    [read |-> <<Take(16)>>,
     get |-> [DsaSessionid |-> Struct("Sessionid4", At(0, 0))],
     write |-> Writer(16, <<PutIn("DsaSessionid", "Sessionid4", 0)>>)]

DESTROYSESSION4res == NumberOnly("DsrStatus", 4)

FREESTATEID4args ==
    [read |-> <<Take(16)>>,
     get |-> [FsaStateid |-> Struct("Stateid4", At(0, 0))],
     write |-> Writer(16, <<PutIn("FsaStateid", "Stateid4", 0)>>)]

FREESTATEID4res == NumberOnly("FsrStatus", 4)

GETDIRDELEGATION4args ==
    [read |-> <<Take(4), Sub("Bitmap4"), Mark, Take(12), Take(12), Sub("Bitmap4"), Mark,
         Sub("Bitmap4")>>,
     get |-> [GddaSignalDelegAvail |-> Num(At(0, 0), 4),
         GddaNotificationTypes |-> Cast("Bitmap4", At(0, 4), At(1, 0)),
         GddaChildAttrDelay |-> Struct("Nfstime4", At(1, 0)),
         GddaDirAttrDelay |-> Struct("Nfstime4", At(1, 12)),
         GddaChildAttributes |-> Cast("Bitmap4", At(1, 24), At(2, 0)),
         GddaDirAttributes |-> Cast("Bitmap4", At(2, 0), End)],
     write |-> Writer(4, <<Put("GddaSignalDelegAvail", 0, 4),
         In(0, Child("GddaNotificationTypes", "Bitmap4")),
         In(1, Child("GddaChildAttributes", "Bitmap4")), In(2, Child("GddaDirAttributes", "Bitmap4"))>>)]

GETDIRDELEGATION4resok ==
    [read |-> <<Take(24), Sub("Bitmap4"), Mark, Sub("Bitmap4"), Mark, Sub("Bitmap4")>>,
     get |-> [GddrCookieverf |-> Struct("Verifier4", At(0, 0)),
         GddrStateid |-> Struct("Stateid4", At(0, 8)),
         GddrNotification |-> Cast("Bitmap4", At(0, 24), At(1, 0)),
         GddrChildAttributes |-> Cast("Bitmap4", At(1, 0), At(2, 0)),
         GddrDirAttributes |-> Cast("Bitmap4", At(2, 0), End)],
     write |-> Writer(24, <<PutIn("GddrCookieverf", "Verifier4", 0),
         PutIn("GddrStateid", "Stateid4", 8), In(0, Child("GddrNotification", "Bitmap4")),
         In(1, Child("GddrChildAttributes", "Bitmap4")), In(2, Child("GddrDirAttributes", "Bitmap4"))>>)]

GETDIRDELEGATION4resNonFatalGDD4UNAVAIL == NumberOnly("Value", 4)

GETDIRDELEGATION4resNonFatal ==
    [read |-> Union([GDD4_OK |-> "GETDIRDELEGATION4resok",
         GDD4_UNAVAIL |-> "GETDIRDELEGATION4resNonFatalGDD4UNAVAIL"], "Refused"),
     get |-> [GDD4_OK |-> AsRead("GETDIRDELEGATION4resok"),
         GDD4_UNAVAIL |-> As("GETDIRDELEGATION4resNonFatalGDD4UNAVAIL")]]

GETDIRDELEGATION4resNonFatalEntry ==
    EntryOf("GETDIRDELEGATION4resNonFatal", [GDD4_OK |-> Inline("GETDIRDELEGATION4resok", 24),
        GDD4_UNAVAIL |-> Fixed("GETDIRDELEGATION4resNonFatalGDD4UNAVAIL", 4)])

GETDIRDELEGATION4res ==
    [read |-> Union([NFS4_OK |-> "GETDIRDELEGATION4resNonFatalEntry"], "Void"),
     get |-> [NFS4_OK |-> As("GETDIRDELEGATION4resNonFatalEntry")]]

GETDEVICEINFO4args ==
    [read |-> <<Take(24), Sub("Bitmap4")>>,
     get |-> [GdiaDeviceId |-> Struct("Deviceid4", At(0, 0)), GdiaLayoutType |-> Num(At(0, 16), 4),
         GdiaMaxcount |-> Num(At(0, 20), 4), GdiaNotifyTypes |-> Cast("Bitmap4", At(0, 24), End)],
     write |-> Writer(24, <<PutIn("GdiaDeviceId", "Deviceid4", 0), Put("GdiaLayoutType", 16, 4),
         Put("GdiaMaxcount", 20, 4), Child("GdiaNotifyTypes", "Bitmap4")>>)]

GETDEVICEINFO4resok ==
    [read |-> <<Sub("DeviceAddr4"), Mark, Sub("Bitmap4")>>,
     get |-> [GdirDeviceAddr |-> Cast("DeviceAddr4", At(0, 0), At(1, 0)),
         GdirNotification |-> Cast("Bitmap4", At(1, 0), End)],
     write |-> Writer(0, <<In(0, Child("GdirDeviceAddr", "DeviceAddr4")),
         In(1, Child("GdirNotification", "Bitmap4"))>>)]

GETDEVICEINFO4resNFS4ERRTOOSMALL == NumberOnly("Value", 4)

GETDEVICEINFO4res ==
    [read |-> Union([NFS4_OK |-> "GETDEVICEINFO4resok",
         NFS4ERR_TOOSMALL |-> "GETDEVICEINFO4resNFS4ERRTOOSMALL"], "Void"),
     get |-> [NFS4_OK |-> AsRead("GETDEVICEINFO4resok"),
         NFS4ERR_TOOSMALL |-> As("GETDEVICEINFO4resNFS4ERRTOOSMALL")]]

GETDEVICELIST4args ==
    [read |-> <<Take(24)>>,
     get |-> [GdlaLayoutType |-> Num(At(0, 0), 4), GdlaMaxdevices |-> Num(At(0, 4), 4),
         GdlaCookie |-> Num(At(0, 8), 8), GdlaCookieverf |-> Struct("Verifier4", At(0, 16))],
     write |-> Writer(24, <<Put("GdlaLayoutType", 0, 4), Put("GdlaMaxdevices", 4, 4),
         Put("GdlaCookie", 8, 8), PutIn("GdlaCookieverf", "Verifier4", 16)>>)]

GETDEVICELIST4resok ==
    [read |-> <<TakeCount(20, 16), Elems(16), Mark, Take(4)>>,
     get |-> [GdlrCookie |-> Num(At(0, 0), 8), GdlrCookieverf |-> Struct("Verifier4", At(0, 8)),
         GdlrDeviceidList |-> Nth("Deviceid4", At(0, 16), At(0, 20), 16),
         GdlrDeviceidListCount |-> LenOf("GdlrDeviceidList", At(0, 16)), GdlrEof |-> Num(At(1, 0), 4)],
     write |-> Writer(20, <<Put("GdlrCookie", 0, 8), PutIn("GdlrCookieverf", "Verifier4", 8),
         Items("GdlrDeviceidList", Fixed("Deviceid4", 16)), App("GdlrEof", 4),
         Patch("GdlrDeviceidList", 16)>>)]

GETDEVICELIST4res ==
    [read |-> Union([NFS4_OK |-> "GETDEVICELIST4resok"], "Void"),
     get |-> [NFS4_OK |-> AsRead("GETDEVICELIST4resok")]]

Newtime4 ==
    [read |-> Union([XDR_TRUE |-> "Nfstime4", XDR_FALSE |-> "Void"], "Refused"),
     get |-> [XDR_TRUE |-> As("Nfstime4")]]

Newoffset4TRUE == NumberOnly("Value", 8)

Newoffset4 ==
    [read |-> Union([XDR_TRUE |-> "Newoffset4TRUE", XDR_FALSE |-> "Void"], "Refused"),
     get |-> [XDR_TRUE |-> As("Newoffset4TRUE")]]

LAYOUTCOMMIT4args ==
    [read |-> <<Take(40), SubArm("Newoffset4", 36), Mark, TakeCount(4, 0), SubArmHere("Newtime4"), Mark,
         Sub("Layoutupdate4")>>,
     get |-> [LocaOffset |-> Num(At(0, 0), 8), LocaLength |-> Num(At(0, 8), 8),
         LocaReclaim |-> Num(At(0, 16), 4), LocaStateid |-> Struct("Stateid4", At(0, 20)),
         LocaLastWriteOffsetType |-> Num(At(0, 36), 4),
         LocaLastWriteOffset |-> Arm("Newoffset4", At(0, 40), At(1, 0), At(0, 36)),
         LocaTimeModifyType |-> Num(At(1, 0), 4),
         LocaTimeModify |-> Arm("Newtime4", At(1, 4), At(2, 0), At(1, 0)),
         LocaLayoutupdate |-> Cast("Layoutupdate4", At(2, 0), End)],
     write |-> Writer(40, <<Put("LocaOffset", 0, 8), Put("LocaLength", 8, 8), Put("LocaReclaim", 16, 4),
         PutIn("LocaStateid", "Stateid4", 20), Put("LocaLastWriteOffsetType", 36, 4),
         ChoiceAt("LocaLastWriteOffset", 36, [XDR_TRUE |-> Fixed("Newoffset4TRUE", 8),
         XDR_FALSE |-> Void]), Choice("LocaTimeModify", [XDR_TRUE |-> Fixed("Nfstime4", 12),
         XDR_FALSE |-> Void]), Child("LocaLayoutupdate", "Layoutupdate4")>>)]

Newsize4TRUE == NumberOnly("Value", 8)

Newsize4 ==
    [read |-> Union([XDR_TRUE |-> "Newsize4TRUE", XDR_FALSE |-> "Void"], "Refused"),
     get |-> [XDR_TRUE |-> As("Newsize4TRUE")]]

LAYOUTCOMMIT4resok ==
    [read |-> <<Take(4), SubArm("Newsize4", 0)>>,
     get |-> [LocrNewsizeType |-> Num(At(0, 0), 4),
         LocrNewsize |-> Arm("Newsize4", At(0, 4), End, At(0, 0))],
     write |-> Writer(0, <<Choice("LocrNewsize", [XDR_TRUE |-> Fixed("Newsize4TRUE", 8),
         XDR_FALSE |-> Void])>>)]

LAYOUTCOMMIT4res ==
    [read |-> Union([NFS4_OK |-> "LAYOUTCOMMIT4resok"], "Void"),
     get |-> [NFS4_OK |-> As("LAYOUTCOMMIT4resok")]]

LAYOUTGET4args ==
    [read |-> <<Take(56)>>,
     get |-> [LogaSignalLayoutAvail |-> Num(At(0, 0), 4), LogaLayoutType |-> Num(At(0, 4), 4),
         LogaIomode |-> Num(At(0, 8), 4), LogaOffset |-> Num(At(0, 12), 8),
         LogaLength |-> Num(At(0, 20), 8), LogaMinlength |-> Num(At(0, 28), 8),
         LogaStateid |-> Struct("Stateid4", At(0, 36)), LogaMaxcount |-> Num(At(0, 52), 4)],
     write |-> Writer(56, <<Put("LogaSignalLayoutAvail", 0, 4), Put("LogaLayoutType", 4, 4),
         Put("LogaIomode", 8, 4), Put("LogaOffset", 12, 8), Put("LogaLength", 20, 8),
         Put("LogaMinlength", 28, 8), Put("LogaMaxcount", 52, 4),
         PutIn("LogaStateid", "Stateid4", 36)>>)]

LAYOUTGET4resok ==
    [read |-> <<TakeCount(24, 20), Each("Layout4")>>,
     peek |-> <<Peek(24)>>,
     get |-> [LogrReturnOnClose |-> Num(At(0, 0), 4), LogrStateid |-> Struct("Stateid4", At(0, 4)),
         LogrLayoutCount |-> LenOf("LogrLayout", At(0, 20)),
         LogrLayout |-> Iter("Layout4", At(0, 20), At(0, 24))],
     write |-> Writer(24, <<Put("LogrReturnOnClose", 0, 4), PutIn("LogrStateid", "Stateid4", 4),
         Items("LogrLayout", Start("Layout4")), Patch("LogrLayout", 20)>>)]

LAYOUTGET4resNFS4ERRLAYOUTTRYLATER == NumberOnly("Value", 4)

LAYOUTGET4res ==
    [read |-> Union([NFS4_OK |-> "LAYOUTGET4resok",
         NFS4ERR_LAYOUTTRYLATER |-> "LAYOUTGET4resNFS4ERRLAYOUTTRYLATER"], "Void"),
     get |-> [NFS4_OK |-> As("LAYOUTGET4resok"),
         NFS4ERR_LAYOUTTRYLATER |-> As("LAYOUTGET4resNFS4ERRLAYOUTTRYLATER")]]

LAYOUTRETURN4args ==
    [read |-> <<Take(16), SubArm("Layoutreturn4", 12)>>,
     get |-> [LoraReclaim |-> Num(At(0, 0), 4), LoraLayoutType |-> Num(At(0, 4), 4),
         LoraIomode |-> Num(At(0, 8), 4), LoraLayoutreturnType |-> Num(At(0, 12), 4),
         LoraLayoutreturn |-> Arm("Layoutreturn4", At(0, 16), End, At(0, 12))],
     write |-> Writer(16, <<Put("LoraReclaim", 0, 4), Put("LoraLayoutType", 4, 4),
         Put("LoraIomode", 8, 4), Put("LoraLayoutreturnType", 12, 4),
         ChoiceAt("LoraLayoutreturn", 12, [LAYOUTRETURN4_FILE |-> Inline("LayoutreturnFile4", 36),
         Default |-> Void])>>)]

LayoutreturnStateid ==
    [read |-> Union([XDR_TRUE |-> "Stateid4", XDR_FALSE |-> "Void"], "Refused"),
     get |-> [XDR_TRUE |-> As("Stateid4")]]

LayoutreturnStateidEntry ==
    EntryOf("LayoutreturnStateid", [XDR_TRUE |-> Fixed("Stateid4", 16), XDR_FALSE |-> Void])

LAYOUTRETURN4res ==
    [read |-> Union([NFS4_OK |-> "LayoutreturnStateidEntry"], "Void"),
     get |-> [NFS4_OK |-> As("LayoutreturnStateidEntry")]]

SEQUENCE4args ==
    [read |-> <<Take(32)>>,
     get |-> [SaSessionid |-> Struct("Sessionid4", At(0, 0)), SaSequenceid |-> Num(At(0, 16), 4),
         SaSlotid |-> Num(At(0, 20), 4), SaHighestSlotid |-> Num(At(0, 24), 4),
         SaCachethis |-> Num(At(0, 28), 4)],
     write |-> Writer(32, <<Put("SaSequenceid", 16, 4), Put("SaSlotid", 20, 4),
         Put("SaHighestSlotid", 24, 4), Put("SaCachethis", 28, 4),
         PutIn("SaSessionid", "Sessionid4", 0)>>)]

SEQUENCE4resok ==
    [read |-> <<Take(36)>>,
     get |-> [SrSessionid |-> Struct("Sessionid4", At(0, 0)), SrSequenceid |-> Num(At(0, 16), 4),
         SrSlotid |-> Num(At(0, 20), 4), SrHighestSlotid |-> Num(At(0, 24), 4),
         SrTargetHighestSlotid |-> Num(At(0, 28), 4), SrStatusFlags |-> Num(At(0, 32), 4)],
     write |-> Writer(36, <<Put("SrSequenceid", 16, 4), Put("SrSlotid", 20, 4),
         Put("SrHighestSlotid", 24, 4), Put("SrTargetHighestSlotid", 28, 4),
         Put("SrStatusFlags", 32, 4), PutIn("SrSessionid", "Sessionid4", 0)>>)]

SEQUENCE4res ==
    [read |-> Union([NFS4_OK |-> "SEQUENCE4resok"], "Void"),
     get |-> [NFS4_OK |-> As("SEQUENCE4resok")]]

SsaDigestInput4 ==
    [read |-> <<Take(32)>>,
     get |-> [SdiSeqargs |-> Struct("SEQUENCE4args", At(0, 0))],
     write |-> Writer(32, <<PutIn("SdiSeqargs", "SEQUENCE4args", 0)>>)]

SETSSV4args ==
    [read |-> <<Sub("XdrOpaque"), Mark, Sub("XdrOpaque")>>,
     get |-> [SsaSsv |-> Cast("XdrOpaque", At(0, 0), At(1, 0)),
         SsaDigest |-> Cast("XdrOpaque", At(1, 0), End)],
     write |-> Writer(0, <<In(0, Child("SsaSsv", "XdrOpaque")),
         In(1, Child("SsaDigest", "XdrOpaque"))>>)]

SsrDigestInput4 ==
    [read |-> <<Take(4), SubArm("SEQUENCE4res", 0)>>,
     get |-> [SdiSeqresType |-> Num(At(0, 0), 4),
         SdiSeqres |-> Arm("SEQUENCE4res", At(0, 4), End, At(0, 0))],
     write |-> Writer(0, <<Choice("SdiSeqres", [NFS4_OK |-> Fixed("SEQUENCE4resok", 36),
         Default |-> Void])>>)]

SETSSV4resok ==
    [read |-> <<TakePadded(4, 0)>>,
     get |-> [SsrDigestLen |-> LenOf("SsrDigest", At(0, 0)), SsrDigest |-> Data(At(0, 0), At(0, 4))],
     write |-> Writer(0, <<Opaque("SsrDigest")>>)]

SETSSV4res ==
    [read |-> Union([NFS4_OK |-> "SETSSV4resok"], "Void"),
     get |-> [NFS4_OK |-> As("SETSSV4resok")]]

TESTSTATEID4args ==
    [read |-> <<TakeCount(4, 0), Elems(16)>>,
     get |-> [TsStateidsCount |-> LenOf("TsStateids", At(0, 0)),
         TsStateids |-> Nth("Stateid4", At(0, 0), At(0, 4), 16)],
     write |-> Writer(4, <<Items("TsStateids", Fixed("Stateid4", 16)), Patch("TsStateids", 0)>>)]

TESTSTATEID4resok ==
    [read |-> <<TakeCount(4, 0), Elems(4)>>,
     get |-> [TsrStatusCodesCount |-> LenOf("TsrStatusCodes", At(0, 0))],
     write |-> Writer(4, <<Items("TsrStatusCodes", Word(4)), Patch("TsrStatusCodes", 0)>>)]

TESTSTATEID4res ==
    [read |-> Union([NFS4_OK |-> "TESTSTATEID4resok"], "Void"),
     get |-> [NFS4_OK |-> As("TESTSTATEID4resok")]]

DelegClaim4CLAIMPREVIOUS == NumberOnly("Value", 4)

DelegClaim4 ==
    [read |-> Union([CLAIM_FH |-> "Void", CLAIM_DELEG_PREV_FH |-> "Void",
         CLAIM_PREVIOUS |-> "DelegClaim4CLAIMPREVIOUS"], "Refused"),
     get |-> [CLAIM_PREVIOUS |-> As("DelegClaim4CLAIMPREVIOUS")]]

WANTDELEGATION4args ==
    [read |-> <<Take(8), SubArm("DelegClaim4", 4)>>,
     get |-> [WdaWant |-> Num(At(0, 0), 4), WdaClaimType |-> Num(At(0, 4), 4),
         WdaClaim |-> Arm("DelegClaim4", At(0, 8), End, At(0, 4))],
     write |-> Writer(8, <<Put("WdaWant", 0, 4), Put("WdaClaimType", 4, 4),
         ChoiceAt("WdaClaim", 4, [CLAIM_FH |-> Void, CLAIM_DELEG_PREV_FH |-> Void,
         CLAIM_PREVIOUS |-> Fixed("DelegClaim4CLAIMPREVIOUS", 4)])>>)]

OpenDelegation4Entry ==
    EntryOf("OpenDelegation4", [OPEN_DELEGATE_NONE |-> Void,
        OPEN_DELEGATE_READ |-> Inline("OpenReadDelegation4", 20),
        OPEN_DELEGATE_READ_ATTRS_DELEG |-> Inline("OpenReadDelegation4", 20),
        OPEN_DELEGATE_WRITE |-> Inline("OpenWriteDelegation4", 24),
        OPEN_DELEGATE_WRITE_ATTRS_DELEG |-> Inline("OpenWriteDelegation4", 24),
        OPEN_DELEGATE_NONE_EXT |-> Start("OpenNoneDelegation4Entry")])

WANTDELEGATION4res ==
    [read |-> Union([NFS4_OK |-> "OpenDelegation4Entry"], "Void"),
     get |-> [NFS4_OK |-> As("OpenDelegation4Entry")]]

DESTROYCLIENTID4args == NumberOnly("DcaClientid", 8)

DESTROYCLIENTID4res == NumberOnly("DcrStatus", 4)

RECLAIMCOMPLETE4args == NumberOnly("RcaOneFs", 4)

RECLAIMCOMPLETE4res == NumberOnly("RcrStatus", 4)
=============================================================================
