------------------------------ MODULE NFSOps42 ------------------------------
(***************************************************************************)
(* The arguments and results of the operations of version 4.2, the         *)
(* flexible file layouts and the extended attributes. Each type of the     *)
(* generated file has its decoder, its accessors and its writer, in the    *)
(* order of the file.                                                      *)
(***************************************************************************)
EXTENDS XDRSteps

COPY4args ==
    [read |-> <<TakeCount(68, 64), Each("Netloc4Entry")>>,
     peek |-> <<Peek(68)>>,
     get |-> [CaSrcStateid |-> Struct("Stateid4", At(0, 0)),
         CaDstStateid |-> Struct("Stateid4", At(0, 16)), CaSrcOffset |-> Num(At(0, 32), 8),
         CaDstOffset |-> Num(At(0, 40), 8), CaCount |-> Num(At(0, 48), 8),
         CaConsecutive |-> Num(At(0, 56), 4), CaSynchronous |-> Num(At(0, 60), 4),
         CaSourceServerCount |-> LenOf("CaSourceServer", At(0, 64)),
         CaSourceServer |-> Iter("Netloc4Entry", At(0, 64), At(0, 68))],
     write |-> Writer(68, <<PutIn("CaSrcStateid", "Stateid4", 0), PutIn("CaDstStateid", "Stateid4", 16),
         Put("CaSrcOffset", 32, 8), Put("CaDstOffset", 40, 8), Put("CaCount", 48, 8),
         Put("CaConsecutive", 56, 4), Put("CaSynchronous", 60, 4),
         Items("CaSourceServer", OneOf([NL4_NAME |-> Start("Utf8strCis"),
         NL4_URL |-> Start("Utf8strCis"), NL4_NETADDR |-> Start("Netaddr4")])),
         Patch("CaSourceServer", 64)>>)]

CopyRequirements4 ==
    [read |-> <<Take(8)>>,
     get |-> [CrConsecutive |-> Num(At(0, 0), 4), CrSynchronous |-> Num(At(0, 4), 4)],
     write |-> Writer(8, <<Put("CrConsecutive", 0, 4), Put("CrSynchronous", 4, 4)>>)]

COPY4resok ==
    [read |-> <<Sub("WriteResponse4"), Mark, Take(8)>>,
     get |-> [CrResponse |-> Reread("WriteResponse4", At(0, 0), At(1, 0)),
         CrRequirements |-> Struct("CopyRequirements4", At(1, 0))],
     write |-> Writer(0, <<Child("CrResponse", "WriteResponse4")>>)]

COPY4res ==
    [read |-> Union([NFS4_OK |-> "COPY4resok", NFS4ERR_OFFLOAD_NO_REQS |-> "CopyRequirements4"], "Void"),
     get |-> [NFS4_OK |-> AsRead("COPY4resok"), NFS4ERR_OFFLOAD_NO_REQS |-> As("CopyRequirements4")]]

COPYNOTIFY4args ==
    [read |-> <<Take(20), SubArm("Netloc4", 16)>>,
     get |-> [CnaSrcStateid |-> Struct("Stateid4", At(0, 0)),
         CnaDestinationServerType |-> Num(At(0, 16), 4),
         CnaDestinationServer |-> Arm("Netloc4", At(0, 20), End, At(0, 16))],
     write |-> Writer(20, <<PutIn("CnaSrcStateid", "Stateid4", 0),
         Put("CnaDestinationServerType", 16, 4),
         ChoiceAt("CnaDestinationServer", 16, [NL4_NAME |-> Start("Utf8strCis"),
         NL4_URL |-> Start("Utf8strCis"), NL4_NETADDR |-> Start("Netaddr4")])>>)]

COPYNOTIFY4resok ==
    [read |-> <<TakeCount(32, 28), Each("Netloc4Entry")>>,
     peek |-> <<Peek(32)>>,
     get |-> [CnrLeaseTime |-> Struct("Nfstime4", At(0, 0)),
         CnrStateid |-> Struct("Stateid4", At(0, 12)),
         CnrSourceServerCount |-> LenOf("CnrSourceServer", At(0, 28)),
         CnrSourceServer |-> Iter("Netloc4Entry", At(0, 28), At(0, 32))],
     write |-> Writer(32, <<PutIn("CnrLeaseTime", "Nfstime4", 0), PutIn("CnrStateid", "Stateid4", 12),
         Items("CnrSourceServer", OneOf([NL4_NAME |-> Start("Utf8strCis"),
         NL4_URL |-> Start("Utf8strCis"), NL4_NETADDR |-> Start("Netaddr4")])),
         Patch("CnrSourceServer", 28)>>)]

COPYNOTIFY4res ==
    [read |-> Union([NFS4_OK |-> "COPYNOTIFY4resok"], "Void"),
     get |-> [NFS4_OK |-> As("COPYNOTIFY4resok")]]

OFFLOADCANCEL4args ==
    [read |-> <<Take(16)>>,
     get |-> [OcaStateid |-> Struct("Stateid4", At(0, 0))],
     write |-> Writer(16, <<PutIn("OcaStateid", "Stateid4", 0)>>)]

OFFLOADCANCEL4res == NumberOnly("OcrStatus", 4)

OFFLOADSTATUS4args ==
    [read |-> <<Take(16)>>,
     get |-> [OsaStateid |-> Struct("Stateid4", At(0, 0))],
     write |-> Writer(16, <<PutIn("OsaStateid", "Stateid4", 0)>>)]

OFFLOADSTATUS4resok ==
    [read |-> <<TakeCount(12, 8), Elems(4)>>,
     get |-> [OsrCount |-> Num(At(0, 0), 8), OsrCompleteCount |-> LenOf("OsrComplete", At(0, 8))],
     write |-> Writer(12, <<Put("OsrCount", 0, 8), Items("OsrComplete", Word(4)),
         Patch("OsrComplete", 8)>>)]

OFFLOADSTATUS4res ==
    [read |-> Union([NFS4_OK |-> "OFFLOADSTATUS4resok"], "Void"),
     get |-> [NFS4_OK |-> As("OFFLOADSTATUS4resok")]]

ALLOCATE4args ==
    [read |-> <<Take(32)>>,
     get |-> [AaStateid |-> Struct("Stateid4", At(0, 0)), AaOffset |-> Num(At(0, 16), 8),
         AaLength |-> Num(At(0, 24), 8)],
     write |-> Writer(32, <<Put("AaOffset", 16, 8), Put("AaLength", 24, 8),
         PutIn("AaStateid", "Stateid4", 0)>>)]

ALLOCATE4res == NumberOnly("ArStatus", 4)

DEALLOCATE4args ==
    [read |-> <<Take(32)>>,
     get |-> [DaStateid |-> Struct("Stateid4", At(0, 0)), DaOffset |-> Num(At(0, 16), 8),
         DaLength |-> Num(At(0, 24), 8)],
     write |-> Writer(32, <<Put("DaOffset", 16, 8), Put("DaLength", 24, 8),
         PutIn("DaStateid", "Stateid4", 0)>>)]

DEALLOCATE4res == NumberOnly("DrStatus", 4)

IOADVISE4args ==
    [read |-> <<Take(32), Sub("Bitmap4")>>,
     get |-> [IaaStateid |-> Struct("Stateid4", At(0, 0)), IaaOffset |-> Num(At(0, 16), 8),
         IaaCount |-> Num(At(0, 24), 8), IaaHints |-> Cast("Bitmap4", At(0, 32), End)],
     write |-> Writer(32, <<PutIn("IaaStateid", "Stateid4", 0), Put("IaaOffset", 16, 8),
         Put("IaaCount", 24, 8), Child("IaaHints", "Bitmap4")>>)]

IOADVISE4resok ==
    [read |-> <<Sub("Bitmap4")>>,
     get |-> [IorHints |-> Cast("Bitmap4", At(0, 0), End)],
     write |-> Writer(0, <<Child("IorHints", "Bitmap4")>>)]

IOADVISE4res ==
    [read |-> Union([NFS4_OK |-> "IOADVISE4resok"], "Void"),
     get |-> [NFS4_OK |-> As("IOADVISE4resok")]]

DeviceError4 ==
    [read |-> <<Take(24)>>,
     get |-> [DeDeviceid |-> Struct("Deviceid4", At(0, 0)), DeStatus |-> Num(At(0, 16), 4),
         DeOpnum |-> Num(At(0, 20), 4)],
     write |-> Writer(24, <<Put("DeStatus", 16, 4), Put("DeOpnum", 20, 4),
         PutIn("DeDeviceid", "Deviceid4", 0)>>)]

LAYOUTERROR4args ==
    [read |-> <<TakeCount(36, 32), Elems(24)>>,
     get |-> [LeaOffset |-> Num(At(0, 0), 8), LeaLength |-> Num(At(0, 8), 8),
         LeaStateid |-> Struct("Stateid4", At(0, 16)), LeaErrorsCount |-> LenOf("LeaErrors", At(0, 32)),
         LeaErrors |-> Nth("DeviceError4", At(0, 32), At(0, 36), 24)],
     write |-> Writer(36, <<Put("LeaOffset", 0, 8), Put("LeaLength", 8, 8),
         PutIn("LeaStateid", "Stateid4", 16), Items("LeaErrors", Fixed("DeviceError4", 24)),
         Patch("LeaErrors", 32)>>)]

LAYOUTERROR4res == NumberOnly("LerStatus", 4)

IoInfo4 ==
    [read |-> <<Take(16)>>,
     get |-> [IiCount |-> Num(At(0, 0), 8), IiBytes |-> Num(At(0, 8), 8)],
     write |-> Writer(16, <<Put("IiCount", 0, 8), Put("IiBytes", 8, 8)>>)]

LAYOUTSTATS4args ==
    [read |-> <<Take(80), Sub("Layoutupdate4")>>,
     get |-> [LsaOffset |-> Num(At(0, 0), 8), LsaLength |-> Num(At(0, 8), 8),
         LsaStateid |-> Struct("Stateid4", At(0, 16)), LsaRead |-> Struct("IoInfo4", At(0, 32)),
         LsaWrite |-> Struct("IoInfo4", At(0, 48)), LsaDeviceid |-> Struct("Deviceid4", At(0, 64)),
         LsaLayoutupdate |-> Cast("Layoutupdate4", At(0, 80), End)],
     write |-> Writer(80, <<Put("LsaOffset", 0, 8), Put("LsaLength", 8, 8),
         PutIn("LsaStateid", "Stateid4", 16), PutIn("LsaRead", "IoInfo4", 32),
         PutIn("LsaWrite", "IoInfo4", 48), PutIn("LsaDeviceid", "Deviceid4", 64),
         Child("LsaLayoutupdate", "Layoutupdate4")>>)]

LAYOUTSTATS4res == NumberOnly("LsrStatus", 4)

READPLUS4args ==
    [read |-> <<Take(28)>>,
     get |-> [RpaStateid |-> Struct("Stateid4", At(0, 0)), RpaOffset |-> Num(At(0, 16), 8),
         RpaCount |-> Num(At(0, 24), 4)],
     write |-> Writer(28, <<Put("RpaOffset", 16, 8), Put("RpaCount", 24, 4),
         PutIn("RpaStateid", "Stateid4", 0)>>)]

ReadPlusContent ==
    [read |-> Union([NFS4_CONTENT_DATA |-> "Data4", NFS4_CONTENT_HOLE |-> "DataInfo4"], "Void"),
     get |-> [NFS4_CONTENT_DATA |-> As("Data4"), NFS4_CONTENT_HOLE |-> As("DataInfo4")]]

ReadPlusContentEntry ==
    EntryOf("ReadPlusContent", [NFS4_CONTENT_DATA |-> Inline("Data4", 12),
        NFS4_CONTENT_HOLE |-> Fixed("DataInfo4", 16), Default |-> Void])

ReadPlusRes4 ==
    [read |-> <<TakeCount(8, 4), Each("ReadPlusContentEntry")>>,
     peek |-> <<Peek(8)>>,
     get |-> [RprEof |-> Num(At(0, 0), 4), RprContentsCount |-> LenOf("RprContents", At(0, 4)),
         RprContents |-> Iter("ReadPlusContentEntry", At(0, 4), At(0, 8))],
     write |-> Writer(8, <<Put("RprEof", 0, 4),
         Items("RprContents", OneOf([NFS4_CONTENT_DATA |-> Inline("Data4", 12),
         NFS4_CONTENT_HOLE |-> Fixed("DataInfo4", 16), Default |-> Void])), Patch("RprContents", 4)>>)]

READPLUS4res ==
    [read |-> Union([NFS4_OK |-> "ReadPlusRes4"], "Void"),
     get |-> [NFS4_OK |-> As("ReadPlusRes4")]]

SEEK4args ==
    [read |-> <<Take(28)>>,
     get |-> [SaStateid |-> Struct("Stateid4", At(0, 0)), SaOffset |-> Num(At(0, 16), 8),
         SaWhat |-> Num(At(0, 24), 4)],
     write |-> Writer(28, <<Put("SaOffset", 16, 8), Put("SaWhat", 24, 4),
         PutIn("SaStateid", "Stateid4", 0)>>)]

SeekRes4 ==
    [read |-> <<Take(12)>>,
     get |-> [SrEof |-> Num(At(0, 0), 4), SrOffset |-> Num(At(0, 4), 8)],
     write |-> Writer(12, <<Put("SrEof", 0, 4), Put("SrOffset", 4, 8)>>)]

SEEK4res == [read |-> Union([NFS4_OK |-> "SeekRes4"], "Void"), get |-> [NFS4_OK |-> As("SeekRes4")]]

WRITESAME4args ==
    [read |-> <<Take(20), Sub("AppDataBlock4")>>,
     get |-> [WsaStateid |-> Struct("Stateid4", At(0, 0)), WsaStable |-> Num(At(0, 16), 4),
         WsaAdb |-> Cast("AppDataBlock4", At(0, 20), End)],
     write |-> Writer(20, <<PutIn("WsaStateid", "Stateid4", 0), Put("WsaStable", 16, 4),
         Child("WsaAdb", "AppDataBlock4")>>)]

WRITESAME4res ==
    [read |-> Union([NFS4_OK |-> "WriteResponse4"], "Void"),
     get |-> [NFS4_OK |-> AsRead("WriteResponse4")]]

FfDeviceVersions4 ==
    [read |-> <<Take(20)>>,
     get |-> [FfdvVersion |-> Num(At(0, 0), 4), FfdvMinorversion |-> Num(At(0, 4), 4),
         FfdvRsize |-> Num(At(0, 8), 4), FfdvWsize |-> Num(At(0, 12), 4),
         FfdvTightlyCoupled |-> Num(At(0, 16), 4)],
     write |-> Writer(20, <<Put("FfdvVersion", 0, 4), Put("FfdvMinorversion", 4, 4),
         Put("FfdvRsize", 8, 4), Put("FfdvWsize", 12, 4), Put("FfdvTightlyCoupled", 16, 4)>>)]

FfDeviceAddr4 ==
    [read |-> <<Sub("MultipathList4"), Mark, TakeCount(4, 0), Elems(20)>>,
     get |-> [FfdaNetaddrs |-> Cast("MultipathList4", At(0, 0), At(1, 0)),
         FfdaVersions |-> Nth("FfDeviceVersions4", At(1, 0), At(1, 4), 20),
         FfdaVersionsCount |-> LenOf("FfdaVersions", At(1, 0))],
     write |-> Writer(0, <<Child("FfdaNetaddrs", "MultipathList4"),
         Late("FfdaVersions", Fixed("FfDeviceVersions4", 20)), Close("FfdaVersions")>>)]

FfDataServer4 ==
    [read |-> <<TakeCount(40, 36), Each("NfsFh4"), Mark, Sub("Fattr4Owner"), Mark,
         Sub("Fattr4OwnerGroup")>>,
     get |-> [FfdsDeviceid |-> Struct("Deviceid4", At(0, 0)), FfdsEfficiency |-> Num(At(0, 16), 4),
         FfdsStateid |-> Struct("Stateid4", At(0, 20)),
         FfdsFhVers |-> Iter("NfsFh4", At(0, 36), At(0, 40)),
         FfdsFhVersCount |-> LenOf("FfdsFhVers", At(0, 36)),
         FfdsUser |-> Cast("Fattr4Owner", At(1, 0), At(2, 0)),
         FfdsGroup |-> Cast("Fattr4OwnerGroup", At(2, 0), End)],
     write |-> Writer(40, <<PutIn("FfdsDeviceid", "Deviceid4", 0), Put("FfdsEfficiency", 16, 4),
         PutIn("FfdsStateid", "Stateid4", 20), In(0, Items("FfdsFhVers", Start("NfsFh4"))),
         In(1, Child("FfdsUser", "Fattr4Owner")), In(2, Child("FfdsGroup", "Fattr4OwnerGroup")),
         Patch("FfdsFhVers", 36)>>)]

FfMirror4 ==
    [read |-> <<TakeCount(4, 0), Each("FfDataServer4")>>,
     peek |-> <<Peek(4)>>,
     get |-> [FfmDataServersCount |-> LenOf("FfmDataServers", At(0, 0)),
         FfmDataServers |-> Iter("FfDataServer4", At(0, 0), At(0, 4))],
     write |-> Writer(4, <<Items("FfmDataServers", Start("FfDataServer4")),
         Patch("FfmDataServers", 0)>>)]

FfLayout4 ==
    [read |-> <<TakeCount(12, 8), Each("FfMirror4"), Mark, Take(4), Take(4)>>,
     get |-> [FflStripeUnit |-> Num(At(0, 0), 8), FflMirrors |-> Iter("FfMirror4", At(0, 8), At(0, 12)),
         FflMirrorsCount |-> LenOf("FflMirrors", At(0, 8)), FflFlags |-> Num(At(1, 0), 4),
         FflStatsCollectHint |-> Num(At(1, 4), 4)],
     write |-> Writer(12, <<Put("FflStripeUnit", 0, 8), Items("FflMirrors", Start("FfMirror4")),
         App("FflFlags", 4), App("FflStatsCollectHint", 4), Patch("FflMirrors", 8)>>)]

FfIoerr4 ==
    [read |-> <<TakeCount(36, 32), Elems(24)>>,
     get |-> [FfieOffset |-> Num(At(0, 0), 8), FfieLength |-> Num(At(0, 8), 8),
         FfieStateid |-> Struct("Stateid4", At(0, 16)),
         FfieErrorsCount |-> LenOf("FfieErrors", At(0, 32)),
         FfieErrors |-> Nth("DeviceError4", At(0, 32), At(0, 36), 24)],
     write |-> Writer(36, <<Put("FfieOffset", 0, 8), Put("FfieLength", 8, 8),
         PutIn("FfieStateid", "Stateid4", 16), Items("FfieErrors", Fixed("DeviceError4", 24)),
         Patch("FfieErrors", 32)>>)]

FfIoLatency4 ==
    [read |-> <<Take(64)>>,
     get |-> [FfilOpsRequested |-> Num(At(0, 0), 8), FfilBytesRequested |-> Num(At(0, 8), 8),
         FfilOpsCompleted |-> Num(At(0, 16), 8), FfilBytesCompleted |-> Num(At(0, 24), 8),
         FfilBytesNotDelivered |-> Num(At(0, 32), 8),
         FfilTotalBusyTime |-> Struct("Nfstime4", At(0, 40)),
         FfilAggregateCompletionTime |-> Struct("Nfstime4", At(0, 52))],
     write |-> Writer(64, <<Put("FfilOpsRequested", 0, 8), Put("FfilBytesRequested", 8, 8),
         Put("FfilOpsCompleted", 16, 8), Put("FfilBytesCompleted", 24, 8),
         Put("FfilBytesNotDelivered", 32, 8), PutIn("FfilTotalBusyTime", "Nfstime4", 40),
         PutIn("FfilAggregateCompletionTime", "Nfstime4", 52)>>)]

FfLayoutupdate4 ==
    [read |-> <<Sub("Netaddr4"), Mark, Sub("NfsFh4"), Mark, Take(64), Take(64), Take(12), Take(4)>>,
     get |-> [FflAddr |-> Reread("Netaddr4", At(0, 0), At(1, 0)),
         FflFhandle |-> Cast("NfsFh4", At(1, 0), At(2, 0)),
         FflRead |-> Struct("FfIoLatency4", At(2, 0)), FflWrite |-> Struct("FfIoLatency4", At(2, 64)),
         FflDuration |-> Struct("Nfstime4", At(2, 128)), FflLocal |-> Num(At(2, 140), 4)],
     write |-> Writer(0, <<In(0, Child("FflAddr", "Netaddr4")), In(1, Child("FflFhandle", "NfsFh4")),
         In(2, App("FflLocal", 4))>>)]

FfIostats4 ==
    [read |-> <<Take(80), Sub("FfLayoutupdate4")>>,
     get |-> [FfisOffset |-> Num(At(0, 0), 8), FfisLength |-> Num(At(0, 8), 8),
         FfisStateid |-> Struct("Stateid4", At(0, 16)), FfisRead |-> Struct("IoInfo4", At(0, 32)),
         FfisWrite |-> Struct("IoInfo4", At(0, 48)), FfisDeviceid |-> Struct("Deviceid4", At(0, 64)),
         FfisLayoutupdate |-> Reread("FfLayoutupdate4", At(0, 80), End)],
     write |-> Writer(80, <<Put("FfisOffset", 0, 8), Put("FfisLength", 8, 8),
         PutIn("FfisStateid", "Stateid4", 16), PutIn("FfisRead", "IoInfo4", 32),
         PutIn("FfisWrite", "IoInfo4", 48), PutIn("FfisDeviceid", "Deviceid4", 64),
         Child("FfisLayoutupdate", "FfLayoutupdate4")>>)]

FfLayoutreturn4FflrIostatsReport ==
    [read |-> <<TakeCount(4, 0), Each("FfIostats4")>>,
     peek |-> <<Peek(4)>>,
     get |-> [Count |-> LenOf("Data", At(0, 0)), Data |-> Iter("FfIostats4", At(0, 0), At(0, 4))],
     write |-> Writer(4, <<Items("Data", Start("FfIostats4")), Patch("Data", 0)>>)]

FfLayoutreturn4 ==
    [read |-> <<TakeCount(4, 0), Each("FfIoerr4"), Mark, Sub("FfLayoutreturn4FflrIostatsReport")>>,
     get |-> [FflrIoerrReport |-> Iter("FfIoerr4", At(0, 0), At(0, 4)),
         FflrIoerrReportCount |-> LenOf("FflrIoerrReport", At(0, 0)),
         FflrIostatsReport |-> Cast("FfLayoutreturn4FflrIostatsReport", At(1, 0), End)],
     write |-> Writer(4, <<In(0, Items("FflrIoerrReport", Start("FfIoerr4"))),
         In(1, Child("FflrIostatsReport", "FfLayoutreturn4FflrIostatsReport")),
         Patch("FflrIoerrReport", 0)>>)]

FfMirrorsHintTRUE == NumberOnly("Value", 4)

FfMirrorsHint ==
    [read |-> Union([XDR_TRUE |-> "FfMirrorsHintTRUE", XDR_FALSE |-> "Void"], "Refused"),
     get |-> [XDR_TRUE |-> As("FfMirrorsHintTRUE")]]

FfLayouthint4 ==
    [read |-> <<Take(4), SubArm("FfMirrorsHint", 0)>>,
     get |-> [FflhMirrorsHintType |-> Num(At(0, 0), 4),
         FflhMirrorsHint |-> Arm("FfMirrorsHint", At(0, 4), End, At(0, 0))],
     write |-> Writer(0, <<Choice("FflhMirrorsHint", [XDR_TRUE |-> Fixed("FfMirrorsHintTRUE", 4),
         XDR_FALSE |-> Void])>>)]

GETXATTR4args ==
    [read |-> <<Sub("Xattrkey4")>>,
     get |-> [GxaName |-> Cast("Xattrkey4", At(0, 0), End)],
     write |-> Writer(0, <<Child("GxaName", "Xattrkey4")>>)]

GETXATTR4res ==
    [read |-> Union([NFS4_OK |-> "Xattrvalue4"], "Void"),
     get |-> [NFS4_OK |-> As("Xattrvalue4")]]

SETXATTR4args ==
    [read |-> <<Take(4), Sub("Xattrkey4"), Mark, Sub("Xattrvalue4")>>,
     get |-> [SxaOption |-> Num(At(0, 0), 4), SxaKey |-> Cast("Xattrkey4", At(0, 4), At(1, 0)),
         SxaValue |-> Cast("Xattrvalue4", At(1, 0), End)],
     write |-> Writer(4, <<Put("SxaOption", 0, 4), In(0, Child("SxaKey", "Xattrkey4")),
         In(1, Child("SxaValue", "Xattrvalue4"))>>)]

SETXATTR4res ==
    [read |-> Union([NFS4_OK |-> "ChangeInfo4"], "Void"),
     get |-> [NFS4_OK |-> As("ChangeInfo4")]]

LISTXATTRS4args ==
    [read |-> <<Take(12)>>,
     get |-> [LxaCookie |-> Num(At(0, 0), 8), LxaMaxcount |-> Num(At(0, 8), 4)],
     write |-> Writer(12, <<Put("LxaCookie", 0, 8), Put("LxaMaxcount", 8, 4)>>)]

LISTXATTRS4resok ==
    [read |-> <<TakeCount(12, 8), Each("Xattrkey4"), Mark, Take(4)>>,
     get |-> [LxrCookie |-> Num(At(0, 0), 8), LxrNames |-> Iter("Xattrkey4", At(0, 8), At(0, 12)),
         LxrNamesCount |-> LenOf("LxrNames", At(0, 8)), LxrEof |-> Num(At(1, 0), 4)],
     write |-> Writer(12, <<Put("LxrCookie", 0, 8), Items("LxrNames", Start("Xattrkey4")),
         App("LxrEof", 4), Patch("LxrNames", 8)>>)]

LISTXATTRS4res ==
    [read |-> Union([NFS4_OK |-> "LISTXATTRS4resok"], "Void"),
     get |-> [NFS4_OK |-> AsRead("LISTXATTRS4resok")]]

REMOVEXATTR4args ==
    [read |-> <<Sub("Xattrkey4")>>,
     get |-> [RxaName |-> Cast("Xattrkey4", At(0, 0), End)],
     write |-> Writer(0, <<Child("RxaName", "Xattrkey4")>>)]

REMOVEXATTR4res ==
    [read |-> Union([NFS4_OK |-> "ChangeInfo4"], "Void"),
     get |-> [NFS4_OK |-> As("ChangeInfo4")]]

NfsArgop4OPSECINFONONAME == NumberOnly("Value", 4)

readNfsArgop4 ==
    Union([OP_ACCESS |-> "ACCESS4args", OP_CLOSE |-> "CLOSE4args", OP_COMMIT |-> "COMMIT4args",
      OP_CREATE |-> "CREATE4args", OP_DELEGPURGE |-> "DELEGPURGE4args",
      OP_DELEGRETURN |-> "DELEGRETURN4args", OP_GETATTR |-> "GETATTR4args", OP_GETFH |-> "Void",
      OP_LINK |-> "LINK4args", OP_LOCK |-> "LOCK4args", OP_LOCKT |-> "LOCKT4args",
      OP_LOCKU |-> "LOCKU4args", OP_LOOKUP |-> "LOOKUP4args", OP_LOOKUPP |-> "Void",
      OP_NVERIFY |-> "NVERIFY4args", OP_OPEN |-> "OPEN4args", OP_OPENATTR |-> "OPENATTR4args",
      OP_OPEN_CONFIRM |-> "OPENCONFIRM4args", OP_OPEN_DOWNGRADE |-> "OPENDOWNGRADE4args",
      OP_PUTFH |-> "PUTFH4args", OP_PUTPUBFH |-> "Void", OP_PUTROOTFH |-> "Void",
      OP_READ |-> "READ4args", OP_READDIR |-> "READDIR4args", OP_READLINK |-> "Void",
      OP_REMOVE |-> "REMOVE4args", OP_RENAME |-> "RENAME4args", OP_RENEW |-> "RENEW4args",
      OP_RESTOREFH |-> "Void", OP_SAVEFH |-> "Void", OP_SECINFO |-> "SECINFO4args",
      OP_SETATTR |-> "SETATTR4args", OP_SETCLIENTID |-> "SETCLIENTID4args",
      OP_SETCLIENTID_CONFIRM |-> "SETCLIENTIDCONFIRM4args", OP_VERIFY |-> "VERIFY4args",
      OP_WRITE |-> "WRITE4args", OP_RELEASE_LOCKOWNER |-> "RELEASELOCKOWNER4args",
      OP_BACKCHANNEL_CTL |-> "BACKCHANNELCTL4args",
      OP_BIND_CONN_TO_SESSION |-> "BINDCONNTOSESSION4args", OP_EXCHANGE_ID |-> "EXCHANGEID4args",
      OP_CREATE_SESSION |-> "CREATESESSION4args", OP_DESTROY_SESSION |-> "DESTROYSESSION4args",
      OP_FREE_STATEID |-> "FREESTATEID4args", OP_GET_DIR_DELEGATION |-> "GETDIRDELEGATION4args",
      OP_GETDEVICEINFO |-> "GETDEVICEINFO4args", OP_GETDEVICELIST |-> "GETDEVICELIST4args",
      OP_LAYOUTCOMMIT |-> "LAYOUTCOMMIT4args", OP_LAYOUTGET |-> "LAYOUTGET4args",
      OP_LAYOUTRETURN |-> "LAYOUTRETURN4args", OP_SECINFO_NO_NAME |-> "NfsArgop4OPSECINFONONAME",
      OP_SEQUENCE |-> "SEQUENCE4args", OP_SET_SSV |-> "SETSSV4args",
      OP_TEST_STATEID |-> "TESTSTATEID4args", OP_WANT_DELEGATION |-> "WANTDELEGATION4args",
      OP_DESTROY_CLIENTID |-> "DESTROYCLIENTID4args", OP_RECLAIM_COMPLETE |-> "RECLAIMCOMPLETE4args",
      OP_ALLOCATE |-> "ALLOCATE4args", OP_COPY |-> "COPY4args", OP_COPY_NOTIFY |-> "COPYNOTIFY4args",
      OP_DEALLOCATE |-> "DEALLOCATE4args", OP_IO_ADVISE |-> "IOADVISE4args",
      OP_LAYOUTERROR |-> "LAYOUTERROR4args", OP_LAYOUTSTATS |-> "LAYOUTSTATS4args",
      OP_OFFLOAD_CANCEL |-> "OFFLOADCANCEL4args", OP_OFFLOAD_STATUS |-> "OFFLOADSTATUS4args",
      OP_READ_PLUS |-> "READPLUS4args", OP_SEEK |-> "SEEK4args", OP_WRITE_SAME |-> "WRITESAME4args",
      OP_CLONE |-> "CLONE4args", OP_GETXATTR |-> "GETXATTR4args", OP_SETXATTR |-> "SETXATTR4args",
      OP_LISTXATTRS |-> "LISTXATTRS4args", OP_REMOVEXATTR |-> "REMOVEXATTR4args",
      OP_ILLEGAL |-> "Void"], "Void")
NfsArgop4 ==
    [read |-> readNfsArgop4,
     get |-> [OP_ACCESS |-> As("ACCESS4args"), OP_CLOSE |-> As("CLOSE4args"),
         OP_COMMIT |-> As("COMMIT4args"), OP_CREATE |-> AsRead("CREATE4args"),
         OP_DELEGPURGE |-> As("DELEGPURGE4args"), OP_DELEGRETURN |-> As("DELEGRETURN4args"),
         OP_GETATTR |-> As("GETATTR4args"), OP_LINK |-> As("LINK4args"), OP_LOCK |-> As("LOCK4args"),
         OP_LOCKT |-> As("LOCKT4args"), OP_LOCKU |-> As("LOCKU4args"), OP_LOOKUP |-> As("LOOKUP4args"),
         OP_NVERIFY |-> As("NVERIFY4args"), OP_OPEN |-> AsRead("OPEN4args"),
         OP_OPENATTR |-> As("OPENATTR4args"), OP_OPEN_CONFIRM |-> As("OPENCONFIRM4args"),
         OP_OPEN_DOWNGRADE |-> As("OPENDOWNGRADE4args"), OP_PUTFH |-> As("PUTFH4args"),
         OP_READ |-> As("READ4args"), OP_READDIR |-> As("READDIR4args"),
         OP_REMOVE |-> As("REMOVE4args"), OP_RENAME |-> AsRead("RENAME4args"),
         OP_RENEW |-> As("RENEW4args"), OP_SECINFO |-> As("SECINFO4args"),
         OP_SETATTR |-> As("SETATTR4args"), OP_SETCLIENTID |-> AsRead("SETCLIENTID4args"),
         OP_SETCLIENTID_CONFIRM |-> As("SETCLIENTIDCONFIRM4args"), OP_VERIFY |-> As("VERIFY4args"),
         OP_WRITE |-> As("WRITE4args"), OP_RELEASE_LOCKOWNER |-> As("RELEASELOCKOWNER4args"),
         OP_BACKCHANNEL_CTL |-> As("BACKCHANNELCTL4args"),
         OP_BIND_CONN_TO_SESSION |-> As("BINDCONNTOSESSION4args"),
         OP_EXCHANGE_ID |-> AsRead("EXCHANGEID4args"),
         OP_CREATE_SESSION |-> AsRead("CREATESESSION4args"),
         OP_DESTROY_SESSION |-> As("DESTROYSESSION4args"), OP_FREE_STATEID |-> As("FREESTATEID4args"),
         OP_GET_DIR_DELEGATION |-> AsRead("GETDIRDELEGATION4args"),
         OP_GETDEVICEINFO |-> As("GETDEVICEINFO4args"), OP_GETDEVICELIST |-> As("GETDEVICELIST4args"),
         OP_LAYOUTCOMMIT |-> AsRead("LAYOUTCOMMIT4args"), OP_LAYOUTGET |-> As("LAYOUTGET4args"),
         OP_LAYOUTRETURN |-> As("LAYOUTRETURN4args"),
         OP_SECINFO_NO_NAME |-> As("NfsArgop4OPSECINFONONAME"), OP_SEQUENCE |-> As("SEQUENCE4args"),
         OP_SET_SSV |-> AsRead("SETSSV4args"), OP_TEST_STATEID |-> As("TESTSTATEID4args"),
         OP_WANT_DELEGATION |-> As("WANTDELEGATION4args"),
         OP_DESTROY_CLIENTID |-> As("DESTROYCLIENTID4args"),
         OP_RECLAIM_COMPLETE |-> As("RECLAIMCOMPLETE4args"), OP_ALLOCATE |-> As("ALLOCATE4args"),
         OP_COPY |-> As("COPY4args"), OP_COPY_NOTIFY |-> As("COPYNOTIFY4args"),
         OP_DEALLOCATE |-> As("DEALLOCATE4args"), OP_IO_ADVISE |-> As("IOADVISE4args"),
         OP_LAYOUTERROR |-> As("LAYOUTERROR4args"), OP_LAYOUTSTATS |-> As("LAYOUTSTATS4args"),
         OP_OFFLOAD_CANCEL |-> As("OFFLOADCANCEL4args"), OP_OFFLOAD_STATUS |-> As("OFFLOADSTATUS4args"),
         OP_READ_PLUS |-> As("READPLUS4args"), OP_SEEK |-> As("SEEK4args"),
         OP_WRITE_SAME |-> As("WRITESAME4args"), OP_CLONE |-> As("CLONE4args"),
         OP_GETXATTR |-> As("GETXATTR4args"), OP_SETXATTR |-> AsRead("SETXATTR4args"),
         OP_LISTXATTRS |-> As("LISTXATTRS4args"), OP_REMOVEXATTR |-> As("REMOVEXATTR4args")]]
=============================================================================
