------------------------------ MODULE NFSTypes ------------------------------
(***************************************************************************)
(* The attribute, location and layout types shared by the operations. Each *)
(* type of the generated file has its decoder, its accessors and its       *)
(* writer, in the order of the file.                                       *)
(***************************************************************************)
EXTENDS XDRSteps

AuthsysParmsGids ==
    [read |-> <<TakeCount(4, 0), Elems(4)>>,
     get |-> [Count |-> LenOf("Data", At(0, 0)), Data |-> Nth("", At(0, 0), At(0, 4), 4)],
     write |-> Writer(4, <<Items("Data", Word(4)), Patch("Data", 0)>>)]

AuthsysParms ==
    [read |-> <<TakeCount(8, 4), Elems(1), Mark, Align, Take(4), Take(4), Sub("AuthsysParmsGids")>>,
     get |-> [Stamp |-> Num(At(0, 0), 4), Machinename |-> Data(At(0, 4), At(0, 8)),
         MachinenameLen |-> LenOf("Machinename", At(0, 4)), Uid |-> Num(At(1, 0), 4),
         Gid |-> Num(At(1, 4), 4), Gids |-> Cast("AuthsysParmsGids", At(1, 8), End)],
     write |-> Writer(8, <<Put("Stamp", 0, 4), Pad("Machinename"), App("Uid", 4), App("Gid", 4),
         Child("Gids", "AuthsysParmsGids"), Patch("Machinename", 4)>>)]

Attrlist4 == OpaqueBytes

Bitmap4 ==
    [read |-> <<TakeCount(4, 0), Elems(4)>>,
     get |-> [Count |-> LenOf("Data", At(0, 0)), Data |-> Nth("", At(0, 0), At(0, 4), 4)],
     write |-> Writer(4, <<Items("Data", Word(4)), Patch("Data", 0)>>)]

NfsFh4 == OpaqueBytes

SecOid4 == OpaqueBytes

Sessionid4 ==
    [read |-> <<Take(16)>>,
     get |-> [Data |-> Array(At(0, 0), 1, 16)],
     write |-> Writer(16, <<PutEach("Data", 0, 16)>>)]

Utf8strCis == OpaqueBytes

Utf8strCs == OpaqueBytes

Utf8strMixed == OpaqueBytes

Component4 == OpaqueBytes

Linktext4 == OpaqueBytes

\* Mutant: Finish forgets the count.
Pathname4_unpatched ==
    [read |-> <<TakeCount(4, 0), Each("Component4")>>,
     peek |-> <<Peek(4)>>,
     get |-> [Count |-> LenOf("Data", At(0, 0)), Data |-> Iter("Component4", At(0, 0), At(0, 4))],
     write |-> Writer(4, <<Items("Data", Start("Component4"))>>)]

Pathname4 ==
    [read |-> <<TakeCount(4, 0), Each("Component4")>>,
     peek |-> <<Peek(4)>>,
     get |-> [Count |-> LenOf("Data", At(0, 0)), Data |-> Iter("Component4", At(0, 0), At(0, 4))],
     write |-> Writer(4, <<Items("Data", Start("Component4")), Patch("Data", 0)>>)]

Verifier4 ==
    [read |-> <<Take(8)>>,
     get |-> [Data |-> Array(At(0, 0), 1, 8)],
     write |-> Writer(8, <<PutEach("Data", 0, 8)>>)]

Secret4 == OpaqueBytes

Nfstime4 ==
    [read |-> <<Take(12)>>,
     get |-> [Seconds |-> Num(At(0, 0), 8), Nseconds |-> Num(At(0, 8), 4)],
     write |-> Writer(12, <<Put("Seconds", 0, 8), Put("Nseconds", 8, 4)>>)]

Settime4 ==
    [read |-> Union([SET_TO_CLIENT_TIME4 |-> "Nfstime4"], "Void"),
     get |-> [SET_TO_CLIENT_TIME4 |-> As("Nfstime4")]]

Fsid4 ==
    [read |-> <<Take(16)>>,
     get |-> [Major |-> Num(At(0, 0), 8), Minor |-> Num(At(0, 8), 8)],
     write |-> Writer(16, <<Put("Major", 0, 8), Put("Minor", 8, 8)>>)]

ChangePolicy4 ==
    [read |-> <<Take(16)>>,
     get |-> [CpMajor |-> Num(At(0, 0), 8), CpMinor |-> Num(At(0, 8), 8)],
     write |-> Writer(16, <<Put("CpMajor", 0, 8), Put("CpMinor", 8, 8)>>)]

FsLocation4 ==
    [read |-> <<TakeCount(4, 0), Each("Utf8strCis"), Mark, Sub("Pathname4")>>,
     get |-> [Server |-> Iter("Utf8strCis", At(0, 0), At(0, 4)),
         ServerCount |-> LenOf("Server", At(0, 0)), Rootpath |-> Cast("Pathname4", At(1, 0), End)],
     write |-> Writer(4, <<In(0, Items("Server", Start("Utf8strCis"))),
         In(1, Child("Rootpath", "Pathname4")), Patch("Server", 0)>>)]

FsLocations4 ==
    [read |-> <<Sub("Pathname4"), Mark, TakeCount(4, 0), Each("FsLocation4")>>,
     get |-> [FsRoot |-> Cast("Pathname4", At(0, 0), At(1, 0)),
         Locations |-> Iter("FsLocation4", At(1, 0), At(1, 4)),
         LocationsCount |-> LenOf("Locations", At(1, 0))],
     write |-> Writer(0, <<In(0, Child("FsRoot", "Pathname4")),
         In(1, Late("Locations", Start("FsLocation4"))), Close("Locations")>>)]

Nfsace4 ==
    [read |-> <<Take(12), Sub("Utf8strMixed")>>,
     get |-> [TypeVal |-> Num(At(0, 0), 4), Flag |-> Num(At(0, 4), 4), AccessMask |-> Num(At(0, 8), 4),
         Who |-> Cast("Utf8strMixed", At(0, 12), End)],
     write |-> Writer(12, <<Put("TypeVal", 0, 4), Put("Flag", 4, 4), Put("AccessMask", 8, 4),
         Child("Who", "Utf8strMixed")>>)]

Nfsacl41 ==
    [read |-> <<TakeCount(8, 4), Each("Nfsace4")>>,
     peek |-> <<Peek(8)>>,
     get |-> [Na41Flag |-> Num(At(0, 0), 4), Na41AcesCount |-> LenOf("Na41Aces", At(0, 4)),
         Na41Aces |-> Iter("Nfsace4", At(0, 4), At(0, 8))],
     write |-> Writer(8, <<Put("Na41Flag", 0, 4), Items("Na41Aces", Start("Nfsace4")),
         Patch("Na41Aces", 4)>>)]

ModeMasked4 ==
    [read |-> <<Take(8)>>,
     get |-> [MmValueToSet |-> Num(At(0, 0), 4), MmMaskBits |-> Num(At(0, 4), 4)],
     write |-> Writer(8, <<Put("MmValueToSet", 0, 4), Put("MmMaskBits", 4, 4)>>)]

Specdata4 ==
    [read |-> <<Take(8)>>,
     get |-> [Specdata1 |-> Num(At(0, 0), 4), Specdata2 |-> Num(At(0, 4), 4)],
     write |-> Writer(8, <<Put("Specdata1", 0, 4), Put("Specdata2", 4, 4)>>)]

XdrOpaque == OpaqueBytes

Netaddr4 ==
    [read |-> <<Sub("XdrOpaque"), Mark, Sub("XdrOpaque")>>,
     get |-> [NaRNetid |-> Cast("XdrOpaque", At(0, 0), At(1, 0)),
         NaRAddr |-> Cast("XdrOpaque", At(1, 0), End)],
     write |-> Writer(0, <<In(0, Child("NaRNetid", "XdrOpaque")),
         In(1, Child("NaRAddr", "XdrOpaque"))>>)]

NfsImplId4 ==
    [read |-> <<Sub("Utf8strCis"), Mark, Sub("Utf8strCs"), Mark, Take(12)>>,
     get |-> [NiiDomain |-> Cast("Utf8strCis", At(0, 0), At(1, 0)),
         NiiName |-> Cast("Utf8strCs", At(1, 0), At(2, 0)), NiiDate |-> Struct("Nfstime4", At(2, 0))],
     write |-> Writer(0, <<In(0, Child("NiiDomain", "Utf8strCis")),
         In(1, Child("NiiName", "Utf8strCs"))>>)]

Stateid4 ==
    [read |-> <<Take(16)>>,
     get |-> [Seqid |-> Num(At(0, 0), 4), Other |-> Array(At(0, 4), 1, 12)],
     write |-> Writer(16, <<Put("Seqid", 0, 4), PutEach("Other", 4, 12)>>)]

LayoutContent4 ==
    [read |-> <<TakePadded(8, 4)>>,
     get |-> [LocType |-> Num(At(0, 0), 4), LocBodyLen |-> LenOf("LocBody", At(0, 4)),
         LocBody |-> Data(At(0, 4), At(0, 8))],
     write |-> Writer(8, <<Put("LocType", 0, 4), Pad("LocBody"), Patch("LocBody", 4)>>)]

Layouthint4 ==
    [read |-> <<TakePadded(8, 4)>>,
     get |-> [LohType |-> Num(At(0, 0), 4), LohBodyLen |-> LenOf("LohBody", At(0, 4)),
         LohBody |-> Data(At(0, 4), At(0, 8))],
     write |-> Writer(8, <<Put("LohType", 0, 4), Pad("LohBody"), Patch("LohBody", 4)>>)]

Layout4 ==
    [read |-> <<Take(20), Sub("LayoutContent4")>>,
     get |-> [LoOffset |-> Num(At(0, 0), 8), LoLength |-> Num(At(0, 8), 8),
         LoIomode |-> Num(At(0, 16), 4), LoContent |-> Cast("LayoutContent4", At(0, 20), End)],
     write |-> Writer(20, <<Put("LoOffset", 0, 8), Put("LoLength", 8, 8), Put("LoIomode", 16, 4),
         Child("LoContent", "LayoutContent4")>>)]

Deviceid4 ==
    [read |-> <<Take(16)>>,
     get |-> [Data |-> Array(At(0, 0), 1, 16)],
     write |-> Writer(16, <<PutEach("Data", 0, 16)>>)]

DeviceAddr4 ==
    [read |-> <<TakePadded(8, 4)>>,
     get |-> [DaLayoutType |-> Num(At(0, 0), 4), DaAddrBodyLen |-> LenOf("DaAddrBody", At(0, 4)),
         DaAddrBody |-> Data(At(0, 4), At(0, 8))],
     write |-> Writer(8, <<Put("DaLayoutType", 0, 4), Pad("DaAddrBody"), Patch("DaAddrBody", 4)>>)]

Layoutupdate4 ==
    [read |-> <<TakePadded(8, 4)>>,
     get |-> [LouType |-> Num(At(0, 0), 4), LouBodyLen |-> LenOf("LouBody", At(0, 4)),
         LouBody |-> Data(At(0, 4), At(0, 8))],
     write |-> Writer(8, <<Put("LouType", 0, 4), Pad("LouBody"), Patch("LouBody", 4)>>)]

LayoutreturnFile4 ==
    [read |-> <<TakePadded(36, 32)>>,
     get |-> [LrfOffset |-> Num(At(0, 0), 8), LrfLength |-> Num(At(0, 8), 8),
         LrfStateid |-> Struct("Stateid4", At(0, 16)), LrfBodyLen |-> LenOf("LrfBody", At(0, 32)),
         LrfBody |-> Data(At(0, 32), At(0, 36))],
     write |-> Writer(36, <<Put("LrfOffset", 0, 8), Put("LrfLength", 8, 8),
         PutIn("LrfStateid", "Stateid4", 16), Pad("LrfBody"), Patch("LrfBody", 32)>>)]

Layoutreturn4 ==
    [read |-> Union([LAYOUTRETURN4_FILE |-> "LayoutreturnFile4"], "Void"),
     get |-> [LAYOUTRETURN4_FILE |-> As("LayoutreturnFile4")]]

Fs4Status ==
    [read |-> <<Take(8), Sub("Utf8strCs"), Mark, Sub("Utf8strCs"), Mark, Take(4), Take(12)>>,
     get |-> [FssAbsent |-> Num(At(0, 0), 4), FssType |-> Num(At(0, 4), 4),
         FssSource |-> Cast("Utf8strCs", At(0, 8), At(1, 0)),
         FssCurrent |-> Cast("Utf8strCs", At(1, 0), At(2, 0)), FssAge |-> Num(At(2, 0), 4),
         FssVersion |-> Struct("Nfstime4", At(2, 4))],
     write |-> Writer(8, <<Put("FssAbsent", 0, 4), Put("FssType", 4, 4),
         In(0, Child("FssSource", "Utf8strCs")), In(1, Child("FssCurrent", "Utf8strCs")),
         In(2, App("FssAge", 4))>>)]

ThresholdItem4 ==
    [read |-> <<Take(4), Sub("Bitmap4"), Mark, TakeCount(4, 0), Elems(1), Align>>,
     get |-> [ThiLayoutType |-> Num(At(0, 0), 4), ThiHintset |-> Cast("Bitmap4", At(0, 4), At(1, 0)),
         ThiHintlist |-> Data(At(1, 0), At(1, 4)), ThiHintlistLen |-> LenOf("ThiHintlist", At(1, 0))],
     write |-> Writer(4, <<Put("ThiLayoutType", 0, 4), Child("ThiHintset", "Bitmap4"),
         LatePad("ThiHintlist"), Close("ThiHintlist")>>)]

Mdsthreshold4 ==
    [read |-> <<TakeCount(4, 0), Each("ThresholdItem4")>>,
     peek |-> <<Peek(4)>>,
     get |-> [MthHintsCount |-> LenOf("MthHints", At(0, 0)),
         MthHints |-> Iter("ThresholdItem4", At(0, 0), At(0, 4))],
     write |-> Writer(4, <<Items("MthHints", Start("ThresholdItem4")), Patch("MthHints", 0)>>)]

RetentionGet4 ==
    [read |-> <<TakeCount(12, 8), Elems(12)>>,
     get |-> [RgDuration |-> Num(At(0, 0), 8), RgBeginTimeCount |-> LenOf("RgBeginTime", At(0, 8)),
         RgBeginTime |-> Nth("Nfstime4", At(0, 8), At(0, 12), 12)],
     write |-> Writer(12, <<Put("RgDuration", 0, 8), Items("RgBeginTime", Fixed("Nfstime4", 12)),
         Patch("RgBeginTime", 8)>>)]

RetentionSet4 ==
    [read |-> <<TakeCount(8, 4), Elems(8)>>,
     get |-> [RsEnable |-> Num(At(0, 0), 4), RsDurationCount |-> LenOf("RsDuration", At(0, 4)),
         RsDuration |-> Nth("", At(0, 4), At(0, 8), 8)],
     write |-> Writer(8, <<Put("RsEnable", 0, 4), Items("RsDuration", Word(8)),
         Patch("RsDuration", 4)>>)]

Netloc4 ==
    [read |-> Union([NL4_NAME |-> "Utf8strCis", NL4_URL |-> "Utf8strCis",
         NL4_NETADDR |-> "Netaddr4"], "Refused"),
     get |-> [NL4_NAME |-> As("Utf8strCis"), NL4_URL |-> As("Utf8strCis"),
         NL4_NETADDR |-> AsRead("Netaddr4")]]

LabelformatSpec4 ==
    [read |-> <<Take(8)>>,
     get |-> [LfsLfs |-> Num(At(0, 0), 4), LfsPi |-> Num(At(0, 4), 4)],
     write |-> Writer(8, <<Put("LfsLfs", 0, 4), Put("LfsPi", 4, 4)>>)]

SecLabel4 ==
    [read |-> <<TakePadded(12, 8)>>,
     get |-> [SlaiLfs |-> Struct("LabelformatSpec4", At(0, 0)),
         SlaiDataLen |-> LenOf("SlaiData", At(0, 8)), SlaiData |-> Data(At(0, 8), At(0, 12))],
     write |-> Writer(12, <<PutIn("SlaiLfs", "LabelformatSpec4", 0), Pad("SlaiData"),
         Patch("SlaiData", 8)>>)]

CopyFromAuthPriv ==
    [read |-> <<Sub("Secret4"), Mark, TakeCount(4, 0), SubArmHere("Netloc4"), Mark,
         Sub("Utf8strMixed")>>,
     get |-> [CfapSharedSecret |-> Cast("Secret4", At(0, 0), At(1, 0)),
         CfapDestinationType |-> Num(At(1, 0), 4),
         CfapDestination |-> Arm("Netloc4", At(1, 4), At(2, 0), At(1, 0)),
         CfapUsername |-> Cast("Utf8strMixed", At(2, 0), End)],
     write |-> Writer(0, <<In(0, Child("CfapSharedSecret", "Secret4")),
         In(1, Choice("CfapDestination", [NL4_NAME |-> Start("Utf8strCis"),
         NL4_URL |-> Start("Utf8strCis"), NL4_NETADDR |-> Start("Netaddr4")])),
         In(2, Child("CfapUsername", "Utf8strMixed"))>>)]

Netloc4Entry ==
    EntryOf("Netloc4", [NL4_NAME |-> Start("Utf8strCis"), NL4_URL |-> Start("Utf8strCis"),
        NL4_NETADDR |-> Start("Netaddr4")])

readCopyToAuthPriv ==
    <<Sub("Secret4"), Mark, TakeCount(4, 0), Each("Netloc4Entry"), Mark, Sub("Utf8strMixed")>>
CopyToAuthPrivWriter ==
    Writer(0, <<In(0, Child("CtapSharedSecret", "Secret4")),
      In(1, Late("CtapSource", OneOf([NL4_NAME |-> Start("Utf8strCis"), NL4_URL |-> Start("Utf8strCis"),
      NL4_NETADDR |-> Start("Netaddr4")]))), In(2, Child("CtapUsername", "Utf8strMixed")),
      Close("CtapSource")>>)
CopyToAuthPriv ==
    [read |-> readCopyToAuthPriv,
     get |-> [CtapSharedSecret |-> Cast("Secret4", At(0, 0), At(1, 0)),
         CtapSource |-> Iter("Netloc4Entry", At(1, 0), At(1, 4)),
         CtapSourceCount |-> LenOf("CtapSource", At(1, 0)),
         CtapUsername |-> Cast("Utf8strMixed", At(2, 0), End)],
     write |-> CopyToAuthPrivWriter]

CopyConfirmAuthPriv ==
    [read |-> <<TakeCount(4, 0), Elems(1), Mark, Align, Sub("Utf8strMixed")>>,
     get |-> [CcapSharedSecretMic |-> Data(At(0, 0), At(0, 4)),
         CcapSharedSecretMicLen |-> LenOf("CcapSharedSecretMic", At(0, 0)),
         CcapUsername |-> Cast("Utf8strMixed", At(1, 0), End)],
     write |-> Writer(0, <<Opaque("CcapSharedSecretMic"), Child("CcapUsername", "Utf8strMixed")>>)]

AppDataBlock4 ==
    [read |-> <<TakePadded(48, 44)>>,
     get |-> [AdbOffset |-> Num(At(0, 0), 8), AdbBlockSize |-> Num(At(0, 8), 8),
         AdbBlockCount |-> Num(At(0, 16), 8), AdbReloffBlocknum |-> Num(At(0, 24), 8),
         AdbBlockNum |-> Num(At(0, 32), 4), AdbReloffPattern |-> Num(At(0, 36), 8),
         AdbPatternLen |-> LenOf("AdbPattern", At(0, 44)), AdbPattern |-> Data(At(0, 44), At(0, 48))],
     write |-> Writer(48, <<Put("AdbOffset", 0, 8), Put("AdbBlockSize", 8, 8),
         Put("AdbBlockCount", 16, 8), Put("AdbReloffBlocknum", 24, 8), Put("AdbBlockNum", 32, 4),
         Put("AdbReloffPattern", 36, 8), Pad("AdbPattern"), Patch("AdbPattern", 44)>>)]

Data4 ==
    [read |-> <<TakePadded(12, 8)>>,
     get |-> [DOffset |-> Num(At(0, 0), 8), DDataLen |-> LenOf("DData", At(0, 8)),
         DData |-> Data(At(0, 8), At(0, 12))],
     write |-> Writer(12, <<Put("DOffset", 0, 8), Pad("DData"), Patch("DData", 8)>>)]

DataInfo4 ==
    [read |-> <<Take(16)>>,
     get |-> [DiOffset |-> Num(At(0, 0), 8), DiLength |-> Num(At(0, 8), 8)],
     write |-> Writer(16, <<Put("DiOffset", 0, 8), Put("DiLength", 8, 8)>>)]

WriteResponse4 ==
    [read |-> <<TakeCount(4, 0), Elems(16), Mark, Take(8), Take(4), Take(8)>>,
     get |-> [WrCallbackId |-> Nth("Stateid4", At(0, 0), At(0, 4), 16),
         WrCallbackIdCount |-> LenOf("WrCallbackId", At(0, 0)), WrCount |-> Num(At(1, 0), 8),
         WrCommitted |-> Num(At(1, 8), 4), WrWriteverf |-> Struct("Verifier4", At(1, 12))],
     write |-> Writer(4, <<Items("WrCallbackId", Fixed("Stateid4", 16)), App("WrCount", 8),
         App("WrCommitted", 4), Patch("WrCallbackId", 0)>>)]

Xattrkey4 == OpaqueBytes

Xattrvalue4 == OpaqueBytes
=============================================================================
