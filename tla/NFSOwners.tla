----------------------------- MODULE NFSOwners ------------------------------
(***************************************************************************)
(* Owners, clients, security tokens and file layouts, and the arguments    *)
(* and results of the operations from ACCESS to CREATE. Each type of the   *)
(* generated file has its decoder, its accessors and its writer, in the    *)
(* order of the file.                                                      *)
(***************************************************************************)
EXTENDS XDRSteps

Fattr4Owner == OpaqueBytes

Fattr4OwnerGroup == OpaqueBytes

Fattr4 ==
    [read |-> <<Sub("Bitmap4"), Mark, Sub("Attrlist4")>>,
     get |-> [Attrmask |-> Cast("Bitmap4", At(0, 0), At(1, 0)),
         AttrVals |-> Cast("Attrlist4", At(1, 0), End)],
     write |-> Writer(0, <<In(0, Child("Attrmask", "Bitmap4")), In(1, Child("AttrVals", "Attrlist4"))>>)]

ChangeInfo4 ==
    [read |-> <<Take(20)>>,
     get |-> [Atomic |-> Num(At(0, 0), 4), Before |-> Num(At(0, 4), 8), After |-> Num(At(0, 12), 8)],
     write |-> Writer(20, <<Put("Atomic", 0, 4), Put("Before", 4, 8), Put("After", 12, 8)>>)]

CbClient4 ==
    [read |-> <<Take(4), Sub("Netaddr4")>>,
     get |-> [CbProgram |-> Num(At(0, 0), 4), CbLocation |-> Reread("Netaddr4", At(0, 4), End)],
     write |-> Writer(4, <<Put("CbProgram", 0, 4), Child("CbLocation", "Netaddr4")>>)]

NfsClientId4 ==
    [read |-> <<TakePadded(12, 8)>>,
     get |-> [Verifier |-> Struct("Verifier4", At(0, 0)), IdLen |-> LenOf("Id", At(0, 8)),
         Id |-> Data(At(0, 8), At(0, 12))],
     write |-> Writer(12, <<PutIn("Verifier", "Verifier4", 0), Pad("Id"), Patch("Id", 8)>>)]

ClientOwner4 ==
    [read |-> <<TakePadded(12, 8)>>,
     get |-> [CoVerifier |-> Struct("Verifier4", At(0, 0)),
         CoOwneridLen |-> LenOf("CoOwnerid", At(0, 8)), CoOwnerid |-> Data(At(0, 8), At(0, 12))],
     write |-> Writer(12, <<PutIn("CoVerifier", "Verifier4", 0), Pad("CoOwnerid"),
         Patch("CoOwnerid", 8)>>)]

ServerOwner4 ==
    [read |-> <<TakePadded(12, 8)>>,
     get |-> [SoMinorId |-> Num(At(0, 0), 8), SoMajorIdLen |-> LenOf("SoMajorId", At(0, 8)),
         SoMajorId |-> Data(At(0, 8), At(0, 12))],
     write |-> Writer(12, <<Put("SoMinorId", 0, 8), Pad("SoMajorId"), Patch("SoMajorId", 8)>>)]

StateOwner4 ==
    [read |-> <<TakePadded(12, 8)>>,
     get |-> [Clientid |-> Num(At(0, 0), 8), OwnerLen |-> LenOf("Owner", At(0, 8)),
         Owner |-> Data(At(0, 8), At(0, 12))],
     write |-> Writer(12, <<Put("Clientid", 0, 8), Pad("Owner"), Patch("Owner", 8)>>)]

SsvMicPlainTkn4 ==
    [read |-> <<TakePadded(8, 4)>>,
     get |-> [SmptSsvSeq |-> Num(At(0, 0), 4), SmptOrigPlainLen |-> LenOf("SmptOrigPlain", At(0, 4)),
         SmptOrigPlain |-> Data(At(0, 4), At(0, 8))],
     write |-> Writer(8, <<Put("SmptSsvSeq", 0, 4), Pad("SmptOrigPlain"), Patch("SmptOrigPlain", 4)>>)]

SsvMicTkn4 ==
    [read |-> <<TakePadded(8, 4)>>,
     get |-> [SmtSsvSeq |-> Num(At(0, 0), 4), SmtHmacLen |-> LenOf("SmtHmac", At(0, 4)),
         SmtHmac |-> Data(At(0, 4), At(0, 8))],
     write |-> Writer(8, <<Put("SmtSsvSeq", 0, 4), Pad("SmtHmac"), Patch("SmtHmac", 4)>>)]

SsvSealPlainTkn4 ==
    [read |-> <<Sub("XdrOpaque"), Mark, Take(4), Sub("XdrOpaque"), Mark, Sub("XdrOpaque")>>,
     get |-> [SsptConfounder |-> Cast("XdrOpaque", At(0, 0), At(1, 0)), SsptSsvSeq |-> Num(At(1, 0), 4),
         SsptOrigPlain |-> Cast("XdrOpaque", At(1, 4), At(2, 0)),
         SsptPad |-> Cast("XdrOpaque", At(2, 0), End)],
     write |-> Writer(0, <<In(0, Child("SsptConfounder", "XdrOpaque")), In(1, App("SsptSsvSeq", 4)),
         In(1, Child("SsptOrigPlain", "XdrOpaque")), In(2, Child("SsptPad", "XdrOpaque"))>>)]

SsvSealCipherTkn4 ==
    [read |-> <<Take(4), Sub("XdrOpaque"), Mark, Sub("XdrOpaque"), Mark, Sub("XdrOpaque")>>,
     get |-> [SsctSsvSeq |-> Num(At(0, 0), 4), SsctIv |-> Cast("XdrOpaque", At(0, 4), At(1, 0)),
         SsctEncrData |-> Cast("XdrOpaque", At(1, 0), At(2, 0)),
         SsctHmac |-> Cast("XdrOpaque", At(2, 0), End)],
     write |-> Writer(4, <<Put("SsctSsvSeq", 0, 4), In(0, Child("SsctIv", "XdrOpaque")),
         In(1, Child("SsctEncrData", "XdrOpaque")), In(2, Child("SsctHmac", "XdrOpaque"))>>)]

FsLocationsServer4 ==
    [read |-> <<TakeCount(8, 4), Elems(1), Mark, Align, Sub("Utf8strCis")>>,
     get |-> [FlsCurrency |-> Num(At(0, 0), 4), FlsInfo |-> Data(At(0, 4), At(0, 8)),
         FlsInfoLen |-> LenOf("FlsInfo", At(0, 4)), FlsServer |-> Cast("Utf8strCis", At(1, 0), End)],
     write |-> Writer(8, <<Put("FlsCurrency", 0, 4), Pad("FlsInfo"), Child("FlsServer", "Utf8strCis"),
         Patch("FlsInfo", 4)>>)]

FsLocationsItem4 ==
    [read |-> <<TakeCount(4, 0), Each("FsLocationsServer4"), Mark, Sub("Pathname4")>>,
     get |-> [FliEntries |-> Iter("FsLocationsServer4", At(0, 0), At(0, 4)),
         FliEntriesCount |-> LenOf("FliEntries", At(0, 0)),
         FliRootpath |-> Cast("Pathname4", At(1, 0), End)],
     write |-> Writer(4, <<In(0, Items("FliEntries", Start("FsLocationsServer4"))),
         In(1, Child("FliRootpath", "Pathname4")), Patch("FliEntries", 0)>>)]

FsLocationsInfo4 ==
    [read |-> <<Take(8), Sub("Pathname4"), Mark, TakeCount(4, 0), Each("FsLocationsItem4")>>,
     get |-> [FliFlags |-> Num(At(0, 0), 4), FliValidFor |-> Num(At(0, 4), 4),
         FliFsRoot |-> Cast("Pathname4", At(0, 8), At(1, 0)),
         FliItems |-> Iter("FsLocationsItem4", At(1, 0), At(1, 4)),
         FliItemsCount |-> LenOf("FliItems", At(1, 0))],
     write |-> Writer(8, <<Put("FliFlags", 0, 4), Put("FliValidFor", 4, 4),
         In(0, Child("FliFsRoot", "Pathname4")), In(1, Late("FliItems", Start("FsLocationsItem4"))),
         Close("FliItems")>>)]

Nfsv41FileLayouthint4 ==
    [read |-> <<Take(12)>>,
     get |-> [NflhCare |-> Num(At(0, 0), 4), NflhUtil |-> Num(At(0, 4), 4),
         NflhStripeCount |-> Num(At(0, 8), 4)],
     write |-> Writer(12, <<Put("NflhCare", 0, 4), Put("NflhUtil", 4, 4),
         Put("NflhStripeCount", 8, 4)>>)]

MultipathList4 ==
    [read |-> <<TakeCount(4, 0), Each("Netaddr4")>>,
     peek |-> <<Peek(4)>>,
     get |-> [Count |-> LenOf("Data", At(0, 0)), Data |-> Iter("Netaddr4", At(0, 0), At(0, 4))],
     write |-> Writer(4, <<Items("Data", Start("Netaddr4")), Patch("Data", 0)>>)]

Nfsv41FileLayoutDsAddr4NfldaMultipathDsList ==
    [read |-> <<TakeCount(4, 0), Each("MultipathList4")>>,
     peek |-> <<Peek(4)>>,
     get |-> [Count |-> LenOf("Data", At(0, 0)), Data |-> Iter("MultipathList4", At(0, 0), At(0, 4))],
     write |-> Writer(4, <<Items("Data", Start("MultipathList4")), Patch("Data", 0)>>)]

Nfsv41FileLayoutDsAddr4 ==
    [read |-> <<TakeCount(4, 0), Elems(4), Mark, Sub("Nfsv41FileLayoutDsAddr4NfldaMultipathDsList")>>,
     get |-> [NfldaStripeIndices |-> Nth("", At(0, 0), At(0, 4), 4),
         NfldaStripeIndicesCount |-> LenOf("NfldaStripeIndices", At(0, 0)),
         NfldaMultipathDsList |-> Cast("Nfsv41FileLayoutDsAddr4NfldaMultipathDsList", At(1, 0), End)],
     write |-> Writer(4, <<Items("NfldaStripeIndices", Word(4)),
         Child("NfldaMultipathDsList", "Nfsv41FileLayoutDsAddr4NfldaMultipathDsList"),
         Patch("NfldaStripeIndices", 0)>>)]

Nfsv41FileLayout4 ==
    [read |-> <<TakeCount(36, 32), Each("NfsFh4")>>,
     peek |-> <<Peek(36)>>,
     get |-> [NflDeviceid |-> Struct("Deviceid4", At(0, 0)), NflUtil |-> Num(At(0, 16), 4),
         NflFirstStripeIndex |-> Num(At(0, 20), 4), NflPatternOffset |-> Num(At(0, 24), 8),
         NflFhListCount |-> LenOf("NflFhList", At(0, 32)),
         NflFhList |-> Iter("NfsFh4", At(0, 32), At(0, 36))],
     write |-> Writer(36, <<PutIn("NflDeviceid", "Deviceid4", 0), Put("NflUtil", 16, 4),
         Put("NflFirstStripeIndex", 20, 4), Put("NflPatternOffset", 24, 8),
         Items("NflFhList", Start("NfsFh4")), Patch("NflFhList", 32)>>)]

ACCESS4args == NumberOnly("Access", 4)

ACCESS4resok ==
    [read |-> <<Take(8)>>,
     get |-> [Supported |-> Num(At(0, 0), 4), Access |-> Num(At(0, 4), 4)],
     write |-> Writer(8, <<Put("Supported", 0, 4), Put("Access", 4, 4)>>)]

ACCESS4res ==
    [read |-> Union([NFS4_OK |-> "ACCESS4resok"], "Void"),
     get |-> [NFS4_OK |-> As("ACCESS4resok")]]

CLONE4args ==
    [read |-> <<Take(56)>>,
     get |-> [ClSrcStateid |-> Struct("Stateid4", At(0, 0)),
         ClDstStateid |-> Struct("Stateid4", At(0, 16)), ClSrcOffset |-> Num(At(0, 32), 8),
         ClDstOffset |-> Num(At(0, 40), 8), ClCount |-> Num(At(0, 48), 8)],
     write |-> Writer(56, <<Put("ClSrcOffset", 32, 8), Put("ClDstOffset", 40, 8), Put("ClCount", 48, 8),
         PutIn("ClSrcStateid", "Stateid4", 0), PutIn("ClDstStateid", "Stateid4", 16)>>)]

CLONE4res == NumberOnly("ClStatus", 4)

CLOSE4args ==
    [read |-> <<Take(20)>>,
     get |-> [Seqid |-> Num(At(0, 0), 4), OpenStateid |-> Struct("Stateid4", At(0, 4))],
     write |-> Writer(20, <<Put("Seqid", 0, 4), PutIn("OpenStateid", "Stateid4", 4)>>)]

CLOSE4res ==
    [read |-> Union([NFS4_OK |-> "Stateid4"], "Void"),
     get |-> [NFS4_OK |-> As("Stateid4")]]

COMMIT4args ==
    [read |-> <<Take(12)>>,
     get |-> [Offset |-> Num(At(0, 0), 8), Count |-> Num(At(0, 8), 4)],
     write |-> Writer(12, <<Put("Offset", 0, 8), Put("Count", 8, 4)>>)]

COMMIT4resok ==
    [read |-> <<Take(8)>>,
     get |-> [Writeverf |-> Struct("Verifier4", At(0, 0))],
     write |-> Writer(8, <<PutIn("Writeverf", "Verifier4", 0)>>)]

COMMIT4res ==
    [read |-> Union([NFS4_OK |-> "COMMIT4resok"], "Void"),
     get |-> [NFS4_OK |-> As("COMMIT4resok")]]

Createtype4 ==
    [read |-> Union([NF4LNK |-> "Linktext4", NF4BLK |-> "Specdata4", NF4CHR |-> "Specdata4",
         NF4SOCK |-> "Void", NF4FIFO |-> "Void", NF4DIR |-> "Void"], "Void"),
     get |-> [NF4LNK |-> As("Linktext4"), NF4BLK |-> As("Specdata4"), NF4CHR |-> As("Specdata4")]]

CREATE4args ==
    [read |-> <<Take(4), SubArm("Createtype4", 0), Mark, Sub("Component4"), Mark, Sub("Fattr4")>>,
     get |-> [ObjtypeType |-> Num(At(0, 0), 4),
         Objtype |-> Arm("Createtype4", At(0, 4), At(1, 0), At(0, 0)),
         Objname |-> Cast("Component4", At(1, 0), At(2, 0)),
         Createattrs |-> Reread("Fattr4", At(2, 0), End)],
     write |-> Writer(4, <<Put("ObjtypeType", 0, 4),
         In(0, ChoiceAt("Objtype", 0, [NF4LNK |-> Start("Linktext4"), NF4BLK |-> Fixed("Specdata4", 8),
         NF4CHR |-> Fixed("Specdata4", 8), NF4SOCK |-> Void, NF4FIFO |-> Void, NF4DIR |-> Void,
         Default |-> Void])), In(1, Child("Objname", "Component4")),
         In(2, Child("Createattrs", "Fattr4"))>>)]
=============================================================================
