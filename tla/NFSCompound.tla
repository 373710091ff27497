---------------------------- MODULE NFSCompound -----------------------------
(***************************************************************************)
(* The operations of a COMPOUND, and the COMPOUND itself. Each type of the *)
(* generated file has its decoder, its accessors and its writer, in the    *)
(* order of the file.                                                      *)
(***************************************************************************)
EXTENDS XDRSteps

ACCESS4resEntry == EntryOf("ACCESS4res", [NFS4_OK |-> Fixed("ACCESS4resok", 8), Default |-> Void])

CLOSE4resEntry == EntryOf("CLOSE4res", [NFS4_OK |-> Fixed("Stateid4", 16), Default |-> Void])

COMMIT4resEntry == EntryOf("COMMIT4res", [NFS4_OK |-> Fixed("COMMIT4resok", 8), Default |-> Void])

CREATE4resEntry == EntryOf("CREATE4res", [NFS4_OK |-> Inline("CREATE4resok", 20), Default |-> Void])

GETATTR4resEntry == EntryOf("GETATTR4res", [NFS4_OK |-> Start("GETATTR4resok"), Default |-> Void])

GETFH4resEntry == EntryOf("GETFH4res", [NFS4_OK |-> Start("GETFH4resok"), Default |-> Void])

LINK4resEntry == EntryOf("LINK4res", [NFS4_OK |-> Fixed("LINK4resok", 20), Default |-> Void])

LOCK4resEntry ==
    EntryOf("LOCK4res", [NFS4_OK |-> Fixed("LOCK4resok", 16),
        NFS4ERR_DENIED |-> Inline("LOCK4denied", 20), Default |-> Void])

LOCKT4resEntry ==
    EntryOf("LOCKT4res", [NFS4ERR_DENIED |-> Inline("LOCK4denied", 20), NFS4_OK |-> Void,
        Default |-> Void])

LOCKU4resEntry == EntryOf("LOCKU4res", [NFS4_OK |-> Fixed("Stateid4", 16), Default |-> Void])

OPEN4resEntry == EntryOf("OPEN4res", [NFS4_OK |-> Inline("OPEN4resok", 40), Default |-> Void])

OPENCONFIRM4resEntry ==
    EntryOf("OPENCONFIRM4res", [NFS4_OK |-> Fixed("OPENCONFIRM4resok", 16), Default |-> Void])

OPENDOWNGRADE4resEntry ==
    EntryOf("OPENDOWNGRADE4res", [NFS4_OK |-> Fixed("OPENDOWNGRADE4resok", 16), Default |-> Void])

READ4resEntry == EntryOf("READ4res", [NFS4_OK |-> Inline("READ4resok", 8), Default |-> Void])

READDIR4resEntry == EntryOf("READDIR4res", [NFS4_OK |-> Inline("READDIR4resok", 8), Default |-> Void])

READLINK4resEntry == EntryOf("READLINK4res", [NFS4_OK |-> Start("READLINK4resok"), Default |-> Void])

REMOVE4resEntry == EntryOf("REMOVE4res", [NFS4_OK |-> Fixed("REMOVE4resok", 20), Default |-> Void])

RENAME4resEntry == EntryOf("RENAME4res", [NFS4_OK |-> Fixed("RENAME4resok", 40), Default |-> Void])

SECINFO4resEntry == EntryOf("SECINFO4res", [NFS4_OK |-> Inline("SECINFO4resok", 4), Default |-> Void])

SETCLIENTID4resEntry ==
    EntryOf("SETCLIENTID4res", [NFS4_OK |-> Fixed("SETCLIENTID4resok", 16),
        NFS4ERR_CLID_INUSE |-> Start("Netaddr4"), Default |-> Void])

WRITE4resEntry == EntryOf("WRITE4res", [NFS4_OK |-> Fixed("WRITE4resok", 16), Default |-> Void])

BINDCONNTOSESSION4resEntry ==
    EntryOf("BINDCONNTOSESSION4res", [NFS4_OK |-> Fixed("BINDCONNTOSESSION4resok", 24),
        Default |-> Void])

EXCHANGEID4resEntry ==
    EntryOf("EXCHANGEID4res", [NFS4_OK |-> Inline("EXCHANGEID4resok", 20), Default |-> Void])

CREATESESSION4resEntry ==
    EntryOf("CREATESESSION4res", [NFS4_OK |-> Inline("CREATESESSION4resok", 24), Default |-> Void])

GETDIRDELEGATION4resEntry ==
    EntryOf("GETDIRDELEGATION4res", [NFS4_OK |-> Start("GETDIRDELEGATION4resNonFatalEntry"),
        Default |-> Void])

GETDEVICEINFO4resEntry ==
    EntryOf("GETDEVICEINFO4res", [NFS4_OK |-> Start("GETDEVICEINFO4resok"),
        NFS4ERR_TOOSMALL |-> Fixed("GETDEVICEINFO4resNFS4ERRTOOSMALL", 4), Default |-> Void])

GETDEVICELIST4resEntry ==
    EntryOf("GETDEVICELIST4res", [NFS4_OK |-> Inline("GETDEVICELIST4resok", 20), Default |-> Void])

LAYOUTCOMMIT4resEntry ==
    EntryOf("LAYOUTCOMMIT4res", [NFS4_OK |-> Start("LAYOUTCOMMIT4resok"), Default |-> Void])

LAYOUTGET4resEntry ==
    EntryOf("LAYOUTGET4res", [NFS4_OK |-> Inline("LAYOUTGET4resok", 24),
        NFS4ERR_LAYOUTTRYLATER |-> Fixed("LAYOUTGET4resNFS4ERRLAYOUTTRYLATER", 4), Default |-> Void])

LAYOUTRETURN4resEntry ==
    EntryOf("LAYOUTRETURN4res", [NFS4_OK |-> Start("LayoutreturnStateidEntry"), Default |-> Void])

SEQUENCE4resEntry ==
    EntryOf("SEQUENCE4res", [NFS4_OK |-> Fixed("SEQUENCE4resok", 36), Default |-> Void])

SETSSV4resEntry == EntryOf("SETSSV4res", [NFS4_OK |-> Start("SETSSV4resok"), Default |-> Void])

TESTSTATEID4resEntry ==
    EntryOf("TESTSTATEID4res", [NFS4_OK |-> Inline("TESTSTATEID4resok", 4), Default |-> Void])

WANTDELEGATION4resEntry ==
    EntryOf("WANTDELEGATION4res", [NFS4_OK |-> Start("OpenDelegation4Entry"), Default |-> Void])

COPY4resEntry ==
    EntryOf("COPY4res", [NFS4_OK |-> Start("COPY4resok"),
        NFS4ERR_OFFLOAD_NO_REQS |-> Fixed("CopyRequirements4", 8), Default |-> Void])

COPYNOTIFY4resEntry ==
    EntryOf("COPYNOTIFY4res", [NFS4_OK |-> Inline("COPYNOTIFY4resok", 32), Default |-> Void])

IOADVISE4resEntry == EntryOf("IOADVISE4res", [NFS4_OK |-> Start("IOADVISE4resok"), Default |-> Void])

OFFLOADSTATUS4resEntry ==
    EntryOf("OFFLOADSTATUS4res", [NFS4_OK |-> Inline("OFFLOADSTATUS4resok", 12), Default |-> Void])

READPLUS4resEntry == EntryOf("READPLUS4res", [NFS4_OK |-> Inline("ReadPlusRes4", 8), Default |-> Void])

SEEK4resEntry == EntryOf("SEEK4res", [NFS4_OK |-> Fixed("SeekRes4", 12), Default |-> Void])

WRITESAME4resEntry ==
    EntryOf("WRITESAME4res", [NFS4_OK |-> Inline("WriteResponse4", 4), Default |-> Void])

GETXATTR4resEntry == EntryOf("GETXATTR4res", [NFS4_OK |-> Start("Xattrvalue4"), Default |-> Void])

SETXATTR4resEntry == EntryOf("SETXATTR4res", [NFS4_OK |-> Fixed("ChangeInfo4", 20), Default |-> Void])

LISTXATTRS4resEntry ==
    EntryOf("LISTXATTRS4res", [NFS4_OK |-> Inline("LISTXATTRS4resok", 12), Default |-> Void])

REMOVEXATTR4resEntry ==
    EntryOf("REMOVEXATTR4res", [NFS4_OK |-> Fixed("ChangeInfo4", 20), Default |-> Void])

readNfsResop4 ==
    Union([OP_ACCESS |-> "ACCESS4resEntry", OP_CLOSE |-> "CLOSE4resEntry",
      OP_COMMIT |-> "COMMIT4resEntry", OP_CREATE |-> "CREATE4resEntry",
      OP_DELEGPURGE |-> "DELEGPURGE4res", OP_DELEGRETURN |-> "DELEGRETURN4res",
      OP_GETATTR |-> "GETATTR4resEntry", OP_GETFH |-> "GETFH4resEntry", OP_LINK |-> "LINK4resEntry",
      OP_LOCK |-> "LOCK4resEntry", OP_LOCKT |-> "LOCKT4resEntry", OP_LOCKU |-> "LOCKU4resEntry",
      OP_LOOKUP |-> "LOOKUP4res", OP_LOOKUPP |-> "LOOKUPP4res", OP_NVERIFY |-> "NVERIFY4res",
      OP_OPEN |-> "OPEN4resEntry", OP_OPENATTR |-> "OPENATTR4res",
      OP_OPEN_CONFIRM |-> "OPENCONFIRM4resEntry", OP_OPEN_DOWNGRADE |-> "OPENDOWNGRADE4resEntry",
      OP_PUTFH |-> "PUTFH4res", OP_PUTPUBFH |-> "PUTPUBFH4res", OP_PUTROOTFH |-> "PUTROOTFH4res",
      OP_READ |-> "READ4resEntry", OP_READDIR |-> "READDIR4resEntry",
      OP_READLINK |-> "READLINK4resEntry", OP_REMOVE |-> "REMOVE4resEntry",
      OP_RENAME |-> "RENAME4resEntry", OP_RENEW |-> "RENEW4res", OP_RESTOREFH |-> "RESTOREFH4res",
      OP_SAVEFH |-> "SAVEFH4res", OP_SECINFO |-> "SECINFO4resEntry", OP_SETATTR |-> "SETATTR4res",
      OP_SETCLIENTID |-> "SETCLIENTID4resEntry", OP_SETCLIENTID_CONFIRM |-> "SETCLIENTIDCONFIRM4res",
      OP_VERIFY |-> "VERIFY4res", OP_WRITE |-> "WRITE4resEntry",
      OP_RELEASE_LOCKOWNER |-> "RELEASELOCKOWNER4res", OP_BACKCHANNEL_CTL |-> "BACKCHANNELCTL4res",
      OP_BIND_CONN_TO_SESSION |-> "BINDCONNTOSESSION4resEntry",
      OP_EXCHANGE_ID |-> "EXCHANGEID4resEntry", OP_CREATE_SESSION |-> "CREATESESSION4resEntry",
      OP_DESTROY_SESSION |-> "DESTROYSESSION4res", OP_FREE_STATEID |-> "FREESTATEID4res",
      OP_GET_DIR_DELEGATION |-> "GETDIRDELEGATION4resEntry",
      OP_GETDEVICEINFO |-> "GETDEVICEINFO4resEntry", OP_GETDEVICELIST |-> "GETDEVICELIST4resEntry",
      OP_LAYOUTCOMMIT |-> "LAYOUTCOMMIT4resEntry", OP_LAYOUTGET |-> "LAYOUTGET4resEntry",
      OP_LAYOUTRETURN |-> "LAYOUTRETURN4resEntry", OP_SECINFO_NO_NAME |-> "SECINFO4resEntry",
      OP_SEQUENCE |-> "SEQUENCE4resEntry", OP_SET_SSV |-> "SETSSV4resEntry",
      OP_TEST_STATEID |-> "TESTSTATEID4resEntry", OP_WANT_DELEGATION |-> "WANTDELEGATION4resEntry",
      OP_DESTROY_CLIENTID |-> "DESTROYCLIENTID4res", OP_RECLAIM_COMPLETE |-> "RECLAIMCOMPLETE4res",
      OP_ALLOCATE |-> "ALLOCATE4res", OP_COPY |-> "COPY4resEntry",
      OP_COPY_NOTIFY |-> "COPYNOTIFY4resEntry", OP_DEALLOCATE |-> "DEALLOCATE4res",
      OP_IO_ADVISE |-> "IOADVISE4resEntry", OP_LAYOUTERROR |-> "LAYOUTERROR4res",
      OP_LAYOUTSTATS |-> "LAYOUTSTATS4res", OP_OFFLOAD_CANCEL |-> "OFFLOADCANCEL4res",
      OP_OFFLOAD_STATUS |-> "OFFLOADSTATUS4resEntry", OP_READ_PLUS |-> "READPLUS4resEntry",
      OP_SEEK |-> "SEEK4resEntry", OP_WRITE_SAME |-> "WRITESAME4resEntry", OP_CLONE |-> "CLONE4res",
      OP_GETXATTR |-> "GETXATTR4resEntry", OP_SETXATTR |-> "SETXATTR4resEntry",
      OP_LISTXATTRS |-> "LISTXATTRS4resEntry", OP_REMOVEXATTR |-> "REMOVEXATTR4resEntry",
      OP_ILLEGAL |-> "ILLEGAL4res"], "Refused")
NfsResop4 ==
    [read |-> readNfsResop4,
     get |-> [OP_ACCESS |-> As("ACCESS4resEntry"), OP_CLOSE |-> As("CLOSE4resEntry"),
         OP_COMMIT |-> As("COMMIT4resEntry"), OP_CREATE |-> As("CREATE4resEntry"),
         OP_DELEGPURGE |-> As("DELEGPURGE4res"), OP_DELEGRETURN |-> As("DELEGRETURN4res"),
         OP_GETATTR |-> As("GETATTR4resEntry"), OP_GETFH |-> As("GETFH4resEntry"),
         OP_LINK |-> As("LINK4resEntry"), OP_LOCK |-> As("LOCK4resEntry"),
         OP_LOCKT |-> As("LOCKT4resEntry"), OP_LOCKU |-> As("LOCKU4resEntry"),
         OP_LOOKUP |-> As("LOOKUP4res"), OP_LOOKUPP |-> As("LOOKUPP4res"),
         OP_NVERIFY |-> As("NVERIFY4res"), OP_OPEN |-> As("OPEN4resEntry"),
         OP_OPENATTR |-> As("OPENATTR4res"), OP_OPEN_CONFIRM |-> As("OPENCONFIRM4resEntry"),
         OP_OPEN_DOWNGRADE |-> As("OPENDOWNGRADE4resEntry"), OP_PUTFH |-> As("PUTFH4res"),
         OP_PUTPUBFH |-> As("PUTPUBFH4res"), OP_PUTROOTFH |-> As("PUTROOTFH4res"),
         OP_READ |-> As("READ4resEntry"), OP_READDIR |-> As("READDIR4resEntry"),
         OP_READLINK |-> As("READLINK4resEntry"), OP_REMOVE |-> As("REMOVE4resEntry"),
         OP_RENAME |-> As("RENAME4resEntry"), OP_RENEW |-> As("RENEW4res"),
         OP_RESTOREFH |-> As("RESTOREFH4res"), OP_SAVEFH |-> As("SAVEFH4res"),
         OP_SECINFO |-> As("SECINFO4resEntry"), OP_SETATTR |-> As("SETATTR4res"),
         OP_SETCLIENTID |-> As("SETCLIENTID4resEntry"),
         OP_SETCLIENTID_CONFIRM |-> As("SETCLIENTIDCONFIRM4res"), OP_VERIFY |-> As("VERIFY4res"),
         OP_WRITE |-> As("WRITE4resEntry"), OP_RELEASE_LOCKOWNER |-> As("RELEASELOCKOWNER4res"),
         OP_BACKCHANNEL_CTL |-> As("BACKCHANNELCTL4res"),
         OP_BIND_CONN_TO_SESSION |-> As("BINDCONNTOSESSION4resEntry"),
         OP_EXCHANGE_ID |-> As("EXCHANGEID4resEntry"),
         OP_CREATE_SESSION |-> As("CREATESESSION4resEntry"),
         OP_DESTROY_SESSION |-> As("DESTROYSESSION4res"), OP_FREE_STATEID |-> As("FREESTATEID4res"),
         OP_GET_DIR_DELEGATION |-> As("GETDIRDELEGATION4resEntry"),
         OP_GETDEVICEINFO |-> As("GETDEVICEINFO4resEntry"),
         OP_GETDEVICELIST |-> As("GETDEVICELIST4resEntry"),
         OP_LAYOUTCOMMIT |-> As("LAYOUTCOMMIT4resEntry"), OP_LAYOUTGET |-> As("LAYOUTGET4resEntry"),
         OP_LAYOUTRETURN |-> As("LAYOUTRETURN4resEntry"), OP_SECINFO_NO_NAME |-> As("SECINFO4resEntry"),
         OP_SEQUENCE |-> As("SEQUENCE4resEntry"), OP_SET_SSV |-> As("SETSSV4resEntry"),
         OP_TEST_STATEID |-> As("TESTSTATEID4resEntry"),
         OP_WANT_DELEGATION |-> As("WANTDELEGATION4resEntry"),
         OP_DESTROY_CLIENTID |-> As("DESTROYCLIENTID4res"),
         OP_RECLAIM_COMPLETE |-> As("RECLAIMCOMPLETE4res"), OP_ALLOCATE |-> As("ALLOCATE4res"),
         OP_COPY |-> As("COPY4resEntry"), OP_COPY_NOTIFY |-> As("COPYNOTIFY4resEntry"),
         OP_DEALLOCATE |-> As("DEALLOCATE4res"), OP_IO_ADVISE |-> As("IOADVISE4resEntry"),
         OP_LAYOUTERROR |-> As("LAYOUTERROR4res"), OP_LAYOUTSTATS |-> As("LAYOUTSTATS4res"),
         OP_OFFLOAD_CANCEL |-> As("OFFLOADCANCEL4res"),
         OP_OFFLOAD_STATUS |-> As("OFFLOADSTATUS4resEntry"), OP_READ_PLUS |-> As("READPLUS4resEntry"),
         OP_SEEK |-> As("SEEK4resEntry"), OP_WRITE_SAME |-> As("WRITESAME4resEntry"),
         OP_CLONE |-> As("CLONE4res"), OP_GETXATTR |-> As("GETXATTR4resEntry"),
         OP_SETXATTR |-> As("SETXATTR4resEntry"), OP_LISTXATTRS |-> As("LISTXATTRS4resEntry"),
         OP_REMOVEXATTR |-> As("REMOVEXATTR4resEntry"), OP_ILLEGAL |-> As("ILLEGAL4res")]]

readNfsArgop4Entry == <<Take(4), SubArm("NfsArgop4", 0)>>
NfsArgop4EntryWriter ==
    Writer(0, <<Choice("Value", [OP_ACCESS |-> Fixed("ACCESS4args", 4),
      OP_CLOSE |-> Fixed("CLOSE4args", 20), OP_COMMIT |-> Fixed("COMMIT4args", 12),
      OP_CREATE |-> Inline("CREATE4args", 4), OP_DELEGPURGE |-> Fixed("DELEGPURGE4args", 8),
      OP_DELEGRETURN |-> Fixed("DELEGRETURN4args", 16), OP_GETATTR |-> Start("GETATTR4args"),
      OP_GETFH |-> Void, OP_LINK |-> Start("LINK4args"), OP_LOCK |-> Inline("LOCK4args", 28),
      OP_LOCKT |-> Inline("LOCKT4args", 20), OP_LOCKU |-> Fixed("LOCKU4args", 40),
      OP_LOOKUP |-> Start("LOOKUP4args"), OP_LOOKUPP |-> Void, OP_NVERIFY |-> Start("NVERIFY4args"),
      OP_OPEN |-> Inline("OPEN4args", 12), OP_OPENATTR |-> Fixed("OPENATTR4args", 4),
      OP_OPEN_CONFIRM |-> Fixed("OPENCONFIRM4args", 20),
      OP_OPEN_DOWNGRADE |-> Fixed("OPENDOWNGRADE4args", 28), OP_PUTFH |-> Start("PUTFH4args"),
      OP_PUTPUBFH |-> Void, OP_PUTROOTFH |-> Void, OP_READ |-> Fixed("READ4args", 28),
      OP_READDIR |-> Inline("READDIR4args", 24), OP_READLINK |-> Void,
      OP_REMOVE |-> Start("REMOVE4args"), OP_RENAME |-> Start("RENAME4args"),
      OP_RENEW |-> Fixed("RENEW4args", 8), OP_RESTOREFH |-> Void, OP_SAVEFH |-> Void,
      OP_SECINFO |-> Start("SECINFO4args"), OP_SETATTR |-> Inline("SETATTR4args", 16),
      OP_SETCLIENTID |-> Start("SETCLIENTID4args"),
      OP_SETCLIENTID_CONFIRM |-> Fixed("SETCLIENTIDCONFIRM4args", 16),
      OP_VERIFY |-> Start("VERIFY4args"), OP_WRITE |-> Inline("WRITE4args", 32),
      OP_RELEASE_LOCKOWNER |-> Start("RELEASELOCKOWNER4args"),
      OP_BACKCHANNEL_CTL |-> Inline("BACKCHANNELCTL4args", 8),
      OP_BIND_CONN_TO_SESSION |-> Fixed("BINDCONNTOSESSION4args", 24),
      OP_EXCHANGE_ID |-> Start("EXCHANGEID4args"),
      OP_CREATE_SESSION |-> Inline("CREATESESSION4args", 16),
      OP_DESTROY_SESSION |-> Fixed("DESTROYSESSION4args", 16),
      OP_FREE_STATEID |-> Fixed("FREESTATEID4args", 16),
      OP_GET_DIR_DELEGATION |-> Inline("GETDIRDELEGATION4args", 4),
      OP_GETDEVICEINFO |-> Inline("GETDEVICEINFO4args", 24),
      OP_GETDEVICELIST |-> Fixed("GETDEVICELIST4args", 24),
      OP_LAYOUTCOMMIT |-> Inline("LAYOUTCOMMIT4args", 40), OP_LAYOUTGET |-> Fixed("LAYOUTGET4args", 56),
      OP_LAYOUTRETURN |-> Inline("LAYOUTRETURN4args", 16),
      OP_SECINFO_NO_NAME |-> Fixed("NfsArgop4OPSECINFONONAME", 4),
      OP_SEQUENCE |-> Fixed("SEQUENCE4args", 32), OP_SET_SSV |-> Start("SETSSV4args"),
      OP_TEST_STATEID |-> Inline("TESTSTATEID4args", 4),
      OP_WANT_DELEGATION |-> Inline("WANTDELEGATION4args", 8),
      OP_DESTROY_CLIENTID |-> Fixed("DESTROYCLIENTID4args", 8),
      OP_RECLAIM_COMPLETE |-> Fixed("RECLAIMCOMPLETE4args", 4),
      OP_ALLOCATE |-> Fixed("ALLOCATE4args", 32), OP_COPY |-> Inline("COPY4args", 68),
      OP_COPY_NOTIFY |-> Inline("COPYNOTIFY4args", 20), OP_DEALLOCATE |-> Fixed("DEALLOCATE4args", 32),
      OP_IO_ADVISE |-> Inline("IOADVISE4args", 32), OP_LAYOUTERROR |-> Inline("LAYOUTERROR4args", 36),
      OP_LAYOUTSTATS |-> Inline("LAYOUTSTATS4args", 80),
      OP_OFFLOAD_CANCEL |-> Fixed("OFFLOADCANCEL4args", 16),
      OP_OFFLOAD_STATUS |-> Fixed("OFFLOADSTATUS4args", 16),
      OP_READ_PLUS |-> Fixed("READPLUS4args", 28), OP_SEEK |-> Fixed("SEEK4args", 28),
      OP_WRITE_SAME |-> Inline("WRITESAME4args", 20), OP_CLONE |-> Fixed("CLONE4args", 56),
      OP_GETXATTR |-> Start("GETXATTR4args"), OP_SETXATTR |-> Inline("SETXATTR4args", 4),
      OP_LISTXATTRS |-> Fixed("LISTXATTRS4args", 12), OP_REMOVEXATTR |-> Start("REMOVEXATTR4args"),
      OP_ILLEGAL |-> Void, Default |-> Void])>>)
NfsArgop4Entry ==
    [read |-> readNfsArgop4Entry,
     get |-> [Disc |-> Num(At(0, 0), 4), Value |-> Arm("NfsArgop4", At(0, 4), End, At(0, 0))],
     write |-> NfsArgop4EntryWriter]

readCOMPOUND4args == <<Sub("Utf8strCs"), Mark, Take(4), TakeCount(4, 0), Each("NfsArgop4Entry")>>
COMPOUND4argsWriter ==
    Writer(0, <<In(0, Child("Tag", "Utf8strCs")), In(1, App("Minorversion", 4)),
      In(1, Late("Argarray", OneOf([OP_ACCESS |-> Fixed("ACCESS4args", 4),
      OP_CLOSE |-> Fixed("CLOSE4args", 20), OP_COMMIT |-> Fixed("COMMIT4args", 12),
      OP_CREATE |-> Inline("CREATE4args", 4), OP_DELEGPURGE |-> Fixed("DELEGPURGE4args", 8),
      OP_DELEGRETURN |-> Fixed("DELEGRETURN4args", 16), OP_GETATTR |-> Start("GETATTR4args"),
      OP_GETFH |-> Void, OP_LINK |-> Start("LINK4args"), OP_LOCK |-> Inline("LOCK4args", 28),
      OP_LOCKT |-> Inline("LOCKT4args", 20), OP_LOCKU |-> Fixed("LOCKU4args", 40),
      OP_LOOKUP |-> Start("LOOKUP4args"), OP_LOOKUPP |-> Void, OP_NVERIFY |-> Start("NVERIFY4args"),
      OP_OPEN |-> Inline("OPEN4args", 12), OP_OPENATTR |-> Fixed("OPENATTR4args", 4),
      OP_OPEN_CONFIRM |-> Fixed("OPENCONFIRM4args", 20),
      OP_OPEN_DOWNGRADE |-> Fixed("OPENDOWNGRADE4args", 28), OP_PUTFH |-> Start("PUTFH4args"),
      OP_PUTPUBFH |-> Void, OP_PUTROOTFH |-> Void, OP_READ |-> Fixed("READ4args", 28),
      OP_READDIR |-> Inline("READDIR4args", 24), OP_READLINK |-> Void,
      OP_REMOVE |-> Start("REMOVE4args"), OP_RENAME |-> Start("RENAME4args"),
      OP_RENEW |-> Fixed("RENEW4args", 8), OP_RESTOREFH |-> Void, OP_SAVEFH |-> Void,
      OP_SECINFO |-> Start("SECINFO4args"), OP_SETATTR |-> Inline("SETATTR4args", 16),
      OP_SETCLIENTID |-> Start("SETCLIENTID4args"),
      OP_SETCLIENTID_CONFIRM |-> Fixed("SETCLIENTIDCONFIRM4args", 16),
      OP_VERIFY |-> Start("VERIFY4args"), OP_WRITE |-> Inline("WRITE4args", 32),
      OP_RELEASE_LOCKOWNER |-> Start("RELEASELOCKOWNER4args"),
      OP_BACKCHANNEL_CTL |-> Inline("BACKCHANNELCTL4args", 8),
      OP_BIND_CONN_TO_SESSION |-> Fixed("BINDCONNTOSESSION4args", 24),
      OP_EXCHANGE_ID |-> Start("EXCHANGEID4args"),
      OP_CREATE_SESSION |-> Inline("CREATESESSION4args", 16),
      OP_DESTROY_SESSION |-> Fixed("DESTROYSESSION4args", 16),
      OP_FREE_STATEID |-> Fixed("FREESTATEID4args", 16),
      OP_GET_DIR_DELEGATION |-> Inline("GETDIRDELEGATION4args", 4),
      OP_GETDEVICEINFO |-> Inline("GETDEVICEINFO4args", 24),
      OP_GETDEVICELIST |-> Fixed("GETDEVICELIST4args", 24),
      OP_LAYOUTCOMMIT |-> Inline("LAYOUTCOMMIT4args", 40), OP_LAYOUTGET |-> Fixed("LAYOUTGET4args", 56),
      OP_LAYOUTRETURN |-> Inline("LAYOUTRETURN4args", 16),
      OP_SECINFO_NO_NAME |-> Fixed("NfsArgop4OPSECINFONONAME", 4),
      OP_SEQUENCE |-> Fixed("SEQUENCE4args", 32), OP_SET_SSV |-> Start("SETSSV4args"),
      OP_TEST_STATEID |-> Inline("TESTSTATEID4args", 4),
      OP_WANT_DELEGATION |-> Inline("WANTDELEGATION4args", 8),
      OP_DESTROY_CLIENTID |-> Fixed("DESTROYCLIENTID4args", 8),
      OP_RECLAIM_COMPLETE |-> Fixed("RECLAIMCOMPLETE4args", 4),
      OP_ALLOCATE |-> Fixed("ALLOCATE4args", 32), OP_COPY |-> Inline("COPY4args", 68),
      OP_COPY_NOTIFY |-> Inline("COPYNOTIFY4args", 20), OP_DEALLOCATE |-> Fixed("DEALLOCATE4args", 32),
      OP_IO_ADVISE |-> Inline("IOADVISE4args", 32), OP_LAYOUTERROR |-> Inline("LAYOUTERROR4args", 36),
      OP_LAYOUTSTATS |-> Inline("LAYOUTSTATS4args", 80),
      OP_OFFLOAD_CANCEL |-> Fixed("OFFLOADCANCEL4args", 16),
      OP_OFFLOAD_STATUS |-> Fixed("OFFLOADSTATUS4args", 16),
      OP_READ_PLUS |-> Fixed("READPLUS4args", 28), OP_SEEK |-> Fixed("SEEK4args", 28),
      OP_WRITE_SAME |-> Inline("WRITESAME4args", 20), OP_CLONE |-> Fixed("CLONE4args", 56),
      OP_GETXATTR |-> Start("GETXATTR4args"), OP_SETXATTR |-> Inline("SETXATTR4args", 4),
      OP_LISTXATTRS |-> Fixed("LISTXATTRS4args", 12), OP_REMOVEXATTR |-> Start("REMOVEXATTR4args"),
      OP_ILLEGAL |-> Void, Default |-> Void]))), Close("Argarray")>>)
COMPOUND4args ==
    [read |-> readCOMPOUND4args,
     get |-> [Tag |-> Cast("Utf8strCs", At(0, 0), At(1, 0)), Minorversion |-> Num(At(1, 0), 4),
         Argarray |-> Iter("NfsArgop4Entry", At(1, 4), At(1, 8)),
         ArgarrayCount |-> LenOf("Argarray", At(1, 4))],
     write |-> COMPOUND4argsWriter]

readNfsResop4Entry == <<Take(4), SubArm("NfsResop4", 0)>>
NfsResop4EntryWriter ==
    Writer(0, <<Choice("Value", [OP_ACCESS |-> Start("ACCESS4resEntry"),
      OP_CLOSE |-> Start("CLOSE4resEntry"), OP_COMMIT |-> Start("COMMIT4resEntry"),
      OP_CREATE |-> Start("CREATE4resEntry"), OP_DELEGPURGE |-> Fixed("DELEGPURGE4res", 4),
      OP_DELEGRETURN |-> Fixed("DELEGRETURN4res", 4), OP_GETATTR |-> Start("GETATTR4resEntry"),
      OP_GETFH |-> Start("GETFH4resEntry"), OP_LINK |-> Start("LINK4resEntry"),
      OP_LOCK |-> Start("LOCK4resEntry"), OP_LOCKT |-> Start("LOCKT4resEntry"),
      OP_LOCKU |-> Start("LOCKU4resEntry"), OP_LOOKUP |-> Fixed("LOOKUP4res", 4),
      OP_LOOKUPP |-> Fixed("LOOKUPP4res", 4), OP_NVERIFY |-> Fixed("NVERIFY4res", 4),
      OP_OPEN |-> Start("OPEN4resEntry"), OP_OPENATTR |-> Fixed("OPENATTR4res", 4),
      OP_OPEN_CONFIRM |-> Start("OPENCONFIRM4resEntry"),
      OP_OPEN_DOWNGRADE |-> Start("OPENDOWNGRADE4resEntry"), OP_PUTFH |-> Fixed("PUTFH4res", 4),
      OP_PUTPUBFH |-> Fixed("PUTPUBFH4res", 4), OP_PUTROOTFH |-> Fixed("PUTROOTFH4res", 4),
      OP_READ |-> Start("READ4resEntry"), OP_READDIR |-> Start("READDIR4resEntry"),
      OP_READLINK |-> Start("READLINK4resEntry"), OP_REMOVE |-> Start("REMOVE4resEntry"),
      OP_RENAME |-> Start("RENAME4resEntry"), OP_RENEW |-> Fixed("RENEW4res", 4),
      OP_RESTOREFH |-> Fixed("RESTOREFH4res", 4), OP_SAVEFH |-> Fixed("SAVEFH4res", 4),
      OP_SECINFO |-> Start("SECINFO4resEntry"), OP_SETATTR |-> Inline("SETATTR4res", 4),
      OP_SETCLIENTID |-> Start("SETCLIENTID4resEntry"),
      OP_SETCLIENTID_CONFIRM |-> Fixed("SETCLIENTIDCONFIRM4res", 4),
      OP_VERIFY |-> Fixed("VERIFY4res", 4), OP_WRITE |-> Start("WRITE4resEntry"),
      OP_RELEASE_LOCKOWNER |-> Fixed("RELEASELOCKOWNER4res", 4),
      OP_BACKCHANNEL_CTL |-> Fixed("BACKCHANNELCTL4res", 4),
      OP_BIND_CONN_TO_SESSION |-> Start("BINDCONNTOSESSION4resEntry"),
      OP_EXCHANGE_ID |-> Start("EXCHANGEID4resEntry"),
      OP_CREATE_SESSION |-> Start("CREATESESSION4resEntry"),
      OP_DESTROY_SESSION |-> Fixed("DESTROYSESSION4res", 4),
      OP_FREE_STATEID |-> Fixed("FREESTATEID4res", 4),
      OP_GET_DIR_DELEGATION |-> Start("GETDIRDELEGATION4resEntry"),
      OP_GETDEVICEINFO |-> Start("GETDEVICEINFO4resEntry"),
      OP_GETDEVICELIST |-> Start("GETDEVICELIST4resEntry"),
      OP_LAYOUTCOMMIT |-> Start("LAYOUTCOMMIT4resEntry"), OP_LAYOUTGET |-> Start("LAYOUTGET4resEntry"),
      OP_LAYOUTRETURN |-> Start("LAYOUTRETURN4resEntry"),
      OP_SECINFO_NO_NAME |-> Start("SECINFO4resEntry"), OP_SEQUENCE |-> Start("SEQUENCE4resEntry"),
      OP_SET_SSV |-> Start("SETSSV4resEntry"), OP_TEST_STATEID |-> Start("TESTSTATEID4resEntry"),
      OP_WANT_DELEGATION |-> Start("WANTDELEGATION4resEntry"),
      OP_DESTROY_CLIENTID |-> Fixed("DESTROYCLIENTID4res", 4),
      OP_RECLAIM_COMPLETE |-> Fixed("RECLAIMCOMPLETE4res", 4), OP_ALLOCATE |-> Fixed("ALLOCATE4res", 4),
      OP_COPY |-> Start("COPY4resEntry"), OP_COPY_NOTIFY |-> Start("COPYNOTIFY4resEntry"),
      OP_DEALLOCATE |-> Fixed("DEALLOCATE4res", 4), OP_IO_ADVISE |-> Start("IOADVISE4resEntry"),
      OP_LAYOUTERROR |-> Fixed("LAYOUTERROR4res", 4), OP_LAYOUTSTATS |-> Fixed("LAYOUTSTATS4res", 4),
      OP_OFFLOAD_CANCEL |-> Fixed("OFFLOADCANCEL4res", 4),
      OP_OFFLOAD_STATUS |-> Start("OFFLOADSTATUS4resEntry"),
      OP_READ_PLUS |-> Start("READPLUS4resEntry"), OP_SEEK |-> Start("SEEK4resEntry"),
      OP_WRITE_SAME |-> Start("WRITESAME4resEntry"), OP_CLONE |-> Fixed("CLONE4res", 4),
      OP_GETXATTR |-> Start("GETXATTR4resEntry"), OP_SETXATTR |-> Start("SETXATTR4resEntry"),
      OP_LISTXATTRS |-> Start("LISTXATTRS4resEntry"), OP_REMOVEXATTR |-> Start("REMOVEXATTR4resEntry"),
      OP_ILLEGAL |-> Fixed("ILLEGAL4res", 4)])>>)
NfsResop4Entry ==
    [read |-> readNfsResop4Entry,
     get |-> [Disc |-> Num(At(0, 0), 4), Value |-> Arm("NfsResop4", At(0, 4), End, At(0, 0))],
     write |-> NfsResop4EntryWriter]

readCOMPOUND4res == <<Take(4), Sub("Utf8strCs"), Mark, TakeCount(4, 0), Each("NfsResop4Entry")>>
COMPOUND4resWriter ==
    Writer(4, <<Put("Status", 0, 4), In(0, Child("Tag", "Utf8strCs")),
      In(1, Late("Resarray", OneOf([OP_ACCESS |-> Start("ACCESS4resEntry"),
      OP_CLOSE |-> Start("CLOSE4resEntry"), OP_COMMIT |-> Start("COMMIT4resEntry"),
      OP_CREATE |-> Start("CREATE4resEntry"), OP_DELEGPURGE |-> Fixed("DELEGPURGE4res", 4),
      OP_DELEGRETURN |-> Fixed("DELEGRETURN4res", 4), OP_GETATTR |-> Start("GETATTR4resEntry"),
      OP_GETFH |-> Start("GETFH4resEntry"), OP_LINK |-> Start("LINK4resEntry"),
      OP_LOCK |-> Start("LOCK4resEntry"), OP_LOCKT |-> Start("LOCKT4resEntry"),
      OP_LOCKU |-> Start("LOCKU4resEntry"), OP_LOOKUP |-> Fixed("LOOKUP4res", 4),
      OP_LOOKUPP |-> Fixed("LOOKUPP4res", 4), OP_NVERIFY |-> Fixed("NVERIFY4res", 4),
      OP_OPEN |-> Start("OPEN4resEntry"), OP_OPENATTR |-> Fixed("OPENATTR4res", 4),
      OP_OPEN_CONFIRM |-> Start("OPENCONFIRM4resEntry"),
      OP_OPEN_DOWNGRADE |-> Start("OPENDOWNGRADE4resEntry"), OP_PUTFH |-> Fixed("PUTFH4res", 4),
      OP_PUTPUBFH |-> Fixed("PUTPUBFH4res", 4), OP_PUTROOTFH |-> Fixed("PUTROOTFH4res", 4),
      OP_READ |-> Start("READ4resEntry"), OP_READDIR |-> Start("READDIR4resEntry"),
      OP_READLINK |-> Start("READLINK4resEntry"), OP_REMOVE |-> Start("REMOVE4resEntry"),
      OP_RENAME |-> Start("RENAME4resEntry"), OP_RENEW |-> Fixed("RENEW4res", 4),
      OP_RESTOREFH |-> Fixed("RESTOREFH4res", 4), OP_SAVEFH |-> Fixed("SAVEFH4res", 4),
      OP_SECINFO |-> Start("SECINFO4resEntry"), OP_SETATTR |-> Inline("SETATTR4res", 4),
      OP_SETCLIENTID |-> Start("SETCLIENTID4resEntry"),
      OP_SETCLIENTID_CONFIRM |-> Fixed("SETCLIENTIDCONFIRM4res", 4),
      OP_VERIFY |-> Fixed("VERIFY4res", 4), OP_WRITE |-> Start("WRITE4resEntry"),
      OP_RELEASE_LOCKOWNER |-> Fixed("RELEASELOCKOWNER4res", 4),
      OP_BACKCHANNEL_CTL |-> Fixed("BACKCHANNELCTL4res", 4),
      OP_BIND_CONN_TO_SESSION |-> Start("BINDCONNTOSESSION4resEntry"),
      OP_EXCHANGE_ID |-> Start("EXCHANGEID4resEntry"),
      OP_CREATE_SESSION |-> Start("CREATESESSION4resEntry"),
      OP_DESTROY_SESSION |-> Fixed("DESTROYSESSION4res", 4),
      OP_FREE_STATEID |-> Fixed("FREESTATEID4res", 4),
      OP_GET_DIR_DELEGATION |-> Start("GETDIRDELEGATION4resEntry"),
      OP_GETDEVICEINFO |-> Start("GETDEVICEINFO4resEntry"),
      OP_GETDEVICELIST |-> Start("GETDEVICELIST4resEntry"),
      OP_LAYOUTCOMMIT |-> Start("LAYOUTCOMMIT4resEntry"), OP_LAYOUTGET |-> Start("LAYOUTGET4resEntry"),
      OP_LAYOUTRETURN |-> Start("LAYOUTRETURN4resEntry"),
      OP_SECINFO_NO_NAME |-> Start("SECINFO4resEntry"), OP_SEQUENCE |-> Start("SEQUENCE4resEntry"),
      OP_SET_SSV |-> Start("SETSSV4resEntry"), OP_TEST_STATEID |-> Start("TESTSTATEID4resEntry"),
      OP_WANT_DELEGATION |-> Start("WANTDELEGATION4resEntry"),
      OP_DESTROY_CLIENTID |-> Fixed("DESTROYCLIENTID4res", 4),
      OP_RECLAIM_COMPLETE |-> Fixed("RECLAIMCOMPLETE4res", 4), OP_ALLOCATE |-> Fixed("ALLOCATE4res", 4),
      OP_COPY |-> Start("COPY4resEntry"), OP_COPY_NOTIFY |-> Start("COPYNOTIFY4resEntry"),
      OP_DEALLOCATE |-> Fixed("DEALLOCATE4res", 4), OP_IO_ADVISE |-> Start("IOADVISE4resEntry"),
      OP_LAYOUTERROR |-> Fixed("LAYOUTERROR4res", 4), OP_LAYOUTSTATS |-> Fixed("LAYOUTSTATS4res", 4),
      OP_OFFLOAD_CANCEL |-> Fixed("OFFLOADCANCEL4res", 4),
      OP_OFFLOAD_STATUS |-> Start("OFFLOADSTATUS4resEntry"),
      OP_READ_PLUS |-> Start("READPLUS4resEntry"), OP_SEEK |-> Start("SEEK4resEntry"),
      OP_WRITE_SAME |-> Start("WRITESAME4resEntry"), OP_CLONE |-> Fixed("CLONE4res", 4),
      OP_GETXATTR |-> Start("GETXATTR4resEntry"), OP_SETXATTR |-> Start("SETXATTR4resEntry"),
      OP_LISTXATTRS |-> Start("LISTXATTRS4resEntry"), OP_REMOVEXATTR |-> Start("REMOVEXATTR4resEntry"),
      OP_ILLEGAL |-> Fixed("ILLEGAL4res", 4)]))), Close("Resarray")>>)
COMPOUND4res ==
    [read |-> readCOMPOUND4res,
     get |-> [Status |-> Num(At(0, 0), 4), Tag |-> Cast("Utf8strCs", At(0, 4), At(1, 0)),
         Resarray |-> Iter("NfsResop4Entry", At(1, 0), At(1, 4)),
         ResarrayCount |-> LenOf("Resarray", At(1, 0))],
     write |-> COMPOUND4resWriter]
=============================================================================
