------------------------------ MODULE NFSTable ------------------------------
(***************************************************************************)
(* The discriminants of the unions, by the constant group of the generated *)
(* file, and the tables by which a step names another type.                *)
(***************************************************************************)
EXTENDS NFSTypes, NFSOwners, NFSOps, NFSOpsFh, NFSOps41, NFSOps42, NFSCompound, NFSCallback, TLC

nfs_ftype4 ==
    [NF4REG |-> 1, NF4DIR |-> 2, NF4BLK |-> 3, NF4CHR |-> 4, NF4LNK |-> 5, NF4SOCK |-> 6,
     NF4FIFO |-> 7, NF4ATTRDIR |-> 8, NF4NAMEDATTR |-> 9]

nfsstat4 ==
    [NFS4_OK |-> 0, NFS4ERR_PERM |-> 1, NFS4ERR_NOENT |-> 2, NFS4ERR_IO |-> 5, NFS4ERR_NXIO |-> 6,
     NFS4ERR_ACCESS |-> 13, NFS4ERR_EXIST |-> 17, NFS4ERR_XDEV |-> 18, NFS4ERR_NOTDIR |-> 20,
     NFS4ERR_ISDIR |-> 21, NFS4ERR_INVAL |-> 22, NFS4ERR_FBIG |-> 27, NFS4ERR_NOSPC |-> 28,
     NFS4ERR_ROFS |-> 30, NFS4ERR_MLINK |-> 31, NFS4ERR_NAMETOOLONG |-> 63, NFS4ERR_NOTEMPTY |-> 66,
     NFS4ERR_DQUOT |-> 69, NFS4ERR_STALE |-> 70, NFS4ERR_BADHANDLE |-> 10001,
     NFS4ERR_BAD_COOKIE |-> 10003, NFS4ERR_NOTSUPP |-> 10004, NFS4ERR_TOOSMALL |-> 10005,
     NFS4ERR_SERVERFAULT |-> 10006, NFS4ERR_BADTYPE |-> 10007, NFS4ERR_DELAY |-> 10008,
     NFS4ERR_SAME |-> 10009, NFS4ERR_DENIED |-> 10010, NFS4ERR_EXPIRED |-> 10011,
     NFS4ERR_LOCKED |-> 10012, NFS4ERR_GRACE |-> 10013, NFS4ERR_FHEXPIRED |-> 10014,
     NFS4ERR_SHARE_DENIED |-> 10015, NFS4ERR_WRONGSEC |-> 10016, NFS4ERR_CLID_INUSE |-> 10017,
     NFS4ERR_RESOURCE |-> 10018, NFS4ERR_MOVED |-> 10019, NFS4ERR_NOFILEHANDLE |-> 10020,
     NFS4ERR_MINOR_VERS_MISMATCH |-> 10021, NFS4ERR_STALE_CLIENTID |-> 10022,
     NFS4ERR_STALE_STATEID |-> 10023, NFS4ERR_OLD_STATEID |-> 10024, NFS4ERR_BAD_STATEID |-> 10025,
     NFS4ERR_BAD_SEQID |-> 10026, NFS4ERR_NOT_SAME |-> 10027, NFS4ERR_LOCK_RANGE |-> 10028,
     NFS4ERR_SYMLINK |-> 10029, NFS4ERR_RESTOREFH |-> 10030, NFS4ERR_LEASE_MOVED |-> 10031,
     NFS4ERR_ATTRNOTSUPP |-> 10032, NFS4ERR_NO_GRACE |-> 10033, NFS4ERR_RECLAIM_BAD |-> 10034,
     NFS4ERR_RECLAIM_CONFLICT |-> 10035, NFS4ERR_BADXDR |-> 10036, NFS4ERR_LOCKS_HELD |-> 10037,
     NFS4ERR_OPENMODE |-> 10038, NFS4ERR_BADOWNER |-> 10039, NFS4ERR_BADCHAR |-> 10040,
     NFS4ERR_BADNAME |-> 10041, NFS4ERR_BAD_RANGE |-> 10042, NFS4ERR_LOCK_NOTSUPP |-> 10043,
     NFS4ERR_OP_ILLEGAL |-> 10044, NFS4ERR_DEADLOCK |-> 10045, NFS4ERR_FILE_OPEN |-> 10046,
     NFS4ERR_ADMIN_REVOKED |-> 10047, NFS4ERR_CB_PATH_DOWN |-> 10048, NFS4ERR_BADIOMODE |-> 10049,
     NFS4ERR_BADLAYOUT |-> 10050, NFS4ERR_BAD_SESSION_DIGEST |-> 10051, NFS4ERR_BADSESSION |-> 10052,
     NFS4ERR_BADSLOT |-> 10053, NFS4ERR_COMPLETE_ALREADY |-> 10054,
     NFS4ERR_CONN_NOT_BOUND_TO_SESSION |-> 10055, NFS4ERR_DELEG_ALREADY_WANTED |-> 10056,
     NFS4ERR_BACK_CHAN_BUSY |-> 10057, NFS4ERR_LAYOUTTRYLATER |-> 10058,
     NFS4ERR_LAYOUTUNAVAILABLE |-> 10059, NFS4ERR_NOMATCHING_LAYOUT |-> 10060,
     NFS4ERR_RECALLCONFLICT |-> 10061, NFS4ERR_UNKNOWN_LAYOUTTYPE |-> 10062,
     NFS4ERR_SEQ_MISORDERED |-> 10063, NFS4ERR_SEQUENCE_POS |-> 10064, NFS4ERR_REQ_TOO_BIG |-> 10065,
     NFS4ERR_REP_TOO_BIG |-> 10066, NFS4ERR_REP_TOO_BIG_TO_CACHE |-> 10067,
     NFS4ERR_RETRY_UNCACHED_REP |-> 10068, NFS4ERR_UNSAFE_COMPOUND |-> 10069,
     NFS4ERR_TOO_MANY_OPS |-> 10070, NFS4ERR_OP_NOT_IN_SESSION |-> 10071,
     NFS4ERR_HASH_ALG_UNSUPP |-> 10072, NFS4ERR_CLIENTID_BUSY |-> 10074,
     NFS4ERR_PNFS_IO_HOLE |-> 10075, NFS4ERR_SEQ_FALSE_RETRY |-> 10076,
     NFS4ERR_BAD_HIGH_SLOT |-> 10077, NFS4ERR_DEADSESSION |-> 10078, NFS4ERR_ENCR_ALG_UNSUPP |-> 10079,
     NFS4ERR_PNFS_NO_LAYOUT |-> 10080, NFS4ERR_NOT_ONLY_OP |-> 10081, NFS4ERR_WRONG_CRED |-> 10082,
     NFS4ERR_WRONG_TYPE |-> 10083, NFS4ERR_DIRDELEG_UNAVAIL |-> 10084, NFS4ERR_REJECT_DELEG |-> 10085,
     NFS4ERR_RETURNCONFLICT |-> 10086, NFS4ERR_DELEG_REVOKED |-> 10087,
     NFS4ERR_PARTNER_NOTSUPP |-> 10088, NFS4ERR_PARTNER_NO_AUTH |-> 10089,
     NFS4ERR_UNION_NOTSUPP |-> 10090, NFS4ERR_OFFLOAD_DENIED |-> 10091, NFS4ERR_WRONG_LFS |-> 10092,
     NFS4ERR_BADLABEL |-> 10093, NFS4ERR_OFFLOAD_NO_REQS |-> 10094, NFS4ERR_NOXATTR |-> 10095,
     NFS4ERR_XATTR2BIG |-> 10096]

time_how4 == [SET_TO_SERVER_TIME4 |-> 0, SET_TO_CLIENT_TIME4 |-> 1]

layoutreturn_type4 == [LAYOUTRETURN4_FILE |-> 1, LAYOUTRETURN4_FSID |-> 2, LAYOUTRETURN4_ALL |-> 3]

netloc_type4 == [NL4_NAME |-> 1, NL4_URL |-> 2, NL4_NETADDR |-> 3]

data_content4 == [NFS4_CONTENT_DATA |-> 0, NFS4_CONTENT_HOLE |-> 1]

nfs_opnum4 ==
    [OP_ACCESS |-> 3, OP_CLOSE |-> 4, OP_COMMIT |-> 5, OP_CREATE |-> 6, OP_DELEGPURGE |-> 7,
     OP_DELEGRETURN |-> 8, OP_GETATTR |-> 9, OP_GETFH |-> 10, OP_LINK |-> 11, OP_LOCK |-> 12,
     OP_LOCKT |-> 13, OP_LOCKU |-> 14, OP_LOOKUP |-> 15, OP_LOOKUPP |-> 16, OP_NVERIFY |-> 17,
     OP_OPEN |-> 18, OP_OPENATTR |-> 19, OP_OPEN_CONFIRM |-> 20, OP_OPEN_DOWNGRADE |-> 21,
     OP_PUTFH |-> 22, OP_PUTPUBFH |-> 23, OP_PUTROOTFH |-> 24, OP_READ |-> 25, OP_READDIR |-> 26,
     OP_READLINK |-> 27, OP_REMOVE |-> 28, OP_RENAME |-> 29, OP_RENEW |-> 30, OP_RESTOREFH |-> 31,
     OP_SAVEFH |-> 32, OP_SECINFO |-> 33, OP_SETATTR |-> 34, OP_SETCLIENTID |-> 35,
     OP_SETCLIENTID_CONFIRM |-> 36, OP_VERIFY |-> 37, OP_WRITE |-> 38, OP_RELEASE_LOCKOWNER |-> 39,
     OP_BACKCHANNEL_CTL |-> 40, OP_BIND_CONN_TO_SESSION |-> 41, OP_EXCHANGE_ID |-> 42,
     OP_CREATE_SESSION |-> 43, OP_DESTROY_SESSION |-> 44, OP_FREE_STATEID |-> 45,
     OP_GET_DIR_DELEGATION |-> 46, OP_GETDEVICEINFO |-> 47, OP_GETDEVICELIST |-> 48,
     OP_LAYOUTCOMMIT |-> 49, OP_LAYOUTGET |-> 50, OP_LAYOUTRETURN |-> 51, OP_SECINFO_NO_NAME |-> 52,
     OP_SEQUENCE |-> 53, OP_SET_SSV |-> 54, OP_TEST_STATEID |-> 55, OP_WANT_DELEGATION |-> 56,
     OP_DESTROY_CLIENTID |-> 57, OP_RECLAIM_COMPLETE |-> 58, OP_ALLOCATE |-> 59, OP_COPY |-> 60,
     OP_COPY_NOTIFY |-> 61, OP_DEALLOCATE |-> 62, OP_IO_ADVISE |-> 63, OP_LAYOUTERROR |-> 64,
     OP_LAYOUTSTATS |-> 65, OP_OFFLOAD_CANCEL |-> 66, OP_OFFLOAD_STATUS |-> 67, OP_READ_PLUS |-> 68,
     OP_SEEK |-> 69, OP_WRITE_SAME |-> 70, OP_CLONE |-> 71, OP_GETXATTR |-> 72, OP_SETXATTR |-> 73,
     OP_LISTXATTRS |-> 74, OP_REMOVEXATTR |-> 75, OP_ILLEGAL |-> 10044]

xdr_bool == [XDR_FALSE |-> 0, XDR_TRUE |-> 1]

createmode4 == [UNCHECKED4 |-> 0, GUARDED4 |-> 1, EXCLUSIVE4 |-> 2, EXCLUSIVE4_1 |-> 3]

opentype4 == [OPEN4_NOCREATE |-> 0, OPEN4_CREATE |-> 1]

limit_by4 == [NFS_LIMIT_SIZE |-> 1, NFS_LIMIT_BLOCKS |-> 2]

open_delegation_type4 ==
    [OPEN_DELEGATE_NONE |-> 0, OPEN_DELEGATE_READ |-> 1, OPEN_DELEGATE_WRITE |-> 2,
     OPEN_DELEGATE_NONE_EXT |-> 3, OPEN_DELEGATE_READ_ATTRS_DELEG |-> 4,
     OPEN_DELEGATE_WRITE_ATTRS_DELEG |-> 5]

open_claim_type4 ==
    [CLAIM_NULL |-> 0, CLAIM_PREVIOUS |-> 1, CLAIM_DELEGATE_CUR |-> 2, CLAIM_DELEGATE_PREV |-> 3,
     CLAIM_FH |-> 4, CLAIM_DELEG_CUR_FH |-> 5, CLAIM_DELEG_PREV_FH |-> 6]

why_no_delegation4 ==
    [WND4_NOT_WANTED |-> 0, WND4_CONTENTION |-> 1, WND4_RESOURCE |-> 2, WND4_NOT_SUPP_FTYPE |-> 3,
     WND4_WRITE_DELEG_NOT_SUPP_FTYPE |-> 4, WND4_NOT_SUPP_UPGRADE |-> 5, WND4_NOT_SUPP_DOWNGRADE |-> 6,
     WND4_CANCELLED |-> 7, WND4_IS_DIR |-> 8]

disc_secinfo4 == [RPCSEC_GSS |-> 6]

disc_callback_sec_parms4 == [AUTH_NONE |-> 0, AUTH_SYS |-> 1]

state_protect_how4 == [SP4_NONE |-> 0, SP4_MACH_CRED |-> 1, SP4_SSV |-> 2]

gddrnf4_status == [GDD4_OK |-> 0, GDD4_UNAVAIL |-> 1]

layoutrecall_type4 == [LAYOUTRECALL4_FILE |-> 1, LAYOUTRECALL4_FSID |-> 2, LAYOUTRECALL4_ALL |-> 3]

nfs_cb_opnum4 ==
    [OP_CB_GETATTR |-> 3, OP_CB_RECALL |-> 4, OP_CB_LAYOUTRECALL |-> 5, OP_CB_NOTIFY |-> 6,
     OP_CB_PUSH_DELEG |-> 7, OP_CB_RECALL_ANY |-> 8, OP_CB_RECALLABLE_OBJ_AVAIL |-> 9,
     OP_CB_RECALL_SLOT |-> 10, OP_CB_SEQUENCE |-> 11, OP_CB_WANTS_CANCELLED |-> 12,
     OP_CB_NOTIFY_LOCK |-> 13, OP_CB_NOTIFY_DEVICEID |-> 14, OP_CB_OFFLOAD |-> 15,
     OP_CB_ILLEGAL |-> 10044]

\* The code of every discriminant a switch of the file names.
Code ==
    nfs_ftype4 @@ nfsstat4 @@ time_how4 @@ layoutreturn_type4 @@ netloc_type4 @@ data_content4 @@
    nfs_opnum4 @@ xdr_bool @@ createmode4 @@ opentype4 @@ limit_by4 @@ open_delegation_type4 @@
    open_claim_type4 @@ why_no_delegation4 @@ disc_secinfo4 @@ disc_callback_sec_parms4 @@
    state_protect_how4 @@ gddrnf4_status @@ layoutrecall_type4 @@ nfs_cb_opnum4

\* Every type of the file, by the name a step gives it.
Types ==
    [AuthsysParmsGids |-> AuthsysParmsGids, AuthsysParms |-> AuthsysParms, Attrlist4 |-> Attrlist4,
     Bitmap4 |-> Bitmap4, NfsFh4 |-> NfsFh4, SecOid4 |-> SecOid4, Sessionid4 |-> Sessionid4,
     Utf8strCis |-> Utf8strCis, Utf8strCs |-> Utf8strCs, Utf8strMixed |-> Utf8strMixed,
     Component4 |-> Component4, Linktext4 |-> Linktext4, Pathname4 |-> Pathname4,
     Verifier4 |-> Verifier4, Secret4 |-> Secret4, Nfstime4 |-> Nfstime4, Settime4 |-> Settime4,
     Fsid4 |-> Fsid4, ChangePolicy4 |-> ChangePolicy4, FsLocation4 |-> FsLocation4,
     FsLocations4 |-> FsLocations4, Nfsace4 |-> Nfsace4, Nfsacl41 |-> Nfsacl41,
     ModeMasked4 |-> ModeMasked4, Specdata4 |-> Specdata4, XdrOpaque |-> XdrOpaque,
     Netaddr4 |-> Netaddr4, NfsImplId4 |-> NfsImplId4, Stateid4 |-> Stateid4,
     LayoutContent4 |-> LayoutContent4, Layouthint4 |-> Layouthint4, Layout4 |-> Layout4,
     Deviceid4 |-> Deviceid4, DeviceAddr4 |-> DeviceAddr4, Layoutupdate4 |-> Layoutupdate4,
     LayoutreturnFile4 |-> LayoutreturnFile4, Layoutreturn4 |-> Layoutreturn4, Fs4Status |-> Fs4Status,
     ThresholdItem4 |-> ThresholdItem4, Mdsthreshold4 |-> Mdsthreshold4,
     RetentionGet4 |-> RetentionGet4, RetentionSet4 |-> RetentionSet4, Netloc4 |-> Netloc4,
     LabelformatSpec4 |-> LabelformatSpec4, SecLabel4 |-> SecLabel4,
     CopyFromAuthPriv |-> CopyFromAuthPriv, Netloc4Entry |-> Netloc4Entry,
     CopyToAuthPriv |-> CopyToAuthPriv, CopyConfirmAuthPriv |-> CopyConfirmAuthPriv,
     AppDataBlock4 |-> AppDataBlock4, Data4 |-> Data4, DataInfo4 |-> DataInfo4,
     WriteResponse4 |-> WriteResponse4, Xattrkey4 |-> Xattrkey4, Xattrvalue4 |-> Xattrvalue4,
     Fattr4Owner |-> Fattr4Owner, Fattr4OwnerGroup |-> Fattr4OwnerGroup, Fattr4 |-> Fattr4,
     ChangeInfo4 |-> ChangeInfo4, CbClient4 |-> CbClient4, NfsClientId4 |-> NfsClientId4,
     ClientOwner4 |-> ClientOwner4, ServerOwner4 |-> ServerOwner4, StateOwner4 |-> StateOwner4,
     SsvMicPlainTkn4 |-> SsvMicPlainTkn4, SsvMicTkn4 |-> SsvMicTkn4,
     SsvSealPlainTkn4 |-> SsvSealPlainTkn4, SsvSealCipherTkn4 |-> SsvSealCipherTkn4,
     FsLocationsServer4 |-> FsLocationsServer4, FsLocationsItem4 |-> FsLocationsItem4,
     FsLocationsInfo4 |-> FsLocationsInfo4, Nfsv41FileLayouthint4 |-> Nfsv41FileLayouthint4,
     MultipathList4 |-> MultipathList4,
     Nfsv41FileLayoutDsAddr4NfldaMultipathDsList |-> Nfsv41FileLayoutDsAddr4NfldaMultipathDsList,
     Nfsv41FileLayoutDsAddr4 |-> Nfsv41FileLayoutDsAddr4, Nfsv41FileLayout4 |-> Nfsv41FileLayout4,
     ACCESS4args |-> ACCESS4args, ACCESS4resok |-> ACCESS4resok, ACCESS4res |-> ACCESS4res,
     CLONE4args |-> CLONE4args, CLONE4res |-> CLONE4res, CLOSE4args |-> CLOSE4args,
     CLOSE4res |-> CLOSE4res, COMMIT4args |-> COMMIT4args, COMMIT4resok |-> COMMIT4resok,
     COMMIT4res |-> COMMIT4res, Createtype4 |-> Createtype4, CREATE4args |-> CREATE4args,
     CREATE4resok |-> CREATE4resok, CREATE4res |-> CREATE4res, DELEGPURGE4args |-> DELEGPURGE4args,
     DELEGPURGE4res |-> DELEGPURGE4res, DELEGRETURN4args |-> DELEGRETURN4args,
     DELEGRETURN4res |-> DELEGRETURN4res, GETATTR4args |-> GETATTR4args,
     GETATTR4resok |-> GETATTR4resok, GETATTR4res |-> GETATTR4res, GETFH4resok |-> GETFH4resok,
     GETFH4res |-> GETFH4res, LINK4args |-> LINK4args, LINK4resok |-> LINK4resok, LINK4res |-> LINK4res,
     OpenToLockOwner4 |-> OpenToLockOwner4, ExistLockOwner4 |-> ExistLockOwner4, Locker4 |-> Locker4,
     LOCK4args |-> LOCK4args, LOCK4denied |-> LOCK4denied, LOCK4resok |-> LOCK4resok,
     LOCK4res |-> LOCK4res, LOCKT4args |-> LOCKT4args, LOCKT4res |-> LOCKT4res,
     LOCKU4args |-> LOCKU4args, LOCKU4res |-> LOCKU4res, LOOKUP4args |-> LOOKUP4args,
     LOOKUP4res |-> LOOKUP4res, LOOKUPP4res |-> LOOKUPP4res, NVERIFY4args |-> NVERIFY4args,
     NVERIFY4res |-> NVERIFY4res, Creatverfattr |-> Creatverfattr, Createhow4 |-> Createhow4,
     Createhow4Entry |-> Createhow4Entry, Openflag4 |-> Openflag4,
     NfsModifiedLimit4 |-> NfsModifiedLimit4, NfsSpaceLimit4NFSLIMITSIZE |-> NfsSpaceLimit4NFSLIMITSIZE,
     NfsSpaceLimit4 |-> NfsSpaceLimit4, OpenClaimDelegateCur4 |-> OpenClaimDelegateCur4,
     OpenClaim4CLAIMPREVIOUS |-> OpenClaim4CLAIMPREVIOUS, OpenClaim4 |-> OpenClaim4,
     OPEN4args |-> OPEN4args, OpenReadDelegation4 |-> OpenReadDelegation4,
     OpenWriteDelegation4 |-> OpenWriteDelegation4,
     OpenNoneDelegation4WND4CONTENTION |-> OpenNoneDelegation4WND4CONTENTION,
     OpenNoneDelegation4WND4RESOURCE |-> OpenNoneDelegation4WND4RESOURCE,
     OpenNoneDelegation4 |-> OpenNoneDelegation4, OpenNoneDelegation4Entry |-> OpenNoneDelegation4Entry,
     OpenDelegation4 |-> OpenDelegation4, OPEN4resok |-> OPEN4resok, OPEN4res |-> OPEN4res,
     OPENATTR4args |-> OPENATTR4args, OPENATTR4res |-> OPENATTR4res,
     OPENCONFIRM4args |-> OPENCONFIRM4args, OPENCONFIRM4resok |-> OPENCONFIRM4resok,
     OPENCONFIRM4res |-> OPENCONFIRM4res, OPENDOWNGRADE4args |-> OPENDOWNGRADE4args,
     OPENDOWNGRADE4resok |-> OPENDOWNGRADE4resok, OPENDOWNGRADE4res |-> OPENDOWNGRADE4res,
     PUTFH4args |-> PUTFH4args, PUTFH4res |-> PUTFH4res, PUTPUBFH4res |-> PUTPUBFH4res,
     PUTROOTFH4res |-> PUTROOTFH4res, READ4args |-> READ4args, READ4resok |-> READ4resok,
     READ4res |-> READ4res, READDIR4args |-> READDIR4args, Entry4Opt |-> Entry4Opt, Entry4 |-> Entry4,
     Dirlist4 |-> Dirlist4, READDIR4resok |-> READDIR4resok, READDIR4res |-> READDIR4res,
     READLINK4resok |-> READLINK4resok, READLINK4res |-> READLINK4res, REMOVE4args |-> REMOVE4args,
     REMOVE4resok |-> REMOVE4resok, REMOVE4res |-> REMOVE4res, RENAME4args |-> RENAME4args,
     RENAME4resok |-> RENAME4resok, RENAME4res |-> RENAME4res, RENEW4args |-> RENEW4args,
     RENEW4res |-> RENEW4res, RESTOREFH4res |-> RESTOREFH4res, SAVEFH4res |-> SAVEFH4res,
     SECINFO4args |-> SECINFO4args, RpcsecGssInfo |-> RpcsecGssInfo, Secinfo4 |-> Secinfo4,
     Secinfo4Entry |-> Secinfo4Entry, SECINFO4resok |-> SECINFO4resok, SECINFO4res |-> SECINFO4res,
     SETATTR4args |-> SETATTR4args, SETATTR4res |-> SETATTR4res, SETCLIENTID4args |-> SETCLIENTID4args,
     SETCLIENTID4resok |-> SETCLIENTID4resok, SETCLIENTID4res |-> SETCLIENTID4res,
     SETCLIENTIDCONFIRM4args |-> SETCLIENTIDCONFIRM4args,
     SETCLIENTIDCONFIRM4res |-> SETCLIENTIDCONFIRM4res, VERIFY4args |-> VERIFY4args,
     VERIFY4res |-> VERIFY4res, WRITE4args |-> WRITE4args, WRITE4resok |-> WRITE4resok,
     WRITE4res |-> WRITE4res, RELEASELOCKOWNER4args |-> RELEASELOCKOWNER4args,
     RELEASELOCKOWNER4res |-> RELEASELOCKOWNER4res, ILLEGAL4res |-> ILLEGAL4res,
     Gsshandle4T |-> Gsshandle4T, GssCbHandles4 |-> GssCbHandles4,
     CallbackSecParms4 |-> CallbackSecParms4, CallbackSecParms4Entry |-> CallbackSecParms4Entry,
     BACKCHANNELCTL4args |-> BACKCHANNELCTL4args, BACKCHANNELCTL4res |-> BACKCHANNELCTL4res,
     BINDCONNTOSESSION4args |-> BINDCONNTOSESSION4args,
     BINDCONNTOSESSION4resok |-> BINDCONNTOSESSION4resok,
     BINDCONNTOSESSION4res |-> BINDCONNTOSESSION4res, StateProtectOps4 |-> StateProtectOps4,
     SsvSpParms4SspEncrAlgs |-> SsvSpParms4SspEncrAlgs, SsvSpParms4 |-> SsvSpParms4,
     StateProtect4A |-> StateProtect4A, EXCHANGEID4args |-> EXCHANGEID4args,
     SsvProtInfo4 |-> SsvProtInfo4, StateProtect4R |-> StateProtect4R,
     EXCHANGEID4resokEirServerImplId |-> EXCHANGEID4resokEirServerImplId,
     EXCHANGEID4resok |-> EXCHANGEID4resok, EXCHANGEID4res |-> EXCHANGEID4res,
     ChannelAttrs4 |-> ChannelAttrs4, CREATESESSION4args |-> CREATESESSION4args,
     CREATESESSION4resok |-> CREATESESSION4resok, CREATESESSION4res |-> CREATESESSION4res,
     DESTROYSESSION4args |-> DESTROYSESSION4args, DESTROYSESSION4res |-> DESTROYSESSION4res,
     FREESTATEID4args |-> FREESTATEID4args, FREESTATEID4res |-> FREESTATEID4res,
     GETDIRDELEGATION4args |-> GETDIRDELEGATION4args, GETDIRDELEGATION4resok |-> GETDIRDELEGATION4resok,
     GETDIRDELEGATION4resNonFatalGDD4UNAVAIL |-> GETDIRDELEGATION4resNonFatalGDD4UNAVAIL,
     GETDIRDELEGATION4resNonFatal |-> GETDIRDELEGATION4resNonFatal,
     GETDIRDELEGATION4resNonFatalEntry |-> GETDIRDELEGATION4resNonFatalEntry,
     GETDIRDELEGATION4res |-> GETDIRDELEGATION4res, GETDEVICEINFO4args |-> GETDEVICEINFO4args,
     GETDEVICEINFO4resok |-> GETDEVICEINFO4resok,
     GETDEVICEINFO4resNFS4ERRTOOSMALL |-> GETDEVICEINFO4resNFS4ERRTOOSMALL,
     GETDEVICEINFO4res |-> GETDEVICEINFO4res, GETDEVICELIST4args |-> GETDEVICELIST4args,
     GETDEVICELIST4resok |-> GETDEVICELIST4resok, GETDEVICELIST4res |-> GETDEVICELIST4res,
     Newtime4 |-> Newtime4, Newoffset4TRUE |-> Newoffset4TRUE, Newoffset4 |-> Newoffset4,
     LAYOUTCOMMIT4args |-> LAYOUTCOMMIT4args, Newsize4TRUE |-> Newsize4TRUE, Newsize4 |-> Newsize4,
     LAYOUTCOMMIT4resok |-> LAYOUTCOMMIT4resok, LAYOUTCOMMIT4res |-> LAYOUTCOMMIT4res,
     LAYOUTGET4args |-> LAYOUTGET4args, LAYOUTGET4resok |-> LAYOUTGET4resok,
     LAYOUTGET4resNFS4ERRLAYOUTTRYLATER |-> LAYOUTGET4resNFS4ERRLAYOUTTRYLATER,
     LAYOUTGET4res |-> LAYOUTGET4res, LAYOUTRETURN4args |-> LAYOUTRETURN4args,
     LayoutreturnStateid |-> LayoutreturnStateid, LayoutreturnStateidEntry |-> LayoutreturnStateidEntry,
     LAYOUTRETURN4res |-> LAYOUTRETURN4res, SEQUENCE4args |-> SEQUENCE4args,
     SEQUENCE4resok |-> SEQUENCE4resok, SEQUENCE4res |-> SEQUENCE4res,
     SsaDigestInput4 |-> SsaDigestInput4, SETSSV4args |-> SETSSV4args,
     SsrDigestInput4 |-> SsrDigestInput4, SETSSV4resok |-> SETSSV4resok, SETSSV4res |-> SETSSV4res,
     TESTSTATEID4args |-> TESTSTATEID4args, TESTSTATEID4resok |-> TESTSTATEID4resok,
     TESTSTATEID4res |-> TESTSTATEID4res, DelegClaim4CLAIMPREVIOUS |-> DelegClaim4CLAIMPREVIOUS,
     DelegClaim4 |-> DelegClaim4, WANTDELEGATION4args |-> WANTDELEGATION4args,
     OpenDelegation4Entry |-> OpenDelegation4Entry, WANTDELEGATION4res |-> WANTDELEGATION4res,
     DESTROYCLIENTID4args |-> DESTROYCLIENTID4args, DESTROYCLIENTID4res |-> DESTROYCLIENTID4res,
     RECLAIMCOMPLETE4args |-> RECLAIMCOMPLETE4args, RECLAIMCOMPLETE4res |-> RECLAIMCOMPLETE4res,
     COPY4args |-> COPY4args, CopyRequirements4 |-> CopyRequirements4, COPY4resok |-> COPY4resok,
     COPY4res |-> COPY4res, COPYNOTIFY4args |-> COPYNOTIFY4args, COPYNOTIFY4resok |-> COPYNOTIFY4resok,
     COPYNOTIFY4res |-> COPYNOTIFY4res, OFFLOADCANCEL4args |-> OFFLOADCANCEL4args,
     OFFLOADCANCEL4res |-> OFFLOADCANCEL4res, OFFLOADSTATUS4args |-> OFFLOADSTATUS4args,
     OFFLOADSTATUS4resok |-> OFFLOADSTATUS4resok, OFFLOADSTATUS4res |-> OFFLOADSTATUS4res,
     ALLOCATE4args |-> ALLOCATE4args, ALLOCATE4res |-> ALLOCATE4res,
     DEALLOCATE4args |-> DEALLOCATE4args, DEALLOCATE4res |-> DEALLOCATE4res,
     IOADVISE4args |-> IOADVISE4args, IOADVISE4resok |-> IOADVISE4resok, IOADVISE4res |-> IOADVISE4res,
     DeviceError4 |-> DeviceError4, LAYOUTERROR4args |-> LAYOUTERROR4args,
     LAYOUTERROR4res |-> LAYOUTERROR4res, IoInfo4 |-> IoInfo4, LAYOUTSTATS4args |-> LAYOUTSTATS4args,
     LAYOUTSTATS4res |-> LAYOUTSTATS4res, READPLUS4args |-> READPLUS4args,
     ReadPlusContent |-> ReadPlusContent, ReadPlusContentEntry |-> ReadPlusContentEntry,
     ReadPlusRes4 |-> ReadPlusRes4, READPLUS4res |-> READPLUS4res, SEEK4args |-> SEEK4args,
     SeekRes4 |-> SeekRes4, SEEK4res |-> SEEK4res, WRITESAME4args |-> WRITESAME4args,
     WRITESAME4res |-> WRITESAME4res, FfDeviceVersions4 |-> FfDeviceVersions4,
     FfDeviceAddr4 |-> FfDeviceAddr4, FfDataServer4 |-> FfDataServer4, FfMirror4 |-> FfMirror4,
     FfLayout4 |-> FfLayout4, FfIoerr4 |-> FfIoerr4, FfIoLatency4 |-> FfIoLatency4,
     FfLayoutupdate4 |-> FfLayoutupdate4, FfIostats4 |-> FfIostats4,
     FfLayoutreturn4FflrIostatsReport |-> FfLayoutreturn4FflrIostatsReport,
     FfLayoutreturn4 |-> FfLayoutreturn4, FfMirrorsHintTRUE |-> FfMirrorsHintTRUE,
     FfMirrorsHint |-> FfMirrorsHint, FfLayouthint4 |-> FfLayouthint4, GETXATTR4args |-> GETXATTR4args,
     GETXATTR4res |-> GETXATTR4res, SETXATTR4args |-> SETXATTR4args, SETXATTR4res |-> SETXATTR4res,
     LISTXATTRS4args |-> LISTXATTRS4args, LISTXATTRS4resok |-> LISTXATTRS4resok,
     LISTXATTRS4res |-> LISTXATTRS4res, REMOVEXATTR4args |-> REMOVEXATTR4args,
     REMOVEXATTR4res |-> REMOVEXATTR4res, NfsArgop4OPSECINFONONAME |-> NfsArgop4OPSECINFONONAME,
     NfsArgop4 |-> NfsArgop4, ACCESS4resEntry |-> ACCESS4resEntry, CLOSE4resEntry |-> CLOSE4resEntry,
     COMMIT4resEntry |-> COMMIT4resEntry, CREATE4resEntry |-> CREATE4resEntry,
     GETATTR4resEntry |-> GETATTR4resEntry, GETFH4resEntry |-> GETFH4resEntry,
     LINK4resEntry |-> LINK4resEntry, LOCK4resEntry |-> LOCK4resEntry,
     LOCKT4resEntry |-> LOCKT4resEntry, LOCKU4resEntry |-> LOCKU4resEntry,
     OPEN4resEntry |-> OPEN4resEntry, OPENCONFIRM4resEntry |-> OPENCONFIRM4resEntry,
     OPENDOWNGRADE4resEntry |-> OPENDOWNGRADE4resEntry, READ4resEntry |-> READ4resEntry,
     READDIR4resEntry |-> READDIR4resEntry, READLINK4resEntry |-> READLINK4resEntry,
     REMOVE4resEntry |-> REMOVE4resEntry, RENAME4resEntry |-> RENAME4resEntry,
     SECINFO4resEntry |-> SECINFO4resEntry, SETCLIENTID4resEntry |-> SETCLIENTID4resEntry,
     WRITE4resEntry |-> WRITE4resEntry, BINDCONNTOSESSION4resEntry |-> BINDCONNTOSESSION4resEntry,
     EXCHANGEID4resEntry |-> EXCHANGEID4resEntry, CREATESESSION4resEntry |-> CREATESESSION4resEntry,
     GETDIRDELEGATION4resEntry |-> GETDIRDELEGATION4resEntry,
     GETDEVICEINFO4resEntry |-> GETDEVICEINFO4resEntry,
     GETDEVICELIST4resEntry |-> GETDEVICELIST4resEntry, LAYOUTCOMMIT4resEntry |-> LAYOUTCOMMIT4resEntry,
     LAYOUTGET4resEntry |-> LAYOUTGET4resEntry, LAYOUTRETURN4resEntry |-> LAYOUTRETURN4resEntry,
     SEQUENCE4resEntry |-> SEQUENCE4resEntry, SETSSV4resEntry |-> SETSSV4resEntry,
     TESTSTATEID4resEntry |-> TESTSTATEID4resEntry, WANTDELEGATION4resEntry |-> WANTDELEGATION4resEntry,
     COPY4resEntry |-> COPY4resEntry, COPYNOTIFY4resEntry |-> COPYNOTIFY4resEntry,
     IOADVISE4resEntry |-> IOADVISE4resEntry, OFFLOADSTATUS4resEntry |-> OFFLOADSTATUS4resEntry,
     READPLUS4resEntry |-> READPLUS4resEntry, SEEK4resEntry |-> SEEK4resEntry,
     WRITESAME4resEntry |-> WRITESAME4resEntry, GETXATTR4resEntry |-> GETXATTR4resEntry,
     SETXATTR4resEntry |-> SETXATTR4resEntry, LISTXATTRS4resEntry |-> LISTXATTRS4resEntry,
     REMOVEXATTR4resEntry |-> REMOVEXATTR4resEntry, NfsResop4 |-> NfsResop4,
     NfsArgop4Entry |-> NfsArgop4Entry, COMPOUND4args |-> COMPOUND4args,
     NfsResop4Entry |-> NfsResop4Entry, COMPOUND4res |-> COMPOUND4res,
     CBGETATTR4args |-> CBGETATTR4args, CBGETATTR4resok |-> CBGETATTR4resok,
     CBGETATTR4res |-> CBGETATTR4res, CBRECALL4args |-> CBRECALL4args, CBRECALL4res |-> CBRECALL4res,
     CBILLEGAL4res |-> CBILLEGAL4res, LayoutrecallFile4 |-> LayoutrecallFile4,
     Layoutrecall4 |-> Layoutrecall4, CBLAYOUTRECALL4args |-> CBLAYOUTRECALL4args,
     CBLAYOUTRECALL4res |-> CBLAYOUTRECALL4res, NotifyEntry4 |-> NotifyEntry4,
     PrevEntry4 |-> PrevEntry4, NotifyRemove4 |-> NotifyRemove4,
     NotifyAdd4NadNewEntryCookie |-> NotifyAdd4NadNewEntryCookie,
     NotifyAdd4NadPrevEntry |-> NotifyAdd4NadPrevEntry, NotifyAdd4 |-> NotifyAdd4,
     NotifyAttr4 |-> NotifyAttr4, NotifyRename4 |-> NotifyRename4, NotifyVerifier4 |-> NotifyVerifier4,
     Notifylist4 |-> Notifylist4, Notify4 |-> Notify4, CBNOTIFY4args |-> CBNOTIFY4args,
     CBNOTIFY4res |-> CBNOTIFY4res, CBPUSHDELEG4args |-> CBPUSHDELEG4args,
     CBPUSHDELEG4res |-> CBPUSHDELEG4res, CBRECALLANY4args |-> CBRECALLANY4args,
     CBRECALLANY4res |-> CBRECALLANY4res, CBRECALLABLEOBJAVAIL4res |-> CBRECALLABLEOBJAVAIL4res,
     CBRECALLSLOT4args |-> CBRECALLSLOT4args, CBRECALLSLOT4res |-> CBRECALLSLOT4res,
     ReferringCall4 |-> ReferringCall4, ReferringCallList4 |-> ReferringCallList4,
     CBSEQUENCE4args |-> CBSEQUENCE4args, CBSEQUENCE4resok |-> CBSEQUENCE4resok,
     CBSEQUENCE4res |-> CBSEQUENCE4res, CBWANTSCANCELLED4args |-> CBWANTSCANCELLED4args,
     CBWANTSCANCELLED4res |-> CBWANTSCANCELLED4res, CBNOTIFYLOCK4args |-> CBNOTIFYLOCK4args,
     CBNOTIFYLOCK4res |-> CBNOTIFYLOCK4res, NotifyDeviceidDelete4 |-> NotifyDeviceidDelete4,
     NotifyDeviceidChange4 |-> NotifyDeviceidChange4, CBNOTIFYDEVICEID4args |-> CBNOTIFYDEVICEID4args,
     CBNOTIFYDEVICEID4res |-> CBNOTIFYDEVICEID4res, OffloadInfo4Default |-> OffloadInfo4Default,
     OffloadInfo4 |-> OffloadInfo4, CBOFFLOAD4args |-> CBOFFLOAD4args, CBOFFLOAD4res |-> CBOFFLOAD4res,
     NfsCbArgop4 |-> NfsCbArgop4, CBGETATTR4resEntry |-> CBGETATTR4resEntry,
     CBSEQUENCE4resEntry |-> CBSEQUENCE4resEntry, NfsCbResop4 |-> NfsCbResop4,
     NfsCbArgop4Entry |-> NfsCbArgop4Entry, CBCOMPOUND4args |-> CBCOMPOUND4args,
     NfsCbResop4Entry |-> NfsCbResop4Entry, CBCOMPOUND4res |-> CBCOMPOUND4res,
     OpenArguments4 |-> OpenArguments4]

\* The decoder of each type.
Readers == [t \in DOMAIN Types |-> Types[t].read]

\* The lists whose exported ReadX does not look past the header.
Lazy == [t \in {x \in DOMAIN Types : "peek" \in DOMAIN Types[x]} |-> Types[t].peek]

\* The accessors of each type; of a union, its AsT methods.
Accessors == [t \in DOMAIN Types |-> Types[t].get]

\* The writer of each type that is not a union.
Writers == [t \in {x \in DOMAIN Types : "write" \in DOMAIN Types[x]} |-> Types[t].write]
=============================================================================
