------------------------------ MODULE ApiTable ------------------------------
(***************************************************************************)
(* The calls of the API: a number for each, and its row: the instruction   *)
(* of its input and of its output, whether bytes follow either, and the    *)
(* parameters of the function that serves it.                              *)
(***************************************************************************)
EXTENDS Integers, Sequences, TLC

Api(in, inBs, out, outBs, handler) ==
    [in |-> in, inBs |-> inBs, out |-> out, outBs |-> outBs, handler |-> handler]

\* The parameters after the connection: a structure, a pointer to the one
\* that is returned, and a buffer of bytes.
In(type) == [passed |-> "in", type |-> type]
Out(type) == [passed |-> "out", type |-> type]
Bytes == [passed |-> "bytes", type |-> "bytesBuf_t"]
-----------------------------------------------------------------------------
FileNumbers == [
    FILE_CREATE_AN |-> 500, FILE_OPEN_AN |-> 501, FILE_WRITE_AN |-> 502, FILE_CLOSE_AN |-> 503,
    FILE_LSEEK_AN |-> 504, FILE_READ_AN |-> 505, FILE_UNLINK_AN |-> 506, FILE_MKDIR_AN |-> 507,
    FILE_CHMOD_AN |-> 508, FILE_RMDIR_AN |-> 509, FILE_STAT_AN |-> 510, FILE_FSTAT_AN |-> 511,
    FILE_FSYNC_AN |-> 512, FILE_STAGE_AN |-> 513, FILE_GET_FS_FREE_SPACE_AN |-> 514,
    FILE_OPENDIR_AN |-> 515, FILE_CLOSEDIR_AN |-> 516, FILE_READDIR_AN |-> 517,
    FILE_PUT_AN |-> 518, FILE_GET_AN |-> 519, FILE_CHKSUM_AN |-> 520,
    CHK_N_V_PATH_PERM_AN |-> 521, FILE_RENAME_AN |-> 522, FILE_TRUNCATE_AN |-> 523,
    FILE_STAGE_TO_CACHE_AN |-> 524, FILE_SYNC_TO_ARCH_AN |-> 525]
ObjectNumbers == [
    DATA_OBJ_CREATE_AN |-> 601, DATA_OBJ_OPEN_AN |-> 602, DATA_OBJ_PUT_AN |-> 606,
    DATA_PUT_AN |-> 607, DATA_OBJ_GET_AN |-> 608, DATA_GET_AN |-> 609, DATA_COPY_AN |-> 611,
    SIMPLE_QUERY_AN |-> 614, DATA_OBJ_UNLINK_AN |-> 615, REG_DATA_OBJ_AN |-> 619,
    UNREG_DATA_OBJ_AN |-> 620, REG_REPLICA_AN |-> 621, MOD_DATA_OBJ_META_AN |-> 622,
    RULE_EXEC_SUBMIT_AN |-> 623, RULE_EXEC_DEL_AN |-> 624, EXEC_MY_RULE_AN |-> 625,
    OPR_COMPLETE_AN |-> 626, DATA_OBJ_RENAME_AN |-> 627, DATA_OBJ_RSYNC_AN |-> 628,
    DATA_OBJ_CHKSUM_AN |-> 629, PHY_PATH_REG_AN |-> 630, DATA_OBJ_TRIM_AN |-> 632,
    OBJ_STAT_AN |-> 633, SUB_STRUCT_FILE_CREATE_AN |-> 635, SUB_STRUCT_FILE_OPEN_AN |-> 636,
    SUB_STRUCT_FILE_READ_AN |-> 637, SUB_STRUCT_FILE_WRITE_AN |-> 638,
    SUB_STRUCT_FILE_CLOSE_AN |-> 639, SUB_STRUCT_FILE_UNLINK_AN |-> 640,
    SUB_STRUCT_FILE_STAT_AN |-> 641, SUB_STRUCT_FILE_FSTAT_AN |-> 642,
    SUB_STRUCT_FILE_LSEEK_AN |-> 643, SUB_STRUCT_FILE_RENAME_AN |-> 644,
    QUERY_SPEC_COLL_AN |-> 645, SUB_STRUCT_FILE_MKDIR_AN |-> 647,
    SUB_STRUCT_FILE_RMDIR_AN |-> 648, SUB_STRUCT_FILE_OPENDIR_AN |-> 649,
    SUB_STRUCT_FILE_READDIR_AN |-> 650, SUB_STRUCT_FILE_CLOSEDIR_AN |-> 651,
    DATA_OBJ_TRUNCATE_AN |-> 652, SUB_STRUCT_FILE_TRUNCATE_AN |-> 653,
    GET_XMSG_TICKET_AN |-> 654, SEND_XMSG_AN |-> 655, RCV_XMSG_AN |-> 656,
    SUB_STRUCT_FILE_GET_AN |-> 657, SUB_STRUCT_FILE_PUT_AN |-> 658,
    SYNC_MOUNTED_COLL_AN |-> 659, STRUCT_FILE_SYNC_AN |-> 660, CLOSE_COLLECTION_AN |-> 661,
    STRUCT_FILE_EXTRACT_AN |-> 664, STRUCT_FILE_EXT_AND_REG_AN |-> 665,
    STRUCT_FILE_BUNDLE_AN |-> 666, CHK_OBJ_PERM_AND_STAT_AN |-> 667,
    GET_REMOTE_ZONE_RESC_AN |-> 668, DATA_OBJ_OPEN_AND_STAT_AN |-> 669,
    L3_FILE_GET_SINGLE_BUF_AN |-> 670, L3_FILE_PUT_SINGLE_BUF_AN |-> 671,
    DATA_OBJ_CREATE_AND_STAT_AN |-> 672, DATA_OBJ_CLOSE_AN |-> 673, DATA_OBJ_LSEEK_AN |-> 674,
    DATA_OBJ_READ_AN |-> 675, DATA_OBJ_WRITE_AN |-> 676, COLL_REPL_AN |-> 677,
    OPEN_COLLECTION_AN |-> 678, RM_COLL_AN |-> 679, MOD_COLL_AN |-> 680, COLL_CREATE_AN |-> 681,
    DATA_OBJ_UNLOCK_AN |-> 682, REG_COLL_AN |-> 683, PHY_BUNDLE_COLL_AN |-> 684,
    UNBUN_AND_REG_PHY_BUNFILE_AN |-> 685, GET_HOST_FOR_PUT_AN |-> 686,
    GET_RESC_QUOTA_AN |-> 687, BULK_DATA_OBJ_REG_AN |-> 688, BULK_DATA_OBJ_PUT_AN |-> 689,
    PROC_STAT_AN |-> 690, STREAM_READ_AN |-> 691, EXEC_CMD_AN |-> 692, STREAM_CLOSE_AN |-> 693,
    GET_HOST_FOR_GET_AN |-> 694, DATA_OBJ_REPL_AN |-> 695, DATA_OBJ_COPY_AN |-> 696,
    DATA_OBJ_PHYMV_AN |-> 697, DATA_OBJ_FSYNC_AN |-> 698, DATA_OBJ_LOCK_AN |-> 699]
MetadataNumbers == [
    GET_MISC_SVR_INFO_AN |-> 700, GENERAL_ADMIN_AN |-> 701, GEN_QUERY_AN |-> 702,
    AUTH_REQUEST_AN |-> 703, AUTH_RESPONSE_AN |-> 704, AUTH_CHECK_AN |-> 705,
    MOD_AVU_METADATA_AN |-> 706, MOD_ACCESS_CONTROL_AN |-> 707, RULE_EXEC_MOD_AN |-> 708,
    GET_TEMP_PASSWORD_AN |-> 709, GENERAL_UPDATE_AN |-> 710, READ_COLLECTION_AN |-> 713,
    USER_ADMIN_AN |-> 714, GENERAL_ROW_INSERT_AN |-> 715, GENERAL_ROW_PURGE_AN |-> 716,
    END_TRANSACTION_AN |-> 718, DATABASE_RESC_OPEN_AN |-> 719, DATABASE_OBJ_CONTROL_AN |-> 720,
    DATABASE_RESC_CLOSE_AN |-> 721, SPECIFIC_QUERY_AN |-> 722, TICKET_ADMIN_AN |-> 723,
    GET_TEMP_PASSWORD_FOR_OTHER_AN |-> 724, PAM_AUTH_REQUEST_AN |-> 725,
    GET_LIMITED_PASSWORD_AN |-> 726]
OtherNumbers == [
    SSL_START_AN |-> 1100, SSL_END_AN |-> 1101, AUTH_PLUG_REQ_AN |-> 1201,
    AUTH_PLUG_RESP_AN |-> 1202, GET_HIER_FOR_RESC_AN |-> 1203,
    GET_HIER_FROM_LEAF_ID_AN |-> 1204, SET_RR_CTX_AN |-> 1205, EXEC_RULE_EXPRESSION_AN |-> 1206,
    SERVER_REPORT_AN |-> 10204, ZONE_REPORT_AN |-> 10205, CLIENT_HINTS_AN |-> 10215]
IES_CLIENT_HINTS_AN == 10216
-----------------------------------------------------------------------------
FileCalls(NULL) == [
    GET_MISC_SVR_INFO_AN |-> Api(NULL, 0, "MiscSvrInfo_PI", 0, <<Out("miscSvrInfo_t")>>),
    FILE_CREATE_AN |->
      Api("fileOpenInp_PI", 0, "fileCreateOut_PI", 0, <<In("fileCreateInp_t"), Out("fileCreateOut_t")>>),
    FILE_OPEN_AN |-> Api("fileOpenInp_PI", 0, NULL, 0, <<In("fileOpenInp_t")>>),
    CHK_N_V_PATH_PERM_AN |-> Api("fileOpenInp_PI", 0, NULL, 0, <<In("fileOpenInp_t")>>),
    FILE_WRITE_AN |-> Api("fileWriteInp_PI", 1, NULL, 0, <<In("fileWriteInp_t"), Bytes>>),
    FILE_CLOSE_AN |-> Api("fileCloseInp_PI", 0, NULL, 0, <<In("fileCloseInp_t")>>),
    FILE_LSEEK_AN |->
      Api("fileLseekInp_PI", 0, "fileLseekOut_PI", 0, <<In("fileLseekInp_t"), Out("fileLseekOut_t")>>),
    FILE_READ_AN |-> Api("fileReadInp_PI", 0, NULL, 1, <<In("fileReadInp_t"), Bytes>>),
    FILE_UNLINK_AN |-> Api("fileUnlinkInp_PI", 0, NULL, 0, <<In("fileUnlinkInp_t")>>),
    FILE_MKDIR_AN |-> Api("fileMkdirInp_PI", 0, NULL, 0, <<In("fileMkdirInp_t")>>),
    FILE_CHMOD_AN |-> Api("fileChmodInp_PI", 0, NULL, 0, <<In("fileChmodInp_t")>>),
    FILE_RMDIR_AN |-> Api("fileRmdirInp_PI", 0, NULL, 0, <<In("fileRmdirInp_t")>>),
    FILE_STAT_AN |->
      Api("fileStatInp_PI", 0, "RODS_STAT_T_PI", 0, <<In("fileStatInp_t"), Out("rodsStat_t")>>),
    FILE_GET_FS_FREE_SPACE_AN |->
      Api("fileGetFsFreeSpaceInp_PI", 0, "fileGetFsFreeSpaceOut_PI", 0, <<In("fileGetFsFreeSpaceInp_t"), Out("fileGetFsFreeSpaceOut_t")>>),
    FILE_OPENDIR_AN |-> Api("fileOpendirInp_PI", 0, NULL, 0, <<In("fileOpendirInp_t")>>),
    FILE_CLOSEDIR_AN |-> Api("fileClosedirInp_PI", 0, NULL, 0, <<In("fileClosedirInp_t")>>),
    FILE_READDIR_AN |->
      Api("fileReaddirInp_PI", 0, "RODS_DIRENT_T_PI", 0, <<In("fileReaddirInp_t"), Out("rodsDirent_t")>>),
    FILE_RENAME_AN |->
      Api("fileRenameInp_PI", 0, "fileRenameOut_PI", 0, <<In("fileRenameInp_t"), Out("fileRenameOut_t")>>),
    FILE_TRUNCATE_AN |-> Api("fileOpenInp_PI", 0, NULL, 0, <<In("fileOpenInp_t")>>),
    FILE_PUT_AN |->
      Api("fileOpenInp_PI", 1, "filePutOut_PI", 0, <<In("fileOpenInp_t"), Bytes, Out("filePutOut_t")>>),
    FILE_GET_AN |-> Api("fileOpenInp_PI", 0, NULL, 1, <<In("fileOpenInp_t"), Bytes>>)]
DataObjectCalls(NULL) == [
    FILE_STAGE_TO_CACHE_AN |->
      Api("fileStageSyncInp_PI", 0, NULL, 0, <<In("fileStageSyncInp_t")>>),
    FILE_SYNC_TO_ARCH_AN |->
      Api("fileStageSyncInp_PI", 0, "fileSyncOut_PI", 0, <<In("fileStageSyncInp_t"), Out("fileSyncOut_t")>>),
    DATA_OBJ_CREATE_AN |-> Api("DataObjInp_PI", 0, NULL, 0, <<In("dataObjInp_t")>>),
    DATA_OBJ_OPEN_AN |-> Api("DataObjInp_PI", 0, NULL, 0, <<In("dataObjInp_t")>>),
    DATA_OBJ_READ_AN |->
      Api("OpenedDataObjInp_PI", 0, NULL, 1, <<In("openedDataObjInp_t"), Bytes>>),
    DATA_OBJ_WRITE_AN |->
      Api("OpenedDataObjInp_PI", 1, NULL, 0, <<In("openedDataObjInp_t"), Bytes>>),
    DATA_OBJ_CLOSE_AN |-> Api("OpenedDataObjInp_PI", 0, NULL, 0, <<In("openedDataObjInp_t")>>),
    DATA_OBJ_PUT_AN |->
      Api("DataObjInp_PI", 1, "PortalOprOut_PI", 0, <<In("dataObjInp_t"), Bytes, Out("portalOprOut_t")>>),
    DATA_OBJ_GET_AN |->
      Api("DataObjInp_PI", 0, "PortalOprOut_PI", 1, <<In("dataObjInp_t"), Out("portalOprOut_t"), Bytes>>),
    DATA_OBJ_REPL_AN |->
      Api("DataObjInp_PI", 0, "TransferStat_PI", 0, <<In("dataObjInp_t"), Out("transferStat_t")>>),
    DATA_OBJ_LSEEK_AN |->
      Api("OpenedDataObjInp_PI", 0, "fileLseekOut_PI", 0, <<In("openedDataObjInp_t"), Out("fileLseekOut_t")>>),
    DATA_OBJ_COPY_AN |->
      Api("DataObjCopyInp_PI", 0, "TransferStat_PI", 0, <<In("dataObjCopyInp_t"), Out("transferStat_t")>>),
    DATA_OBJ_UNLINK_AN |-> Api("DataObjInp_PI", 0, NULL, 0, <<In("dataObjInp_t")>>),
    DATA_PUT_AN |->
      Api("DataOprInp_PI", 0, "PortalOprOut_PI", 0, <<In("dataOprInp_t"), Out("portalOprOut_t")>>),
    DATA_GET_AN |->
      Api("DataOprInp_PI", 0, "PortalOprOut_PI", 0, <<In("dataOprInp_t"), Out("portalOprOut_t")>>),
    DATA_COPY_AN |-> Api("DataCopyInp_PI", 0, NULL, 0, <<In("dataCopyInp_t")>>),
    SIMPLE_QUERY_AN |->
      Api("simpleQueryInp_PI", 0, "simpleQueryOut_PI", 0, <<In("simpleQueryInp_t"), Out("simpleQueryOut_t")>>),
    GENERAL_ADMIN_AN |-> Api("generalAdminInp_PI", 0, NULL, 0, <<In("generalAdminInp_t")>>),
    GEN_QUERY_AN |->
      Api("GenQueryInp_PI", 0, "GenQueryOut_PI", 0, <<In("genQueryInp_t"), Out("genQueryOut_t")>>),
    AUTH_REQUEST_AN |-> Api(NULL, 0, "authRequestOut_PI", 0, <<Out("authRequestOut_t")>>),
    AUTH_RESPONSE_AN |-> Api("authResponseInp_PI", 0, NULL, 0, <<In("authResponseInp_t")>>)]
AccountCalls(NULL) == [
    AUTH_CHECK_AN |->
      Api("authCheckInp_PI", 0, "authCheckOut_PI", 0, <<In("authCheckInp_t"), Out("authCheckOut_t")>>),
    END_TRANSACTION_AN |->
      Api("endTransactionInp_PI", 0, NULL, 0, <<In("endTransactionInp_t")>>),
    SPECIFIC_QUERY_AN |->
      Api("specificQueryInp_PI", 0, "GenQueryOut_PI", 0, <<In("specificQueryInp_t"), Out("genQueryOut_t")>>),
    TICKET_ADMIN_AN |-> Api("ticketAdminInp_PI", 0, NULL, 0, <<In("ticketAdminInp_t")>>),
    GET_TEMP_PASSWORD_FOR_OTHER_AN |->
      Api("getTempPasswordForOtherInp_PI", 0, "getTempPasswordForOtherOut_PI", 0, <<In("getTempPasswordForOtherInp_t"), Out("getTempPasswordForOtherOut_t")>>),
    PAM_AUTH_REQUEST_AN |->
      Api("pamAuthRequestInp_PI", 0, "pamAuthRequestOut_PI", 0, <<In("pamAuthRequestInp_t"), Out("pamAuthRequestOut_t")>>),
    GET_LIMITED_PASSWORD_AN |->
      Api("getLimitedPasswordInp_PI", 0, "getLimitedPasswordOut_PI", 0, <<In("getLimitedPasswordInp_t"), Out("getLimitedPasswordOut_t")>>),
    OPEN_COLLECTION_AN |-> Api("CollInpNew_PI", 0, NULL, 0, <<In("collInp_t")>>),
    READ_COLLECTION_AN |-> Api("INT_PI", 0, "CollEnt_PI", 0, <<In("int"), Out("collEnt_t")>>),
    USER_ADMIN_AN |-> Api("userAdminInp_PI", 0, NULL, 0, <<In("userAdminInp_t")>>),
    GENERAL_ROW_INSERT_AN |->
      Api("generalRowInsertInp_PI", 0, NULL, 0, <<In("generalRowInsertInp_t")>>),
    GENERAL_ROW_PURGE_AN |->
      Api("generalRowPurgeInp_PI", 0, NULL, 0, <<In("generalRowPurgeInp_t")>>),
    CLOSE_COLLECTION_AN |-> Api("INT_PI", 0, NULL, 0, <<In("int")>>),
    COLL_REPL_AN |->
      Api("CollInpNew_PI", 0, "CollOprStat_PI", 0, <<In("collInp_t"), Out("collOprStat_t")>>),
    RM_COLL_AN |->
      Api("CollInpNew_PI", 0, "CollOprStat_PI", 0, <<In("collInp_t"), Out("collOprStat_t")>>),
    MOD_AVU_METADATA_AN |->
      Api("ModAVUMetadataInp_PI", 0, NULL, 0, <<In("modAVUMetadataInp_t")>>),
    MOD_ACCESS_CONTROL_AN |->
      Api("modAccessControlInp_PI", 0, NULL, 0, <<In("modAccessControlInp_t")>>),
    RULE_EXEC_MOD_AN |-> Api("RULE_EXEC_MOD_INP_PI", 0, NULL, 0, <<In("ruleExecModInp_t")>>),
    GET_TEMP_PASSWORD_AN |->
      Api(NULL, 0, "getTempPasswordOut_PI", 0, <<Out("getTempPasswordOut_t")>>),
    GENERAL_UPDATE_AN |-> Api("GeneralUpdateInp_PI", 0, NULL, 0, <<In("generalUpdateInp_t")>>)]
RuleCalls(NULL) == [
    MOD_DATA_OBJ_META_AN |-> Api("ModDataObjMeta_PI", 0, NULL, 0, <<In("modDataObjMeta_t")>>),
    RULE_EXEC_SUBMIT_AN |->
      Api("RULE_EXEC_SUBMIT_INP_PI", 0, "IRODS_STR_PI", 0, <<In("ruleExecSubmitInp_t"), Out("char")>>),
    RULE_EXEC_DEL_AN |-> Api("RULE_EXEC_DEL_INP_PI", 0, NULL, 0, <<In("ruleExecDelInp_t")>>),
    EXEC_MY_RULE_AN |->
      Api("ExecMyRuleInp_PI", 0, "MsParamArray_PI", 0, <<In("execMyRuleInp_t"), Out("msParamArray_t")>>),
    OPR_COMPLETE_AN |-> Api("INT_PI", 0, NULL, 0, <<In("int")>>),
    DATA_OBJ_RENAME_AN |-> Api("DataObjCopyInp_PI", 0, NULL, 0, <<In("dataObjCopyInp_t")>>),
    DATA_OBJ_RSYNC_AN |->
      Api("DataObjInp_PI", 0, "MsParamArray_PI", 0, <<In("dataObjInp_t"), Out("msParamArray_t")>>),
    DATA_OBJ_CHKSUM_AN |->
      Api("DataObjInp_PI", 0, "STR_PI", 0, <<In("dataObjInp_t"), Out("char")>>),
    PHY_PATH_REG_AN |-> Api("DataObjInp_PI", 0, NULL, 0, <<In("dataObjInp_t")>>),
    DATA_OBJ_PHYMV_AN |->
      Api("DataObjInp_PI", 0, "TransferStat_PI", 0, <<In("dataObjInp_t"), Out("transferStat_t")>>),
    DATA_OBJ_TRIM_AN |-> Api("DataObjInp_PI", 0, NULL, 0, <<In("dataObjInp_t")>>),
    OBJ_STAT_AN |->
      Api("DataObjInp_PI", 0, "RodsObjStat_PI", 0, <<In("dataObjInp_t"), Out("rodsObjStat_t")>>),
    EXEC_CMD_AN |->
      Api("ExecCmd_PI", 0, "ExecCmdOut_PI", 0, <<In("execCmd_t"), Out("execCmdOut_t")>>),
    STREAM_CLOSE_AN |-> Api("fileCloseInp_PI", 0, NULL, 0, <<In("fileCloseInp_t")>>),
    GET_HOST_FOR_GET_AN |->
      Api("DataObjInp_PI", 0, "STR_PI", 0, <<In("dataObjInp_t"), Out("char")>>),
    DATA_OBJ_LOCK_AN |-> Api("DataObjInp_PI", 0, NULL, 0, <<In("dataObjInp_t")>>),
    DATA_OBJ_UNLOCK_AN |-> Api("DataObjInp_PI", 0, NULL, 0, <<In("dataObjInp_t")>>),
    SUB_STRUCT_FILE_CREATE_AN |-> Api("SubFile_PI", 0, NULL, 0, <<In("subFile_t")>>),
    SUB_STRUCT_FILE_OPEN_AN |-> Api("SubFile_PI", 0, NULL, 0, <<In("subFile_t")>>),
    SUB_STRUCT_FILE_READ_AN |->
      Api("SubStructFileFdOpr_PI", 0, NULL, 1, <<In("subStructFileFdOprInp_t"), Bytes>>),
    SUB_STRUCT_FILE_WRITE_AN |->
      Api("SubStructFileFdOpr_PI", 1, NULL, 0, <<In("subStructFileFdOprInp_t"), Bytes>>)]
SubFileCalls(NULL) == [
    SUB_STRUCT_FILE_CLOSE_AN |->
      Api("SubStructFileFdOpr_PI", 0, NULL, 0, <<In("subStructFileFdOprInp_t")>>),
    SUB_STRUCT_FILE_UNLINK_AN |-> Api("SubFile_PI", 0, NULL, 0, <<In("subFile_t")>>),
    SUB_STRUCT_FILE_STAT_AN |->
      Api("SubFile_PI", 0, "RODS_STAT_T_PI", 0, <<In("subFile_t"), Out("rodsStat_t")>>),
    SUB_STRUCT_FILE_LSEEK_AN |->
      Api("SubStructFileLseekInp_PI", 0, "fileLseekOut_PI", 0, <<In("subStructFileLseekInp_t"), Out("fileLseekOut_t")>>),
    SUB_STRUCT_FILE_RENAME_AN |->
      Api("SubStructFileRenameInp_PI", 0, NULL, 0, <<In("subStructFileRenameInp_t")>>),
    QUERY_SPEC_COLL_AN |->
      Api("DataObjInp_PI", 0, "GenQueryOut_PI", 0, <<In("dataObjInp_t"), Out("genQueryOut_t")>>),
    MOD_COLL_AN |-> Api("CollInpNew_PI", 0, NULL, 0, <<In("collInp_t")>>),
    SUB_STRUCT_FILE_MKDIR_AN |-> Api("SubFile_PI", 0, NULL, 0, <<In("subFile_t")>>),
    SUB_STRUCT_FILE_RMDIR_AN |-> Api("SubFile_PI", 0, NULL, 0, <<In("subFile_t")>>),
    SUB_STRUCT_FILE_OPENDIR_AN |-> Api("SubFile_PI", 0, NULL, 0, <<In("subFile_t")>>),
    SUB_STRUCT_FILE_READDIR_AN |->
      Api("SubStructFileFdOpr_PI", 0, "RODS_DIRENT_T_PI", 0, <<In("subStructFileFdOprInp_t"), Out("rodsDirent_t")>>),
    SUB_STRUCT_FILE_CLOSEDIR_AN |->
      Api("SubStructFileFdOpr_PI", 0, NULL, 0, <<In("subStructFileFdOprInp_t")>>),
    DATA_OBJ_TRUNCATE_AN |-> Api("DataObjInp_PI", 0, NULL, 0, <<In("dataObjInp_t")>>),
    SUB_STRUCT_FILE_TRUNCATE_AN |-> Api("SubFile_PI", 0, NULL, 0, <<In("subFile_t")>>),
    SUB_STRUCT_FILE_GET_AN |-> Api("SubFile_PI", 0, NULL, 1, <<In("subFile_t"), Bytes>>),
    SUB_STRUCT_FILE_PUT_AN |-> Api("SubFile_PI", 1, NULL, 0, <<In("subFile_t"), Bytes>>),
    SYNC_MOUNTED_COLL_AN |-> Api("DataObjInp_PI", 0, NULL, 0, <<In("dataObjInp_t")>>),
    STRUCT_FILE_SYNC_AN |->
      Api("StructFileOprInp_PI", 0, NULL, 0, <<In("structFileOprInp_t")>>),
    COLL_CREATE_AN |-> Api("CollInpNew_PI", 0, NULL, 0, <<In("collInp_t")>>),
    STRUCT_FILE_EXTRACT_AN |->
      Api("StructFileOprInp_PI", 0, NULL, 0, <<In("structFileOprInp_t")>>),
    STRUCT_FILE_EXT_AND_REG_AN |->
      Api("StructFileExtAndRegInp_PI", 0, NULL, 0, <<In("structFileExtAndRegInp_t")>>)]
StructFileCalls(NULL) == [
    STRUCT_FILE_BUNDLE_AN |->
      Api("StructFileExtAndRegInp_PI", 0, NULL, 0, <<In("structFileExtAndRegInp_t")>>),
    CHK_OBJ_PERM_AND_STAT_AN |->
      Api("ChkObjPermAndStat_PI", 0, NULL, 0, <<In("chkObjPermAndStat_t")>>),
    GET_REMOTE_ZONE_RESC_AN |->
      Api("DataObjInp_PI", 0, "RHostAddr_PI", 0, <<In("dataObjInp_t"), Out("rodsHostAddr_t")>>),
    DATA_OBJ_OPEN_AND_STAT_AN |->
      Api("DataObjInp_PI", 0, "OpenStat_PI", 0, <<In("dataObjInp_t"), Out("openStat_t")>>),
    L3_FILE_GET_SINGLE_BUF_AN |-> Api("INT_PI", 0, NULL, 1, <<In("int"), Bytes>>),
    L3_FILE_PUT_SINGLE_BUF_AN |-> Api("INT_PI", 1, NULL, 0, <<In("int"), Bytes>>),
    DATA_OBJ_CREATE_AND_STAT_AN |->
      Api("DataObjInp_PI", 0, "OpenStat_PI", 0, <<In("dataObjInp_t"), Out("openStat_t")>>),
    PHY_BUNDLE_COLL_AN |->
      Api("StructFileExtAndRegInp_PI", 0, NULL, 0, <<In("structFileExtAndRegInp_t")>>),
    UNBUN_AND_REG_PHY_BUNFILE_AN |-> Api("DataObjInp_PI", 0, NULL, 0, <<In("dataObjInp_t")>>),
    GET_HOST_FOR_PUT_AN |->
      Api("DataObjInp_PI", 0, "STR_PI", 0, <<In("dataObjInp_t"), Out("char")>>),
    GET_RESC_QUOTA_AN |->
      Api("getRescQuotaInp_PI", 0, "rescQuota_PI", 0, <<In("getRescQuotaInp_t"), Out("rescQuota_t")>>),
    BULK_DATA_OBJ_REG_AN |->
      Api("GenQueryOut_PI", 0, "GenQueryOut_PI", 0, <<In("genQueryOut_t"), Out("genQueryOut_t")>>),
    BULK_DATA_OBJ_PUT_AN |-> Api("BulkOprInp_PI", 1, NULL, 0, <<In("bulkOprInp_t"), Bytes>>),
    PROC_STAT_AN |->
      Api("ProcStatInp_PI", 0, "GenQueryOut_PI", 0, <<In("procStatInp_t"), Out("genQueryOut_t")>>),
    STREAM_READ_AN |-> Api("fileReadInp_PI", 0, NULL, 1, <<In("fileReadInp_t"), Bytes>>),
    REG_COLL_AN |-> Api("CollInpNew_PI", 0, NULL, 0, <<In("collInp_t")>>),
    REG_DATA_OBJ_AN |->
      Api("DataObjInfo_PI", 0, "DataObjInfo_PI", 0, <<In("dataObjInfo_t"), Out("dataObjInfo_t")>>),
    UNREG_DATA_OBJ_AN |-> Api("UnregDataObj_PI", 0, NULL, 0, <<In("unregDataObj_t")>>),
    REG_REPLICA_AN |-> Api("RegReplica_PI", 0, NULL, 0, <<In("regReplica_t")>>),
    FILE_CHKSUM_AN |->
      Api("fileChksumInp_PI", 0, "fileChksumOut_PI", 0, <<In("fileChksumInp_t"), Out("char")>>),
    SSL_START_AN |-> Api("sslStartInp_PI", 0, NULL, 0, <<In("sslStartInp_t")>>)]
PlugInCalls(NULL) == [
    SSL_END_AN |-> Api("sslEndInp_PI", 0, NULL, 0, <<In("sslEndInp_t")>>),
    AUTH_PLUG_REQ_AN |->
      Api("authPlugReqInp_PI", 0, "authPlugReqOut_PI", 0, <<In("authPluginReqInp_t"), Out("authPluginReqOut_t")>>),
    GET_HIER_FOR_RESC_AN |->
      Api("getHierarchyForRescInp_PI", 0, "getHierarchyForRescOut_PI", 0, <<In("getHierarchyForRescInp_t"), Out("getHierarchyForRescOut_t")>>),
    ZONE_REPORT_AN |-> Api(NULL, 0, "BytesBuf_PI", 0, <<Out("bytesBuf_t")>>),
    SERVER_REPORT_AN |-> Api(NULL, 0, "BytesBuf_PI", 0, <<Out("bytesBuf_t")>>),
    CLIENT_HINTS_AN |-> Api(NULL, 0, "BytesBuf_PI", 0, <<Out("bytesBuf_t")>>),
    IES_CLIENT_HINTS_AN |-> Api(NULL, 0, "BytesBuf_PI", 0, <<Out("bytesBuf_t")>>),
    GET_HIER_FROM_LEAF_ID_AN |->
      Api("GetHierInp_PI", 0, "GetHierOut_PI", 0, <<In("get_hier_inp_t"), Out("get_hier_out_t")>>),
    SET_RR_CTX_AN |->
      Api("SetRoundRobinContextInp_PI", 0, NULL, 0, <<In("setRoundRobinContextInp_t")>>),
    EXEC_RULE_EXPRESSION_AN |->
      Api("ExecRuleExpression_PI", 0, NULL, 0, <<In("exec_rule_expression_t")>>)]
-----------------------------------------------------------------------------
ApiNumber == FileNumbers @@ ObjectNumbers @@ MetadataNumbers @@ OtherNumbers
               @@ [IES_CLIENT_HINTS_AN |-> IES_CLIENT_HINTS_AN]
ApiRows(NULL) ==
    FileCalls(NULL) @@ DataObjectCalls(NULL) @@ AccountCalls(NULL) @@ RuleCalls(NULL) @@ SubFileCalls(NULL) @@ StructFileCalls(NULL) @@ PlugInCalls(NULL)
=============================================================================
