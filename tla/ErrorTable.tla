----------------------------- MODULE ErrorTable -----------------------------
(***************************************************************************)
(* The error codes in the order in which the table defines them.  A status *)
(* is -mmmmnnn: a code -mmmm000 less the errno nnn of the failure.         *)
(***************************************************************************)
EXTENDS Integers, Sequences, SequencesExt

E(name, code) == [name |-> name, code |-> code]
-----------------------------------------------------------------------------
SystemErrors == <<
    E("SYS_SOCK_OPEN_ERR", -1000), E("SYS_SOCK_LISTEN_ERR", -1100),
    E("SYS_SOCK_BIND_ERR", -2000), E("SYS_SOCK_ACCEPT_ERR", -3000),
    E("SYS_HEADER_READ_LEN_ERR", -4000), E("SYS_HEADER_WRITE_LEN_ERR", -5000),
    E("SYS_HEADER_TYPE_LEN_ERR", -6000), E("SYS_CAUGHT_SIGNAL", -7000),
    E("SYS_GETSTARTUP_PACK_ERR", -8000), E("SYS_EXCEED_CONNECT_CNT", -9000),
    E("SYS_USER_NOT_ALLOWED_TO_CONN", -10000), E("SYS_READ_MSG_BODY_INPUT_ERR", -11000),
    E("SYS_UNMATCHED_API_NUM", -12000), E("SYS_NO_API_PRIV", -13000),
    E("SYS_API_INPUT_ERR", -14000), E("SYS_PACK_INSTRUCT_FORMAT_ERR", -15000),
    E("SYS_MALLOC_ERR", -16000), E("SYS_GET_HOSTNAME_ERR", -17000),
    E("SYS_OUT_OF_FILE_DESC", -18000), E("SYS_FILE_DESC_OUT_OF_RANGE", -19000),
    E("SYS_UNRECOGNIZED_REMOTE_FLAG", -20000), E("SYS_INVALID_SERVER_HOST", -21000),
    E("SYS_SVR_TO_SVR_CONNECT_FAILED", -22000), E("SYS_BAD_FILE_DESCRIPTOR", -23000),
    E("SYS_INTERNAL_NULL_INPUT_ERR", -24000), E("SYS_CONFIG_FILE_ERR", -25000),
    E("SYS_INVALID_ZONE_NAME", -26000), E("SYS_COPY_LEN_ERR", -27000),
    E("SYS_PORT_COOKIE_ERR", -28000), E("SYS_KEY_VAL_TABLE_ERR", -29000),
    E("SYS_INVALID_RESC_TYPE", -30000), E("SYS_INVALID_FILE_PATH", -31000),
    E("SYS_INVALID_RESC_INPUT", -32000), E("SYS_INVALID_PORTAL_OPR", -33000),
    E("SYS_INVALID_OPR_TYPE", -35000), E("SYS_NO_PATH_PERMISSION", -36000),
    E("SYS_NO_ICAT_SERVER_ERR", -37000), E("SYS_AGENT_INIT_ERR", -38000),
    E("SYS_PROXYUSER_NO_PRIV", -39000), E("SYS_NO_DATA_OBJ_PERMISSION", -40000),
    E("SYS_DELETE_DISALLOWED", -41000), E("SYS_OPEN_REI_FILE_ERR", -42000),
    E("SYS_NO_RCAT_SERVER_ERR", -43000), E("SYS_UNMATCH_PACK_INSTRUCTI_NAME", -44000),
    E("SYS_SVR_TO_CLI_MSI_NO_EXIST", -45000), E("SYS_COPY_ALREADY_IN_RESC", -46000),
    E("SYS_RECONN_OPR_MISMATCH", -47000), E("SYS_INPUT_PERM_OUT_OF_RANGE", -48000),
    E("SYS_FORK_ERROR", -49000), E("SYS_PIPE_ERROR", -50000),
    E("SYS_EXEC_CMD_STATUS_SZ_ERROR", -51000), E("SYS_PATH_IS_NOT_A_FILE", -52000),
    E("SYS_UNMATCHED_SPEC_COLL_TYPE", -53000), E("SYS_TOO_MANY_QUERY_RESULT", -54000),
    E("SYS_SPEC_COLL_NOT_IN_CACHE", -55000), E("SYS_SPEC_COLL_OBJ_NOT_EXIST", -56000),
    E("SYS_REG_OBJ_IN_SPEC_COLL", -57000), E("SYS_DEST_SPEC_COLL_SUB_EXIST", -58000),
    E("SYS_SRC_DEST_SPEC_COLL_CONFLICT", -59000), E("SYS_UNKNOWN_SPEC_COLL_CLASS", -60000),
    E("END_OF_LIFE_SYS_DUPLICATE_XMSG_TICKET", -61000),
    E("END_OF_LIFE_SYS_UNMATCHED_XMSG_TICKET", -62000),
    E("END_OF_LIFE_SYS_NO_XMSG_FOR_MSG_NUMBER", -63000), E("SYS_COLLINFO_2_FORMAT_ERR", -64000),
    E("SYS_CACHE_STRUCT_FILE_RESC_ERR", -65000), E("SYS_NOT_SUPPORTED", -66000),
    E("SYS_TAR_STRUCT_FILE_EXTRACT_ERR", -67000), E("SYS_STRUCT_FILE_DESC_ERR", -68000),
    E("SYS_TAR_OPEN_ERR", -69000), E("SYS_TAR_EXTRACT_ALL_ERR", -70000),
    E("SYS_TAR_CLOSE_ERR", -71000), E("SYS_STRUCT_FILE_PATH_ERR", -72000),
    E("SYS_MOUNT_MOUNTED_COLL_ERR", -73000), E("SYS_COLL_NOT_MOUNTED_ERR", -74000),
    E("SYS_STRUCT_FILE_BUSY_ERR", -75000), E("SYS_STRUCT_FILE_INMOUNTED_COLL", -76000),
    E("SYS_COPY_NOT_EXIST_IN_RESC", -77000), E("SYS_RESC_DOES_NOT_EXIST", -78000),
    E("SYS_COLLECTION_NOT_EMPTY", -79000), E("SYS_OBJ_TYPE_NOT_STRUCT_FILE", -80000),
    E("SYS_WRONG_RESC_POLICY_FOR_BUN_OPR", -81000), E("SYS_DIR_IN_VAULT_NOT_EMPTY", -82000),
    E("SYS_OPR_FLAG_NOT_SUPPORT", -83000), E("SYS_TAR_APPEND_ERR", -84000),
    E("SYS_INVALID_PROTOCOL_TYPE", -85000), E("SYS_UDP_CONNECT_ERR", -86000),
    E("SYS_UDP_TRANSFER_ERR", -89000), E("SYS_UDP_NO_SUPPORT_ERR", -90000),
    E("SYS_READ_MSG_BODY_LEN_ERR", -91000), E("CROSS_ZONE_SOCK_CONNECT_ERR", -92000),
    E("SYS_NO_FREE_RE_THREAD", -93000), E("SYS_BAD_RE_THREAD_INX", -94000),
    E("SYS_CANT_DIRECTLY_ACC_COMPOUND_RESC", -95000),
    E("SYS_SRC_DEST_RESC_COMPOUND_TYPE", -96000), E("SYS_CACHE_RESC_NOT_ON_SAME_HOST", -97000),
    E("SYS_NO_CACHE_RESC_IN_GRP", -98000), E("SYS_UNMATCHED_RESC_IN_RESC_GRP", -99000),
    E("SYS_CANT_MV_BUNDLE_DATA_TO_TRASH", -100000),
    E("SYS_CANT_MV_BUNDLE_DATA_BY_COPY", -101000), E("SYS_EXEC_TAR_ERR", -102000),
    E("SYS_CANT_CHKSUM_COMP_RESC_DATA", -103000), E("SYS_CANT_CHKSUM_BUNDLED_DATA", -104000),
    E("SYS_RESC_IS_DOWN", -105000), E("SYS_UPDATE_REPL_INFO_ERR", -106000),
    E("SYS_COLL_LINK_PATH_ERR", -107000), E("SYS_LINK_CNT_EXCEEDED_ERR", -108000),
    E("SYS_CROSS_ZONE_MV_NOT_SUPPORTED", -109000), E("SYS_RESC_QUOTA_EXCEEDED", -110000),
    E("SYS_RENAME_STRUCT_COUNT_EXCEEDED", -111000), E("SYS_BULK_REG_COUNT_EXCEEDED", -112000),
    E("SYS_REQUESTED_BUF_TOO_LARGE", -113000), E("SYS_INVALID_RESC_FOR_BULK_OPR", -114000),
    E("SYS_SOCK_READ_TIMEDOUT", -115000), E("SYS_SOCK_READ_ERR", -116000),
    E("SYS_CONNECT_CONTROL_CONFIG_ERR", -117000), E("SYS_MAX_CONNECT_COUNT_EXCEEDED", -118000),
    E("SYS_STRUCT_ELEMENT_MISMATCH", -119000), E("SYS_PHY_PATH_INUSE", -120000),
    E("SYS_USER_NO_PERMISSION", -121000), E("SYS_USER_RETRIEVE_ERR", -122000),
    E("SYS_FS_LOCK_ERR", -123000), E("SYS_LOCK_TYPE_INP_ERR", -124000),
    E("SYS_LOCK_CMD_INP_ERR", -125000), E("SYS_ZIP_FORMAT_NOT_SUPPORTED", -126000),
    E("SYS_ADD_TO_ARCH_OPR_NOT_SUPPORTED", -127000), E("CANT_REG_IN_VAULT_FILE", -128000),
    E("PATH_REG_NOT_ALLOWED", -129000), E("SYS_INVALID_INPUT_PARAM", -130000),
    E("SYS_GROUP_RETRIEVE_ERR", -131000), E("SYS_MSSO_APPEND_ERR", -132000),
    E("SYS_MSSO_STRUCT_FILE_EXTRACT_ERR", -133000), E("SYS_MSSO_EXTRACT_ALL_ERR", -134000),
    E("SYS_MSSO_OPEN_ERR", -135000), E("SYS_MSSO_CLOSE_ERR", -136000),
    E("SYS_RULE_NOT_FOUND", -144000), E("SYS_NOT_IMPLEMENTED", -146000),
    E("SYS_SIGNED_SID_NOT_MATCHED", -147000), E("SYS_HASH_IMMUTABLE", -148000),
    E("SYS_UNINITIALIZED", -149000), E("SYS_NEGATIVE_SIZE", -150000),
    E("SYS_ALREADY_INITIALIZED", -151000), E("SYS_SETENV_ERR", -152000),
    E("SYS_GETENV_ERR", -153000), E("SYS_INTERNAL_ERR", -154000),
    E("SYS_SOCK_SELECT_ERR", -155000), E("SYS_THREAD_ENCOUNTERED_INTERRUPT", -156000),
    E("SYS_THREAD_RESOURCE_ERR", -157000), E("SYS_BAD_INPUT", -158000),
    E("SYS_PORT_RANGE_EXHAUSTED", -159000), E("SYS_SERVICE_ROLE_NOT_SUPPORTED", -160000)>>
FileErrors == <<
    E("SYS_SOCK_WRITE_ERR", -161000), E("SYS_SOCK_CONNECT_ERR", -162000),
    E("SYS_OPERATION_IN_PROGRESS", -163000), E("SYS_REPLICA_DOES_NOT_EXIST", -164000),
    E("SYS_UNKNOWN_ERROR", -165000), E("USER_AUTH_SCHEME_ERR", -300000),
    E("USER_AUTH_STRING_EMPTY", -301000), E("USER_RODS_HOST_EMPTY", -302000),
    E("USER_RODS_HOSTNAME_ERR", -303000), E("USER_SOCK_OPEN_ERR", -304000),
    E("USER_SOCK_CONNECT_ERR", -305000), E("USER_STRLEN_TOOLONG", -306000),
    E("USER_API_INPUT_ERR", -307000), E("USER_PACKSTRUCT_INPUT_ERR", -308000),
    E("USER_NO_SUPPORT_ERR", -309000), E("USER_FILE_DOES_NOT_EXIST", -310000),
    E("USER_FILE_TOO_LARGE", -311000), E("OVERWRITE_WITHOUT_FORCE_FLAG", -312000),
    E("UNMATCHED_KEY_OR_INDEX", -313000), E("USER_CHKSUM_MISMATCH", -314000),
    E("USER_BAD_KEYWORD_ERR", -315000), E("USER__NULL_INPUT_ERR", -316000),
    E("USER_INPUT_PATH_ERR", -317000), E("USER_INPUT_OPTION_ERR", -318000),
    E("USER_INVALID_USERNAME_FORMAT", -319000), E("USER_DIRECT_RESC_INPUT_ERR", -320000),
    E("USER_NO_RESC_INPUT_ERR", -321000), E("USER_PARAM_LABEL_ERR", -322000),
    E("USER_PARAM_TYPE_ERR", -323000), E("BASE64_BUFFER_OVERFLOW", -324000),
    E("BASE64_INVALID_PACKET", -325000), E("USER_MSG_TYPE_NO_SUPPORT", -326000),
    E("USER_RSYNC_NO_MODE_INPUT_ERR", -337000), E("USER_OPTION_INPUT_ERR", -338000),
    E("SAME_SRC_DEST_PATHS_ERR", -339000), E("USER_RESTART_FILE_INPUT_ERR", -340000),
    E("RESTART_OPR_FAILED", -341000), E("BAD_EXEC_CMD_PATH", -342000),
    E("EXEC_CMD_OUTPUT_TOO_LARGE", -343000), E("EXEC_CMD_ERROR", -344000),
    E("BAD_INPUT_DESC_INDEX", -345000), E("USER_PATH_EXCEEDS_MAX", -346000),
    E("USER_SOCK_CONNECT_TIMEDOUT", -347000), E("USER_API_VERSION_MISMATCH", -348000),
    E("USER_INPUT_FORMAT_ERR", -349000), E("USER_ACCESS_DENIED", -350000),
    E("CANT_RM_MV_BUNDLE_TYPE", -351000), E("NO_MORE_RESULT", -352000),
    E("NO_KEY_WD_IN_MS_INP_STR", -353000), E("CANT_RM_NON_EMPTY_HOME_COLL", -354000),
    E("CANT_UNREG_IN_VAULT_FILE", -355000), E("NO_LOCAL_FILE_RSYNC_IN_MSI", -356000),
    E("BULK_OPR_MISMATCH_FOR_RESTART", -357000), E("OBJ_PATH_DOES_NOT_EXIST", -358000),
    E("SYMLINKED_BUNFILE_NOT_ALLOWED", -359000), E("USER_INPUT_STRING_ERR", -360000),
    E("USER_INVALID_RESC_INPUT", -361000), E("USER_NOT_ALLOWED_TO_EXEC_CMD", -370000),
    E("USER_HASH_TYPE_MISMATCH", -380000), E("USER_INVALID_CLIENT_ENVIRONMENT", -390000),
    E("USER_INSUFFICIENT_FREE_INODES", -400000), E("USER_FILE_SIZE_MISMATCH", -401000),
    E("USER_INCOMPATIBLE_PARAMS", -402000), E("USER_INVALID_REPLICA_INPUT", -403000),
    E("FILE_INDEX_LOOKUP_ERR", -500000), E("UNIX_FILE_OPEN_ERR", -510000),
    E("UNIX_FILE_CREATE_ERR", -511000), E("UNIX_FILE_READ_ERR", -512000),
    E("UNIX_FILE_WRITE_ERR", -513000), E("UNIX_FILE_CLOSE_ERR", -514000),
    E("UNIX_FILE_UNLINK_ERR", -515000), E("UNIX_FILE_STAT_ERR", -516000),
    E("UNIX_FILE_FSTAT_ERR", -517000), E("UNIX_FILE_LSEEK_ERR", -518000),
    E("UNIX_FILE_FSYNC_ERR", -519000), E("UNIX_FILE_MKDIR_ERR", -520000),
    E("UNIX_FILE_RMDIR_ERR", -521000), E("UNIX_FILE_OPENDIR_ERR", -522000),
    E("UNIX_FILE_CLOSEDIR_ERR", -523000), E("UNIX_FILE_READDIR_ERR", -524000),
    E("UNIX_FILE_STAGE_ERR", -525000), E("UNIX_FILE_GET_FS_FREESPACE_ERR", -526000),
    E("UNIX_FILE_CHMOD_ERR", -527000), E("UNIX_FILE_RENAME_ERR", -528000),
    E("UNIX_FILE_TRUNCATE_ERR", -529000), E("UNIX_FILE_LINK_ERR", -530000),
    E("UNIX_FILE_OPR_TIMEOUT_ERR", -540000), E("UNIV_MSS_SYNCTOARCH_ERR", -550000),
    E("UNIV_MSS_STAGETOCACHE_ERR", -551000), E("UNIV_MSS_UNLINK_ERR", -552000),
    E("UNIV_MSS_MKDIR_ERR", -553000), E("UNIV_MSS_CHMOD_ERR", -554000),
    E("UNIV_MSS_STAT_ERR", -555000), E("UNIV_MSS_RENAME_ERR", -556000),
    E("HPSS_AUTH_NOT_SUPPORTED", -600000), E("HPSS_FILE_OPEN_ERR", -610000),
    E("HPSS_FILE_CREATE_ERR", -611000), E("HPSS_FILE_READ_ERR", -612000),
    E("HPSS_FILE_WRITE_ERR", -613000), E("HPSS_FILE_CLOSE_ERR", -614000),
    E("HPSS_FILE_UNLINK_ERR", -615000), E("HPSS_FILE_STAT_ERR", -616000),
    E("HPSS_FILE_FSTAT_ERR", -617000), E("HPSS_FILE_LSEEK_ERR", -618000),
    E("HPSS_FILE_FSYNC_ERR", -619000), E("HPSS_FILE_MKDIR_ERR", -620000),
    E("HPSS_FILE_RMDIR_ERR", -621000), E("HPSS_FILE_OPENDIR_ERR", -622000),
    E("HPSS_FILE_CLOSEDIR_ERR", -623000), E("HPSS_FILE_READDIR_ERR", -624000),
    E("HPSS_FILE_STAGE_ERR", -625000), E("HPSS_FILE_GET_FS_FREESPACE_ERR", -626000),
    E("HPSS_FILE_CHMOD_ERR", -627000), E("HPSS_FILE_RENAME_ERR", -628000),
    E("HPSS_FILE_TRUNCATE_ERR", -629000), E("HPSS_FILE_LINK_ERR", -630000),
    E("HPSS_AUTH_ERR", -631000), E("HPSS_WRITE_LIST_ERR", -632000),
    E("HPSS_READ_LIST_ERR", -633000), E("HPSS_TRANSFER_ERR", -634000),
    E("HPSS_MOVER_PROT_ERR", -635000), E("S3_INIT_ERROR", -701000), E("S3_PUT_ERROR", -702000),
    E("S3_GET_ERROR", -703000), E("S3_FILE_UNLINK_ERR", -715000),
    E("S3_FILE_STAT_ERR", -716000), E("S3_FILE_COPY_ERR", -717000)>>
DriverErrors == <<
    E("WOS_PUT_ERR", -750000), E("WOS_STREAM_PUT_ERR", -751000),
    E("WOS_STREAM_CLOSE_ERR", -752000), E("WOS_GET_ERR", -753000),
    E("WOS_STREAM_GET_ERR", -754000), E("WOS_UNLINK_ERR", -755000), E("WOS_STAT_ERR", -756000),
    E("WOS_CONNECT_ERR", -757000), E("HDFS_FILE_OPEN_ERR", -730000),
    E("HDFS_FILE_CREATE_ERR", -731000), E("HDFS_FILE_READ_ERR", -732000),
    E("HDFS_FILE_WRITE_ERR", -733000), E("HDFS_FILE_CLOSE_ERR", -734000),
    E("HDFS_FILE_UNLINK_ERR", -735000), E("HDFS_FILE_STAT_ERR", -736000),
    E("HDFS_FILE_FSTAT_ERR", -737000), E("HDFS_FILE_LSEEK_ERR", -738000),
    E("HDFS_FILE_FSYNC_ERR", -739000), E("HDFS_FILE_MKDIR_ERR", -741000),
    E("HDFS_FILE_RMDIR_ERR", -742000), E("HDFS_FILE_OPENDIR_ERR", -743000),
    E("HDFS_FILE_CLOSEDIR_ERR", -744000), E("HDFS_FILE_READDIR_ERR", -745000),
    E("HDFS_FILE_STAGE_ERR", -746000), E("HDFS_FILE_GET_FS_FREESPACE_ERR", -746000),
    E("HDFS_FILE_CHMOD_ERR", -748000), E("HDFS_FILE_RENAME_ERR", -749000),
    E("HDFS_FILE_TRUNCATE_ERR", -760000), E("HDFS_FILE_LINK_ERR", -761000),
    E("HDFS_FILE_OPR_TIMEOUT_ERR", -762000), E("DIRECT_ACCESS_FILE_USER_INVALID_ERR", -770000),
    E("CATALOG_NOT_CONNECTED", -801000), E("CAT_ENV_ERR", -802000),
    E("CAT_CONNECT_ERR", -803000), E("CAT_DISCONNECT_ERR", -804000),
    E("CAT_CLOSE_ENV_ERR", -805000), E("CAT_SQL_ERR", -806000), E("CAT_GET_ROW_ERR", -807000),
    E("CAT_NO_ROWS_FOUND", -808000), E("CATALOG_ALREADY_HAS_ITEM_BY_THAT_NAME", -809000),
    E("CAT_INVALID_RESOURCE_TYPE", -810000), E("CAT_INVALID_RESOURCE_CLASS", -811000),
    E("CAT_INVALID_RESOURCE_NET_ADDR", -812000), E("CAT_INVALID_RESOURCE_VAULT_PATH", -813000),
    E("CAT_UNKNOWN_COLLECTION", -814000), E("CAT_INVALID_DATA_TYPE", -815000),
    E("CAT_INVALID_ARGUMENT", -816000), E("CAT_UNKNOWN_FILE", -817000),
    E("CAT_NO_ACCESS_PERMISSION", -818000), E("CAT_SUCCESS_BUT_WITH_NO_INFO", -819000),
    E("CAT_INVALID_USER_TYPE", -820000), E("CAT_COLLECTION_NOT_EMPTY", -821000),
    E("CAT_TOO_MANY_TABLES", -822000), E("CAT_UNKNOWN_TABLE", -823000),
    E("CAT_NOT_OPEN", -824000), E("CAT_FAILED_TO_LINK_TABLES", -825000),
    E("CAT_INVALID_AUTHENTICATION", -826000), E("CAT_INVALID_USER", -827000),
    E("CAT_INVALID_ZONE", -828000), E("CAT_INVALID_GROUP", -829000),
    E("CAT_INSUFFICIENT_PRIVILEGE_LEVEL", -830000), E("CAT_INVALID_RESOURCE", -831000),
    E("CAT_INVALID_CLIENT_USER", -832000), E("CAT_NAME_EXISTS_AS_COLLECTION", -833000),
    E("CAT_NAME_EXISTS_AS_DATAOBJ", -834000), E("CAT_RESOURCE_NOT_EMPTY", -835000),
    E("CAT_NOT_A_DATAOBJ_AND_NOT_A_COLLECTION", -836000), E("CAT_RECURSIVE_MOVE", -837000),
    E("CAT_LAST_REPLICA", -838000), E("CAT_OCI_ERROR", -839000),
    E("CAT_PASSWORD_EXPIRED", -840000), E("CAT_PASSWORD_ENCODING_ERROR", -850000),
    E("CAT_TABLE_ACCESS_DENIED", -851000), E("CAT_UNKNOWN_RESOURCE", -852000),
    E("CAT_UNKNOWN_SPECIFIC_QUERY", -853000), E("CAT_PSEUDO_RESC_MODIFY_DISALLOWED", -854000),
    E("CAT_HOSTNAME_INVALID", -855000), E("CAT_BIND_VARIABLE_LIMIT_EXCEEDED", -856000),
    E("CAT_INVALID_CHILD", -857000), E("CAT_INVALID_OBJ_COUNT", -858000),
    E("CAT_INVALID_RESOURCE_NAME", -859000), E("CAT_STATEMENT_TABLE_FULL", -860000),
    E("CAT_RESOURCE_NAME_LENGTH_EXCEEDED", -861000), E("CAT_TICKET_INVALID", -890000),
    E("CAT_TICKET_EXPIRED", -891000), E("CAT_TICKET_USES_EXCEEDED", -892000),
    E("CAT_TICKET_USER_EXCLUDED", -893000), E("CAT_TICKET_HOST_EXCLUDED", -894000),
    E("CAT_TICKET_GROUP_EXCLUDED", -895000), E("CAT_TICKET_WRITE_USES_EXCEEDED", -896000),
    E("CAT_TICKET_WRITE_BYTES_EXCEEDED", -897000), E("FILE_OPEN_ERR", -900000),
    E("FILE_READ_ERR", -901000), E("FILE_WRITE_ERR", -902000),
    E("PASSWORD_EXCEEDS_MAX_SIZE", -903000), E("ENVIRONMENT_VAR_HOME_NOT_DEFINED", -904000),
    E("UNABLE_TO_STAT_FILE", -905000), E("AUTH_FILE_NOT_ENCRYPTED", -906000),
    E("AUTH_FILE_DOES_NOT_EXIST", -907000), E("UNLINK_FAILED", -908000),
    E("NO_PASSWORD_ENTERED", -909000), E("REMOTE_SERVER_AUTHENTICATION_FAILURE", -910000),
    E("REMOTE_SERVER_AUTH_NOT_PROVIDED", -911000), E("REMOTE_SERVER_AUTH_EMPTY", -912000),
    E("REMOTE_SERVER_SID_NOT_DEFINED", -913000), E("GSI_NOT_COMPILED_IN", -921000),
    E("GSI_NOT_BUILT_INTO_CLIENT", -922000), E("GSI_NOT_BUILT_INTO_SERVER", -923000),
    E("GSI_ERROR_IMPORT_NAME", -924000), E("GSI_ERROR_INIT_SECURITY_CONTEXT", -925000),
    E("GSI_ERROR_SENDING_TOKEN_LENGTH", -926000)>>
CatalogErrors == <<
    E("GSI_ERROR_READING_TOKEN_LENGTH", -927000), E("GSI_ERROR_TOKEN_TOO_LARGE", -928000),
    E("GSI_ERROR_BAD_TOKEN_RCVED", -929000), E("GSI_SOCKET_READ_ERROR", -930000),
    E("GSI_PARTIAL_TOKEN_READ", -931000), E("GSI_SOCKET_WRITE_ERROR", -932000),
    E("GSI_ERROR_FROM_GSI_LIBRARY", -933000), E("GSI_ERROR_IMPORTING_NAME", -934000),
    E("GSI_ERROR_ACQUIRING_CREDS", -935000), E("GSI_ACCEPT_SEC_CONTEXT_ERROR", -936000),
    E("GSI_ERROR_DISPLAYING_NAME", -937000), E("GSI_ERROR_RELEASING_NAME", -938000),
    E("GSI_DN_DOES_NOT_MATCH_USER", -939000), E("GSI_QUERY_INTERNAL_ERROR", -940000),
    E("GSI_NO_MATCHING_DN_FOUND", -941000), E("GSI_MULTIPLE_MATCHING_DN_FOUND", -942000),
    E("KRB_NOT_COMPILED_IN", -951000), E("KRB_NOT_BUILT_INTO_CLIENT", -952000),
    E("KRB_NOT_BUILT_INTO_SERVER", -953000), E("KRB_ERROR_IMPORT_NAME", -954000),
    E("KRB_ERROR_INIT_SECURITY_CONTEXT", -955000), E("KRB_ERROR_SENDING_TOKEN_LENGTH", -956000),
    E("KRB_ERROR_READING_TOKEN_LENGTH", -957000), E("KRB_ERROR_TOKEN_TOO_LARGE", -958000),
    E("KRB_ERROR_BAD_TOKEN_RCVED", -959000), E("KRB_SOCKET_READ_ERROR", -960000),
    E("KRB_PARTIAL_TOKEN_READ", -961000), E("KRB_SOCKET_WRITE_ERROR", -962000),
    E("KRB_ERROR_FROM_KRB_LIBRARY", -963000), E("KRB_ERROR_IMPORTING_NAME", -964000),
    E("KRB_ERROR_ACQUIRING_CREDS", -965000), E("KRB_ACCEPT_SEC_CONTEXT_ERROR", -966000),
    E("KRB_ERROR_DISPLAYING_NAME", -967000), E("KRB_ERROR_RELEASING_NAME", -968000),
    E("KRB_USER_DN_NOT_FOUND", -969000), E("KRB_NAME_MATCHES_MULTIPLE_USERS", -970000),
    E("KRB_QUERY_INTERNAL_ERROR", -971000), E("OSAUTH_NOT_BUILT_INTO_CLIENT", -981000),
    E("OSAUTH_NOT_BUILT_INTO_SERVER", -982000), E("PAM_AUTH_NOT_BUILT_INTO_CLIENT", -991000),
    E("PAM_AUTH_NOT_BUILT_INTO_SERVER", -992000), E("PAM_AUTH_PASSWORD_FAILED", -993000),
    E("PAM_AUTH_PASSWORD_INVALID_TTL", -994000), E("OBJPATH_EMPTY_IN_STRUCT_ERR", -1000000),
    E("RESCNAME_EMPTY_IN_STRUCT_ERR", -1001000), E("DATATYPE_EMPTY_IN_STRUCT_ERR", -1002000),
    E("DATASIZE_EMPTY_IN_STRUCT_ERR", -1003000), E("CHKSUM_EMPTY_IN_STRUCT_ERR", -1004000),
    E("VERSION_EMPTY_IN_STRUCT_ERR", -1005000), E("FILEPATH_EMPTY_IN_STRUCT_ERR", -1006000),
    E("REPLNUM_EMPTY_IN_STRUCT_ERR", -1007000), E("REPLSTATUS_EMPTY_IN_STRUCT_ERR", -1008000),
    E("DATAOWNER_EMPTY_IN_STRUCT_ERR", -1009000),
    E("DATAOWNERZONE_EMPTY_IN_STRUCT_ERR", -1010000),
    E("DATAEXPIRY_EMPTY_IN_STRUCT_ERR", -1011000),
    E("DATACOMMENTS_EMPTY_IN_STRUCT_ERR", -1012000),
    E("DATACREATE_EMPTY_IN_STRUCT_ERR", -1013000),
    E("DATAMODIFY_EMPTY_IN_STRUCT_ERR", -1014000),
    E("DATAACCESS_EMPTY_IN_STRUCT_ERR", -1015000),
    E("DATAACCESSINX_EMPTY_IN_STRUCT_ERR", -1016000), E("NO_RULE_FOUND_ERR", -1017000),
    E("NO_MORE_RULES_ERR", -1018000), E("UNMATCHED_ACTION_ERR", -1019000),
    E("RULES_FILE_READ_ERROR", -1020000), E("ACTION_ARG_COUNT_MISMATCH", -1021000),
    E("MAX_NUM_OF_ARGS_IN_ACTION_EXCEEDED", -1022000), E("UNKNOWN_PARAM_IN_RULE_ERR", -1023000),
    E("DESTRESCNAME_EMPTY_IN_STRUCT_ERR", -1024000),
    E("BACKUPRESCNAME_EMPTY_IN_STRUCT_ERR", -1025000),
    E("DATAID_EMPTY_IN_STRUCT_ERR", -1026000), E("COLLID_EMPTY_IN_STRUCT_ERR", -1027000),
    E("RESCGROUPNAME_EMPTY_IN_STRUCT_ERR", -1028000),
    E("STATUSSTRING_EMPTY_IN_STRUCT_ERR", -1029000),
    E("DATAMAPID_EMPTY_IN_STRUCT_ERR", -1030000),
    E("USERNAMECLIENT_EMPTY_IN_STRUCT_ERR", -1031000),
    E("RODSZONECLIENT_EMPTY_IN_STRUCT_ERR", -1032000),
    E("USERTYPECLIENT_EMPTY_IN_STRUCT_ERR", -1033000),
    E("HOSTCLIENT_EMPTY_IN_STRUCT_ERR", -1034000),
    E("AUTHSTRCLIENT_EMPTY_IN_STRUCT_ERR", -1035000),
    E("USERAUTHSCHEMECLIENT_EMPTY_IN_STRUCT_ERR", -1036000),
    E("USERINFOCLIENT_EMPTY_IN_STRUCT_ERR", -1037000),
    E("USERCOMMENTCLIENT_EMPTY_IN_STRUCT_ERR", -1038000),
    E("USERCREATECLIENT_EMPTY_IN_STRUCT_ERR", -1039000),
    E("USERMODIFYCLIENT_EMPTY_IN_STRUCT_ERR", -1040000),
    E("USERNAMEPROXY_EMPTY_IN_STRUCT_ERR", -1041000),
    E("RODSZONEPROXY_EMPTY_IN_STRUCT_ERR", -1042000),
    E("USERTYPEPROXY_EMPTY_IN_STRUCT_ERR", -1043000),
    E("HOSTPROXY_EMPTY_IN_STRUCT_ERR", -1044000),
    E("AUTHSTRPROXY_EMPTY_IN_STRUCT_ERR", -1045000),
    E("USERAUTHSCHEMEPROXY_EMPTY_IN_STRUCT_ERR", -1046000),
    E("USERINFOPROXY_EMPTY_IN_STRUCT_ERR", -1047000),
    E("USERCOMMENTPROXY_EMPTY_IN_STRUCT_ERR", -1048000),
    E("USERCREATEPROXY_EMPTY_IN_STRUCT_ERR", -1049000),
    E("USERMODIFYPROXY_EMPTY_IN_STRUCT_ERR", -1050000),
    E("COLLNAME_EMPTY_IN_STRUCT_ERR", -1051000),
    E("COLLPARENTNAME_EMPTY_IN_STRUCT_ERR", -1052000),
    E("COLLOWNERNAME_EMPTY_IN_STRUCT_ERR", -1053000),
    E("COLLOWNERZONE_EMPTY_IN_STRUCT_ERR", -1054000),
    E("COLLEXPIRY_EMPTY_IN_STRUCT_ERR", -1055000),
    E("COLLCOMMENTS_EMPTY_IN_STRUCT_ERR", -1056000),
    E("COLLCREATE_EMPTY_IN_STRUCT_ERR", -1057000),
    E("COLLMODIFY_EMPTY_IN_STRUCT_ERR", -1058000),
    E("COLLACCESS_EMPTY_IN_STRUCT_ERR", -1059000),
    E("COLLACCESSINX_EMPTY_IN_STRUCT_ERR", -1060000),
    E("COLLMAPID_EMPTY_IN_STRUCT_ERR", -1062000),
    E("COLLINHERITANCE_EMPTY_IN_STRUCT_ERR", -1063000),
    E("RESCZONE_EMPTY_IN_STRUCT_ERR", -1065000), E("RESCLOC_EMPTY_IN_STRUCT_ERR", -1066000),
    E("RESCTYPE_EMPTY_IN_STRUCT_ERR", -1067000), E("RESCTYPEINX_EMPTY_IN_STRUCT_ERR", -1068000),
    E("RESCCLASS_EMPTY_IN_STRUCT_ERR", -1069000),
    E("RESCCLASSINX_EMPTY_IN_STRUCT_ERR", -1070000),
    E("RESCVAULTPATH_EMPTY_IN_STRUCT_ERR", -1071000),
    E("NUMOPEN_ORTS_EMPTY_IN_STRUCT_ERR", -1072000), E("PARAOPR_EMPTY_IN_STRUCT_ERR", -1073000),
    E("RESCID_EMPTY_IN_STRUCT_ERR", -1074000), E("GATEWAYADDR_EMPTY_IN_STRUCT_ERR", -1075000),
    E("RESCMAX_BJSIZE_EMPTY_IN_STRUCT_ERR", -1076000),
    E("FREESPACE_EMPTY_IN_STRUCT_ERR", -1077000),
    E("FREESPACETIME_EMPTY_IN_STRUCT_ERR", -1078000),
    E("FREESPACETIMESTAMP_EMPTY_IN_STRUCT_ERR", -1079000),
    E("RESCINFO_EMPTY_IN_STRUCT_ERR", -1080000),
    E("RESCCOMMENTS_EMPTY_IN_STRUCT_ERR", -1081000),
    E("RESCCREATE_EMPTY_IN_STRUCT_ERR", -1082000),
    E("RESCMODIFY_EMPTY_IN_STRUCT_ERR", -1083000), E("INPUT_ARG_NOT_WELL_FORMED_ERR", -1084000),
    E("INPUT_ARG_OUT_OF_ARGC_RANGE_ERR", -1085000), E("INSUFFICIENT_INPUT_ARG_ERR", -1086000),
    E("INPUT_ARG_DOES_NOT_MATCH_ERR", -1087000), E("RETRY_WITHOUT_RECOVERY_ERR", -1088000),
    E("CUT_ACTION_PROCESSED_ERR", -1089000), E("ACTION_FAILED_ERR", -1090000),
    E("FAIL_ACTION_ENCOUNTERED_ERR", -1091000), E("VARIABLE_NAME_TOO_LONG_ERR", -1092000),
    E("UNKNOWN_VARIABLE_MAP_ERR", -1093000), E("UNDEFINED_VARIABLE_MAP_ERR", -1094000),
    E("NULL_VALUE_ERR", -1095000), E("DVARMAP_FILE_READ_ERROR", -1096000),
    E("NO_RULE_OR_MSI_FUNCTION_FOUND_ERR", -1097000)>>
RuleErrors == <<
    E("FILE_CREATE_ERROR", -1098000), E("FMAP_FILE_READ_ERROR", -1099000),
    E("DATE_FORMAT_ERR", -1100000), E("RULE_FAILED_ERR", -1101000),
    E("NO_MICROSERVICE_FOUND_ERR", -1102000), E("INVALID_REGEXP", -1103000),
    E("INVALID_OBJECT_NAME", -1104000), E("INVALID_OBJECT_TYPE", -1105000),
    E("NO_VALUES_FOUND", -1106000), E("NO_COLUMN_NAME_FOUND", -1107000),
    E("BREAK_ACTION_ENCOUNTERED_ERR", -1108000),
    E("CUT_ACTION_ON_SUCCESS_PROCESSED_ERR", -1109000),
    E("MSI_OPERATION_NOT_ALLOWED", -1110000), E("MAX_NUM_OF_ACTION_IN_RULE_EXCEEDED", -1111000),
    E("MSRVC_FILE_READ_ERROR", -1112000), E("MSRVC_VERSION_MISMATCH", -1113000),
    E("MICRO_SERVICE_OBJECT_TYPE_UNDEFINED", -1114000), E("MSO_OBJ_GET_FAILED", -1115000),
    E("REMOTE_IRODS_CONNECT_ERR", -1116000), E("REMOTE_SRB_CONNECT_ERR", -1117000),
    E("MSO_OBJ_PUT_FAILED", -1118000), E("RE_PARSER_ERROR", -1201000),
    E("RE_UNPARSED_SUFFIX", -1202000), E("RE_POINTER_ERROR", -1203000),
    E("RE_RUNTIME_ERROR", -1205000), E("RE_DIVISION_BY_ZERO", -1206000),
    E("RE_BUFFER_OVERFLOW", -1207000), E("RE_UNSUPPORTED_OP_OR_TYPE", -1208000),
    E("RE_UNSUPPORTED_SESSION_VAR", -1209000), E("RE_UNABLE_TO_WRITE_LOCAL_VAR", -1210000),
    E("RE_UNABLE_TO_READ_LOCAL_VAR", -1211000), E("RE_UNABLE_TO_WRITE_SESSION_VAR", -1212000),
    E("RE_UNABLE_TO_READ_SESSION_VAR", -1213000), E("RE_UNABLE_TO_WRITE_VAR", -1214000),
    E("RE_UNABLE_TO_READ_VAR", -1215000), E("RE_PATTERN_NOT_MATCHED", -1216000),
    E("RE_STRING_OVERFLOW", -1217000), E("RE_UNKNOWN_ERROR", -1220000),
    E("RE_OUT_OF_MEMORY", -1221000), E("RE_SHM_UNLINK_ERROR", -1222000),
    E("RE_FILE_STAT_ERROR", -1223000), E("RE_UNSUPPORTED_AST_NODE_TYPE", -1224000),
    E("RE_UNSUPPORTED_SESSION_VAR_TYPE", -1225000), E("RE_TYPE_ERROR", -1230000),
    E("RE_FUNCTION_REDEFINITION", -1231000), E("RE_DYNAMIC_TYPE_ERROR", -1232000),
    E("RE_DYNAMIC_COERCION_ERROR", -1233000), E("RE_PACKING_ERROR", -1234000),
    E("PHP_EXEC_SCRIPT_ERR", -1600000), E("PHP_REQUEST_STARTUP_ERR", -1601000),
    E("PHP_OPEN_SCRIPT_FILE_ERR", -1602000), E("KEY_NOT_FOUND", -1800000),
    E("KEY_TYPE_MISMATCH", -1801000), E("CHILD_EXISTS", -1802000),
    E("HIERARCHY_ERROR", -1803000), E("CHILD_NOT_FOUND", -1804000),
    E("NO_NEXT_RESC_FOUND", -1805000), E("NO_PDMO_DEFINED", -1806000),
    E("INVALID_LOCATION", -1807000), E("PLUGIN_ERROR", -1808000),
    E("INVALID_RESC_CHILD_CONTEXT", -1809000), E("INVALID_FILE_OBJECT", -1810000),
    E("INVALID_OPERATION", -1811000), E("CHILD_HAS_PARENT", -1812000),
    E("FILE_NOT_IN_VAULT", -1813000), E("DIRECT_ARCHIVE_ACCESS", -1814000),
    E("ADVANCED_NEGOTIATION_NOT_SUPPORTED", -1815000), E("DIRECT_CHILD_ACCESS", -1816000),
    E("INVALID_DYNAMIC_CAST", -1817000), E("INVALID_ACCESS_TO_IMPOSTOR_RESOURCE", -1818000),
    E("INVALID_LEXICAL_CAST", -1819000), E("CONTROL_PLANE_MESSAGE_ERROR", -1820000),
    E("REPLICA_NOT_IN_RESC", -1821000), E("INVALID_ANY_CAST", -1822000),
    E("BAD_FUNCTION_CALL", -1823000), E("CLIENT_NEGOTIATION_ERROR", -1824000),
    E("SERVER_NEGOTIATION_ERROR", -1825000), E("INVALID_KVP_STRING", -1826000),
    E("PLUGIN_ERROR_MISSING_SHARED_OBJECT", -1827000), E("RULE_ENGINE_ERROR", -1828000),
    E("REBALANCE_ALREADY_ACTIVE_ON_RESOURCE", -1829000), E("NETCDF_OPEN_ERR", -2000000),
    E("NETCDF_CREATE_ERR", -2001000), E("NETCDF_CLOSE_ERR", -2002000),
    E("NETCDF_INVALID_PARAM_TYPE", -2003000), E("NETCDF_INQ_ID_ERR", -2004000),
    E("NETCDF_GET_VARS_ERR", -2005000), E("NETCDF_INVALID_DATA_TYPE", -2006000),
    E("NETCDF_INQ_VARS_ERR", -2007000), E("NETCDF_VARS_DATA_TOO_BIG", -2008000),
    E("NETCDF_DIM_MISMATCH_ERR", -2009000), E("NETCDF_INQ_ERR", -2010000),
    E("NETCDF_INQ_FORMAT_ERR", -2011000), E("NETCDF_INQ_DIM_ERR", -2012000),
    E("NETCDF_INQ_ATT_ERR", -2013000), E("NETCDF_GET_ATT_ERR", -2014000),
    E("NETCDF_VAR_COUNT_OUT_OF_RANGE", -2015000), E("NETCDF_UNMATCHED_NAME_ERR", -2016000),
    E("NETCDF_NO_UNLIMITED_DIM", -2017000), E("NETCDF_PUT_ATT_ERR", -2018000),
    E("NETCDF_DEF_DIM_ERR", -2019000), E("NETCDF_DEF_VAR_ERR", -2020000),
    E("NETCDF_PUT_VARS_ERR", -2021000), E("NETCDF_AGG_INFO_FILE_ERR", -2022000),
    E("NETCDF_AGG_ELE_INX_OUT_OF_RANGE", -2023000),
    E("NETCDF_AGG_ELE_FILE_NOT_OPENED", -2024000),
    E("NETCDF_AGG_ELE_FILE_NO_TIME_DIM", -2025000)>>
OtherErrors == <<
    E("SSL_NOT_BUILT_INTO_CLIENT", -2100000), E("SSL_NOT_BUILT_INTO_SERVER", -2101000),
    E("SSL_INIT_ERROR", -2102000), E("SSL_HANDSHAKE_ERROR", -2103000),
    E("SSL_SHUTDOWN_ERROR", -2104000), E("SSL_CERT_ERROR", -2105000),
    E("OOI_CURL_EASY_INIT_ERR", -2200000), E("OOI_JSON_OBJ_SET_ERR", -2201000),
    E("OOI_DICT_TYPE_NOT_SUPPORTED", -2202000), E("OOI_JSON_PACK_ERR", -2203000),
    E("OOI_JSON_DUMP_ERR", -2204000), E("OOI_CURL_EASY_PERFORM_ERR", -2205000),
    E("OOI_JSON_LOAD_ERR", -2206000), E("OOI_JSON_GET_ERR", -2207000),
    E("OOI_JSON_NO_ANSWER_ERR", -2208000), E("OOI_JSON_TYPE_ERR", -2209000),
    E("OOI_JSON_INX_OUT_OF_RANGE", -2210000), E("OOI_REVID_NOT_FOUND", -2211000),
    E("DEPRECATED_PARAMETER", -3000000), E("XML_PARSING_ERR", -2300000),
    E("OUT_OF_URL_PATH", -2301000), E("URL_PATH_INX_OUT_OF_RANGE", -2302000),
    E("SYS_NULL_INPUT", -99999996), E("SYS_HANDLER_DONE_WITH_ERROR", -99999997),
    E("SYS_HANDLER_DONE_NO_ERROR", -99999998), E("SYS_NO_HANDLER_REPLY_MSG", -99999999)>>
-----------------------------------------------------------------------------
Errors == SystemErrors \o FileErrors \o DriverErrors \o CatalogErrors \o RuleErrors \o OtherErrors
ErrorCode == [name \in {Errors[i].name : i \in DOMAIN Errors} |->
                Errors[SelectInSeq(Errors, LAMBDA e : e.name = name)].code]
=============================================================================
