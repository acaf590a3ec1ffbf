----------------------------- MODULE ColumnTable -----------------------------
(***************************************************************************)
(* The columns of a general query: their numbers (rodsGenQuery.h) and the  *)
(* names a query string has for them (rodsGenQueryNames.h). COL_ is left   *)
(* out of the names of the numbers.                                        *)
(***************************************************************************)
EXTENDS Integers, SequencesExt

\* Columns of consecutive numbers.
From(n, names) == [i \in DOMAIN names |-> <<names[i], n + i - 1>>]
\* A column called like its number, and pairs of a number and its name.
Same(names) == [i \in DOMAIN names |-> <<names[i], names[i]>>]
Pairs(names) == [i \in 1..(Len(names) \div 2) |-> <<names[2 * i - 1], names[2 * i]>>]

Numbers1 ==
    From(101, <<"ZONE_ID", "ZONE_NAME", "ZONE_TYPE", "ZONE_CONNECTION", "ZONE_COMMENT",
        "ZONE_CREATE_TIME", "ZONE_MODIFY_TIME">>)
    \o From(201, <<"USER_ID", "USER_NAME", "USER_TYPE", "USER_ZONE">>)
    \o From(206, <<"USER_INFO", "USER_COMMENT", "USER_CREATE_TIME", "USER_MODIFY_TIME">>)
    \o From(205, <<"USER_DN_INVALID">>)
    \o From(301, <<"R_RESC_ID", "R_RESC_NAME", "R_ZONE_NAME", "R_TYPE_NAME", "R_CLASS_NAME",
        "R_LOC", "R_VAULT_PATH", "R_FREE_SPACE", "R_RESC_INFO", "R_RESC_COMMENT",
        "R_CREATE_TIME", "R_MODIFY_TIME", "R_RESC_STATUS", "R_FREE_SPACE_TIME",
        "R_RESC_CHILDREN", "R_RESC_CONTEXT", "R_RESC_PARENT", "R_RESC_PARENT_CONTEXT">>)
    \o From(401, <<"D_DATA_ID", "D_COLL_ID", "DATA_NAME", "DATA_REPL_NUM", "DATA_VERSION",
        "DATA_TYPE_NAME", "DATA_SIZE">>)
    \o From(409, <<"D_RESC_NAME", "D_DATA_PATH", "D_OWNER_NAME", "D_OWNER_ZONE",
        "D_REPL_STATUS", "D_DATA_STATUS", "D_DATA_CHECKSUM", "D_EXPIRY", "D_MAP_ID",
        "D_COMMENTS", "D_CREATE_TIME", "D_MODIFY_TIME", "DATA_MODE", "D_RESC_HIER",
        "D_RESC_ID">>)
    \o From(500, <<"COLL_ID", "COLL_NAME", "COLL_PARENT_NAME", "COLL_OWNER_NAME",
        "COLL_OWNER_ZONE", "COLL_MAP_ID", "COLL_INHERITANCE", "COLL_COMMENTS",
        "COLL_CREATE_TIME", "COLL_MODIFY_TIME", "COLL_TYPE", "COLL_INFO1", "COLL_INFO2">>)
    \o From(600, <<"META_DATA_ATTR_NAME", "META_DATA_ATTR_VALUE", "META_DATA_ATTR_UNITS",
        "META_DATA_ATTR_ID", "META_DATA_CREATE_TIME", "META_DATA_MODIFY_TIME">>)
    \o From(610, <<"META_COLL_ATTR_NAME", "META_COLL_ATTR_VALUE", "META_COLL_ATTR_UNITS",
        "META_COLL_ATTR_ID", "META_COLL_CREATE_TIME", "META_COLL_MODIFY_TIME">>)
    \o From(620, <<"META_NAMESPACE_COLL", "META_NAMESPACE_DATA", "META_NAMESPACE_RESC",
        "META_NAMESPACE_USER", "META_NAMESPACE_RESC_GROUP", "META_NAMESPACE_RULE",
        "META_NAMESPACE_MSRVC", "META_NAMESPACE_MET2">>)
    \o From(630, <<"META_RESC_ATTR_NAME", "META_RESC_ATTR_VALUE", "META_RESC_ATTR_UNITS",
        "META_RESC_ATTR_ID", "META_RESC_CREATE_TIME", "META_RESC_MODIFY_TIME">>)
    \o From(640, <<"META_USER_ATTR_NAME", "META_USER_ATTR_VALUE", "META_USER_ATTR_UNITS",
        "META_USER_ATTR_ID", "META_USER_CREATE_TIME", "META_USER_MODIFY_TIME">>)
    \o From(650, <<"META_RESC_GROUP_ATTR_NAME", "META_RESC_GROUP_ATTR_VALUE",
        "META_RESC_GROUP_ATTR_UNITS", "META_RESC_GROUP_ATTR_ID", "META_RESC_GROUP_CREATE_TIME",
        "META_RESC_GROUP_MODIFY_TIME">>)
    \o From(660, <<"META_RULE_ATTR_NAME", "META_RULE_ATTR_VALUE", "META_RULE_ATTR_UNITS",
        "META_RULE_ATTR_ID", "META_RULE_CREATE_TIME", "META_RULE_MODIFY_TIME">>)
    \o From(670, <<"META_MSRVC_ATTR_NAME", "META_MSRVC_ATTR_VALUE", "META_MSRVC_ATTR_UNITS",
        "META_MSRVC_ATTR_ID", "META_MSRVC_CREATE_TIME", "META_MSRVC_MODIFY_TIME">>)
Numbers2 ==
    From(680, <<"META_MET2_ATTR_NAME", "META_MET2_ATTR_VALUE", "META_MET2_ATTR_UNITS",
        "META_MET2_ATTR_ID", "META_MET2_CREATE_TIME", "META_MET2_MODIFY_TIME">>)
    \o From(700, <<"DATA_ACCESS_TYPE", "DATA_ACCESS_NAME", "DATA_TOKEN_NAMESPACE",
        "DATA_ACCESS_USER_ID", "DATA_ACCESS_DATA_ID">>)
    \o From(710, <<"COLL_ACCESS_TYPE", "COLL_ACCESS_NAME", "COLL_TOKEN_NAMESPACE",
        "COLL_ACCESS_USER_ID", "COLL_ACCESS_COLL_ID">>)
    \o From(720, <<"RESC_ACCESS_TYPE", "RESC_ACCESS_NAME", "RESC_TOKEN_NAMESPACE",
        "RESC_ACCESS_USER_ID", "RESC_ACCESS_RESC_ID">>)
    \o From(730, <<"META_ACCESS_TYPE", "META_ACCESS_NAME", "META_TOKEN_NAMESPACE",
        "META_ACCESS_USER_ID", "META_ACCESS_META_ID">>)
    \o From(740, <<"RULE_ACCESS_TYPE", "RULE_ACCESS_NAME", "RULE_TOKEN_NAMESPACE",
        "RULE_ACCESS_USER_ID", "RULE_ACCESS_RULE_ID">>)
    \o From(750, <<"MSRVC_ACCESS_TYPE", "MSRVC_ACCESS_NAME", "MSRVC_TOKEN_NAMESPACE",
        "MSRVC_ACCESS_USER_ID", "MSRVC_ACCESS_MSRVC_ID">>)
    \o From(900, <<"USER_GROUP_ID", "USER_GROUP_NAME">>)
    \o From(1000, <<"RULE_EXEC_ID", "RULE_EXEC_NAME", "RULE_EXEC_REI_FILE_PATH",
        "RULE_EXEC_USER_NAME", "RULE_EXEC_ADDRESS", "RULE_EXEC_TIME", "RULE_EXEC_FREQUENCY",
        "RULE_EXEC_PRIORITY", "RULE_EXEC_ESTIMATED_EXE_TIME", "RULE_EXEC_NOTIFICATION_ADDR",
        "RULE_EXEC_LAST_EXE_TIME", "RULE_EXEC_STATUS">>)
    \o From(1100, <<"TOKEN_NAMESPACE", "TOKEN_ID", "TOKEN_NAME", "TOKEN_VALUE", "TOKEN_VALUE2",
        "TOKEN_VALUE3", "TOKEN_COMMENT">>)
    \o From(1200, <<"AUDIT_OBJ_ID", "AUDIT_USER_ID", "AUDIT_ACTION_ID", "AUDIT_COMMENT",
        "AUDIT_CREATE_TIME", "AUDIT_MODIFY_TIME">>)
    \o From(1200, <<"AUDIT_RANGE_START">>)
    \o From(1299, <<"AUDIT_RANGE_END", "COLL_USER_NAME", "COLL_USER_ZONE">>)
    \o From(1310, <<"DATA_USER_NAME", "DATA_USER_ZONE">>)
    \o From(1320, <<"RESC_USER_NAME", "RESC_USER_ZONE">>)
    \o From(1400, <<"SL_HOST_NAME", "SL_RESC_NAME", "SL_CPU_USED", "SL_MEM_USED",
        "SL_SWAP_USED", "SL_RUNQ_LOAD", "SL_DISK_SPACE", "SL_NET_INPUT", "SL_NET_OUTPUT">>)
    \o From(1408, <<"SL_NET_OUTPUT", "SL_CREATE_TIME">>)
    \o From(1500, <<"SLD_RESC_NAME", "SLD_LOAD_FACTOR", "SLD_CREATE_TIME">>)
    \o From(1600, <<"USER_AUTH_ID", "USER_DN">>)
    \o From(1700, <<"RULE_ID", "RULE_VERSION", "RULE_BASE_NAME", "RULE_NAME", "RULE_EVENT",
        "RULE_CONDITION", "RULE_BODY", "RULE_RECOVERY", "RULE_STATUS", "RULE_OWNER_NAME",
        "RULE_OWNER_ZONE", "RULE_DESCR_1", "RULE_DESCR_2">>)
Numbers3 ==
    From(1713, <<"RULE_INPUT_PARAMS", "RULE_OUTPUT_PARAMS", "RULE_DOLLAR_VARS",
        "RULE_ICAT_ELEMENTS", "RULE_SIDEEFFECTS", "RULE_COMMENT", "RULE_CREATE_TIME",
        "RULE_MODIFY_TIME", "RULE_BASE_MAP_VERSION", "RULE_BASE_MAP_BASE_NAME",
        "RULE_BASE_MAP_OWNER_NAME", "RULE_BASE_MAP_OWNER_ZONE", "RULE_BASE_MAP_COMMENT",
        "RULE_BASE_MAP_CREATE_TIME", "RULE_BASE_MAP_MODIFY_TIME", "RULE_BASE_MAP_PRIORITY">>)
    \o From(1800, <<"DVM_ID", "DVM_VERSION", "DVM_BASE_NAME", "DVM_EXT_VAR_NAME",
        "DVM_CONDITION", "DVM_INT_MAP_PATH", "DVM_STATUS", "DVM_OWNER_NAME", "DVM_OWNER_ZONE",
        "DVM_COMMENT", "DVM_CREATE_TIME", "DVM_MODIFY_TIME", "DVM_BASE_MAP_VERSION",
        "DVM_BASE_MAP_BASE_NAME", "DVM_BASE_MAP_OWNER_NAME", "DVM_BASE_MAP_OWNER_ZONE",
        "DVM_BASE_MAP_COMMENT", "DVM_BASE_MAP_CREATE_TIME", "DVM_BASE_MAP_MODIFY_TIME">>)
    \o From(1900, <<"FNM_ID", "FNM_VERSION", "FNM_BASE_NAME", "FNM_EXT_FUNC_NAME",
        "FNM_INT_FUNC_NAME", "FNM_STATUS", "FNM_OWNER_NAME", "FNM_OWNER_ZONE", "FNM_COMMENT",
        "FNM_CREATE_TIME", "FNM_MODIFY_TIME", "FNM_BASE_MAP_VERSION", "FNM_BASE_MAP_BASE_NAME",
        "FNM_BASE_MAP_OWNER_NAME", "FNM_BASE_MAP_OWNER_ZONE", "FNM_BASE_MAP_COMMENT",
        "FNM_BASE_MAP_CREATE_TIME", "FNM_BASE_MAP_MODIFY_TIME">>)
    \o From(2000, <<"QUOTA_USER_ID", "QUOTA_RESC_ID", "QUOTA_LIMIT", "QUOTA_OVER",
        "QUOTA_MODIFY_TIME">>)
    \o From(2010, <<"QUOTA_USAGE_USER_ID", "QUOTA_USAGE_RESC_ID", "QUOTA_USAGE",
        "QUOTA_USAGE_MODIFY_TIME">>)
    \o From(2020, <<"QUOTA_RESC_NAME", "QUOTA_USER_NAME", "QUOTA_USER_ZONE",
        "QUOTA_USER_TYPE">>)
    \o From(2100, <<"MSRVC_ID", "MSRVC_NAME", "MSRVC_SIGNATURE", "MSRVC_DOXYGEN",
        "MSRVC_VARIATIONS", "MSRVC_STATUS", "MSRVC_OWNER_NAME", "MSRVC_OWNER_ZONE",
        "MSRVC_COMMENT", "MSRVC_CREATE_TIME", "MSRVC_MODIFY_TIME", "MSRVC_VERSION",
        "MSRVC_HOST", "MSRVC_LOCATION", "MSRVC_LANGUAGE", "MSRVC_TYPE_NAME",
        "MSRVC_MODULE_NAME">>)
    \o From(2150, <<"MSRVC_VER_OWNER_NAME", "MSRVC_VER_OWNER_ZONE", "MSRVC_VER_COMMENT",
        "MSRVC_VER_CREATE_TIME", "MSRVC_VER_MODIFY_TIME">>)
    \o From(2200, <<"TICKET_ID", "TICKET_STRING", "TICKET_TYPE", "TICKET_USER_ID",
        "TICKET_OBJECT_ID", "TICKET_OBJECT_TYPE", "TICKET_USES_LIMIT", "TICKET_USES_COUNT",
        "TICKET_EXPIRY_TS", "TICKET_CREATE_TIME", "TICKET_MODIFY_TIME",
        "TICKET_WRITE_FILE_COUNT", "TICKET_WRITE_FILE_LIMIT", "TICKET_WRITE_BYTE_COUNT",
        "TICKET_WRITE_BYTE_LIMIT">>)
    \o From(2220, <<"TICKET_ALLOWED_HOST_TICKET_ID", "TICKET_ALLOWED_HOST",
        "TICKET_ALLOWED_USER_TICKET_ID", "TICKET_ALLOWED_USER_NAME",
        "TICKET_ALLOWED_GROUP_TICKET_ID", "TICKET_ALLOWED_GROUP_NAME", "TICKET_DATA_NAME",
        "TICKET_DATA_COLL_NAME", "TICKET_COLL_NAME", "TICKET_OWNER_NAME", "TICKET_OWNER_ZONE">>)

Names1 ==
    Same(<<"ZONE_ID", "ZONE_NAME", "ZONE_TYPE", "ZONE_CONNECTION", "ZONE_COMMENT",
        "ZONE_CREATE_TIME", "ZONE_MODIFY_TIME", "USER_ID", "USER_NAME", "USER_TYPE",
        "USER_ZONE", "USER_DN", "USER_INFO", "USER_COMMENT", "USER_CREATE_TIME",
        "USER_MODIFY_TIME">>)
    \o Pairs(<<"R_RESC_ID", "RESC_ID", "R_RESC_NAME", "RESC_NAME", "R_ZONE_NAME",
        "RESC_ZONE_NAME", "R_TYPE_NAME", "RESC_TYPE_NAME", "R_CLASS_NAME", "RESC_CLASS_NAME",
        "R_LOC", "RESC_LOC", "R_VAULT_PATH", "RESC_VAULT_PATH", "R_FREE_SPACE",
        "RESC_FREE_SPACE", "R_FREE_SPACE_TIME", "RESC_FREE_SPACE_TIME", "R_RESC_INFO",
        "RESC_INFO", "R_RESC_COMMENT", "RESC_COMMENT", "R_CREATE_TIME", "RESC_CREATE_TIME",
        "R_MODIFY_TIME", "RESC_MODIFY_TIME", "R_RESC_STATUS", "RESC_STATUS", "R_RESC_CHILDREN",
        "RESC_CHILDREN", "R_RESC_CONTEXT", "RESC_CONTEXT", "R_RESC_PARENT", "RESC_PARENT",
        "R_RESC_PARENT_CONTEXT", "RESC_PARENT_CONTEXT", "D_DATA_ID", "DATA_ID", "D_COLL_ID",
        "DATA_COLL_ID">>)
    \o Same(<<"DATA_NAME", "DATA_REPL_NUM", "DATA_VERSION", "DATA_TYPE_NAME", "DATA_SIZE",
        "DATA_MODE">>)
    \o Pairs(<<"D_RESC_NAME", "DATA_RESC_NAME", "D_RESC_HIER", "DATA_RESC_HIER", "D_DATA_PATH",
        "DATA_PATH", "D_OWNER_NAME", "DATA_OWNER_NAME", "D_OWNER_ZONE", "DATA_OWNER_ZONE",
        "D_REPL_STATUS", "DATA_REPL_STATUS", "D_DATA_STATUS", "DATA_STATUS", "D_DATA_CHECKSUM",
        "DATA_CHECKSUM", "D_EXPIRY", "DATA_EXPIRY", "D_MAP_ID", "DATA_MAP_ID", "D_COMMENTS",
        "DATA_COMMENTS", "D_CREATE_TIME", "DATA_CREATE_TIME", "D_MODIFY_TIME",
        "DATA_MODIFY_TIME", "D_RESC_ID", "DATA_RESC_ID">>)
    \o Same(<<"DATA_ACCESS_TYPE", "DATA_ACCESS_NAME", "DATA_TOKEN_NAMESPACE",
        "DATA_ACCESS_USER_ID", "DATA_ACCESS_DATA_ID", "COLL_ID", "COLL_NAME",
        "COLL_PARENT_NAME", "COLL_OWNER_NAME", "COLL_OWNER_ZONE", "COLL_MAP_ID",
        "COLL_INHERITANCE", "COLL_COMMENTS", "COLL_CREATE_TIME", "COLL_MODIFY_TIME",
        "COLL_ACCESS_TYPE", "COLL_ACCESS_NAME", "COLL_TOKEN_NAMESPACE", "COLL_ACCESS_USER_ID",
        "COLL_ACCESS_COLL_ID", "META_DATA_ATTR_NAME", "META_DATA_ATTR_VALUE",
        "META_DATA_ATTR_UNITS", "META_DATA_ATTR_ID", "META_DATA_CREATE_TIME",
        "META_DATA_MODIFY_TIME", "META_COLL_ATTR_NAME", "META_COLL_ATTR_VALUE",
        "META_COLL_ATTR_UNITS", "META_COLL_ATTR_ID", "META_COLL_CREATE_TIME",
        "META_COLL_MODIFY_TIME", "META_NAMESPACE_COLL", "META_NAMESPACE_DATA",
        "META_NAMESPACE_RESC", "META_NAMESPACE_USER", "META_NAMESPACE_RESC_GROUP",
        "META_NAMESPACE_RULE", "META_NAMESPACE_MSRVC", "META_NAMESPACE_MET2",
        "META_RESC_ATTR_NAME", "META_RESC_ATTR_VALUE", "META_RESC_ATTR_UNITS",
        "META_RESC_ATTR_ID", "META_RESC_CREATE_TIME", "META_RESC_MODIFY_TIME",
        "META_RESC_GROUP_ATTR_NAME", "META_RESC_GROUP_ATTR_VALUE", "META_RESC_GROUP_ATTR_UNITS",
        "META_RESC_GROUP_ATTR_ID", "META_RESC_GROUP_CREATE_TIME", "META_RESC_GROUP_MODIFY_TIME",
        "META_USER_ATTR_NAME", "META_USER_ATTR_VALUE", "META_USER_ATTR_UNITS",
        "META_USER_ATTR_ID", "META_USER_CREATE_TIME", "META_USER_MODIFY_TIME",
        "META_RULE_ATTR_NAME", "META_RULE_ATTR_VALUE", "META_RULE_ATTR_UNITS",
        "META_RULE_ATTR_ID", "META_RULE_CREATE_TIME", "META_RULE_MODIFY_TIME",
        "META_MSRVC_ATTR_NAME", "META_MSRVC_ATTR_VALUE", "META_MSRVC_ATTR_UNITS">>)
Names2 ==
    Same(<<"META_MSRVC_ATTR_ID", "META_MSRVC_CREATE_TIME", "META_MSRVC_MODIFY_TIME",
        "META_MET2_ATTR_NAME", "META_MET2_ATTR_VALUE", "META_MET2_ATTR_UNITS",
        "META_MET2_ATTR_ID", "META_MET2_CREATE_TIME", "META_MET2_MODIFY_TIME", "USER_GROUP_ID",
        "USER_GROUP_NAME", "RULE_EXEC_ID", "RULE_EXEC_NAME", "RULE_EXEC_REI_FILE_PATH",
        "RULE_EXEC_USER_NAME", "RULE_EXEC_ADDRESS", "RULE_EXEC_TIME", "RULE_EXEC_FREQUENCY",
        "RULE_EXEC_PRIORITY", "RULE_EXEC_ESTIMATED_EXE_TIME", "RULE_EXEC_NOTIFICATION_ADDR",
        "RULE_EXEC_LAST_EXE_TIME", "RULE_EXEC_STATUS", "TOKEN_NAMESPACE", "TOKEN_ID",
        "TOKEN_NAME", "TOKEN_VALUE", "TOKEN_VALUE2", "TOKEN_VALUE3", "TOKEN_COMMENT",
        "AUDIT_OBJ_ID", "AUDIT_USER_ID", "AUDIT_ACTION_ID", "AUDIT_COMMENT",
        "AUDIT_CREATE_TIME", "AUDIT_MODIFY_TIME", "SL_HOST_NAME", "SL_RESC_NAME", "SL_CPU_USED",
        "SL_MEM_USED", "SL_SWAP_USED", "SL_RUNQ_LOAD", "SL_DISK_SPACE", "SL_NET_INPUT",
        "SL_NET_OUTPUT", "SL_CREATE_TIME", "SLD_RESC_NAME", "SLD_LOAD_FACTOR",
        "SLD_CREATE_TIME", "RULE_BASE_MAP_VERSION", "RULE_BASE_MAP_PRIORITY",
        "RULE_BASE_MAP_BASE_NAME", "RULE_BASE_MAP_OWNER_NAME", "RULE_BASE_MAP_OWNER_ZONE",
        "RULE_BASE_MAP_COMMENT", "RULE_BASE_MAP_CREATE_TIME", "RULE_BASE_MAP_MODIFY_TIME",
        "RULE_ID", "RULE_VERSION", "RULE_BASE_NAME", "RULE_NAME", "RULE_EVENT",
        "RULE_CONDITION", "RULE_BODY", "RULE_RECOVERY", "RULE_STATUS", "RULE_OWNER_NAME",
        "RULE_OWNER_ZONE", "RULE_DESCR_1", "RULE_DESCR_2", "RULE_INPUT_PARAMS",
        "RULE_OUTPUT_PARAMS", "RULE_DOLLAR_VARS", "RULE_ICAT_ELEMENTS", "RULE_SIDEEFFECTS",
        "RULE_COMMENT", "RULE_CREATE_TIME", "RULE_MODIFY_TIME", "DVM_BASE_MAP_VERSION",
        "DVM_BASE_MAP_BASE_NAME", "DVM_BASE_MAP_OWNER_NAME", "DVM_BASE_MAP_OWNER_ZONE",
        "DVM_BASE_MAP_COMMENT", "DVM_BASE_MAP_CREATE_TIME", "DVM_BASE_MAP_MODIFY_TIME",
        "DVM_ID", "DVM_VERSION", "DVM_BASE_NAME", "DVM_EXT_VAR_NAME", "DVM_CONDITION",
        "DVM_INT_MAP_PATH", "DVM_STATUS", "DVM_OWNER_NAME", "DVM_OWNER_ZONE", "DVM_COMMENT",
        "DVM_CREATE_TIME", "DVM_MODIFY_TIME", "FNM_BASE_MAP_VERSION", "FNM_BASE_MAP_BASE_NAME",
        "FNM_BASE_MAP_OWNER_NAME", "FNM_BASE_MAP_OWNER_ZONE", "FNM_BASE_MAP_COMMENT",
        "FNM_BASE_MAP_CREATE_TIME", "FNM_BASE_MAP_MODIFY_TIME", "FNM_ID", "FNM_VERSION",
        "FNM_BASE_NAME", "FNM_EXT_FUNC_NAME", "FNM_INT_FUNC_NAME", "FNM_STATUS",
        "FNM_OWNER_NAME", "FNM_OWNER_ZONE", "FNM_COMMENT", "FNM_CREATE_TIME", "FNM_MODIFY_TIME",
        "QUOTA_USER_ID", "QUOTA_RESC_ID", "QUOTA_LIMIT", "QUOTA_OVER", "QUOTA_MODIFY_TIME",
        "QUOTA_USAGE_USER_ID", "QUOTA_USAGE_RESC_ID">>)
Names3 ==
    Same(<<"QUOTA_USAGE", "QUOTA_USAGE_MODIFY_TIME", "QUOTA_USER_NAME", "QUOTA_USER_ZONE",
        "QUOTA_USER_TYPE", "QUOTA_RESC_NAME", "MSRVC_ID", "MSRVC_NAME", "MSRVC_SIGNATURE",
        "MSRVC_DOXYGEN", "MSRVC_VARIATIONS", "MSRVC_STATUS", "MSRVC_OWNER_NAME",
        "MSRVC_OWNER_ZONE", "MSRVC_COMMENT", "MSRVC_CREATE_TIME", "MSRVC_MODIFY_TIME",
        "MSRVC_MODULE_NAME", "MSRVC_VERSION", "MSRVC_HOST", "MSRVC_LOCATION", "MSRVC_LANGUAGE",
        "MSRVC_TYPE_NAME", "MSRVC_VER_OWNER_NAME", "MSRVC_VER_OWNER_ZONE", "MSRVC_VER_COMMENT",
        "MSRVC_VER_CREATE_TIME", "MSRVC_VER_MODIFY_TIME", "META_ACCESS_TYPE",
        "META_ACCESS_NAME", "META_TOKEN_NAMESPACE", "META_ACCESS_USER_ID",
        "META_ACCESS_META_ID", "RESC_ACCESS_TYPE", "RESC_ACCESS_NAME", "RESC_TOKEN_NAMESPACE",
        "RESC_ACCESS_USER_ID", "RESC_ACCESS_RESC_ID", "RULE_ACCESS_TYPE", "RULE_ACCESS_NAME",
        "RULE_TOKEN_NAMESPACE", "RULE_ACCESS_USER_ID", "RULE_ACCESS_RULE_ID",
        "MSRVC_ACCESS_TYPE", "MSRVC_ACCESS_NAME", "MSRVC_TOKEN_NAMESPACE",
        "MSRVC_ACCESS_USER_ID", "MSRVC_ACCESS_MSRVC_ID", "TICKET_ID", "TICKET_STRING",
        "TICKET_TYPE", "TICKET_USER_ID", "TICKET_OBJECT_ID", "TICKET_OBJECT_TYPE",
        "TICKET_USES_LIMIT", "TICKET_USES_COUNT", "TICKET_WRITE_FILE_COUNT",
        "TICKET_WRITE_FILE_LIMIT", "TICKET_WRITE_BYTE_COUNT", "TICKET_WRITE_BYTE_LIMIT">>)
    \o Pairs(<<"TICKET_EXPIRY_TS", "TICKET_EXPIRY">>)
    \o Same(<<"TICKET_CREATE_TIME", "TICKET_MODIFY_TIME", "TICKET_ALLOWED_HOST_TICKET_ID",
        "TICKET_ALLOWED_HOST", "TICKET_ALLOWED_USER_TICKET_ID", "TICKET_ALLOWED_USER_NAME",
        "TICKET_ALLOWED_GROUP_TICKET_ID", "TICKET_ALLOWED_GROUP_NAME", "TICKET_DATA_NAME",
        "TICKET_DATA_COLL_NAME", "TICKET_COLL_NAME", "TICKET_OWNER_NAME", "TICKET_OWNER_ZONE">>)

ColumnNumber ==
    LET numbers == ToSet(Numbers1 \o Numbers2 \o Numbers3)
    IN [name \in {row[1] : row \in numbers} |-> (CHOOSE row \in numbers : row[1] = name)[2]]

columnNames == Names1 \o Names2 \o Names3
=============================================================================
