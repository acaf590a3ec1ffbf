--------------------------- MODULE ApiPackTables ---------------------------
(***************************************************************************)
(* The inputs and outputs of the API calls: the pack instruction of each   *)
(* beside the members of the C structure that it is to describe.           *)
(***************************************************************************)
EXTENDS PackTables

Described(instruction, members) == [instruction |-> instruction, members |-> members]

DataObjInp_PI ==
    Described(
        Strs(<<"objPath">>, "MAX_NAME_LEN") \o Ints(<<"createMode", "openFlags">>) \o
        Doubles(<<"offset", "dataSize">>) \o Ints(<<"numThreads", "oprType">>) \o
        Pointers("struct", <<"SpecColl_PI">>) \o Structs(<<"KeyValPair_PI">>),
        Chars(<<"MAX_NAME_LEN">>) \o IntMembers(2) \o LongMembers(2) \o IntMembers(2) \o
        PointerMembers(1) \o Struct(keyValPair_t, 1))
OpenedDataObjInp_PI ==
    Described(
        Ints(<<"l1descInx", "len", "whence", "oprType">>) \o
        Doubles(<<"offset", "bytesWritten">>) \o Structs(<<"KeyValPair_PI">>),
        IntMembers(4) \o LongMembers(2) \o Struct(keyValPair_t, 1))
DataCopyInp_PI ==
    Described(
        Structs(<<"DataOprInp_PI", "PortalOprOut_PI">>),
        Struct(dataOprInp_t, 1) \o Struct(portalOprOut_t, 1))
DataObjCopyInp_PI ==
    Described(
        Structs(<<"DataObjInp_PI", "DataObjInp_PI">>),
        Struct(DataObjInp_PI.members, 1) \o Struct(DataObjInp_PI.members, 1))
fileOpenInp_PI ==
    Described(
        Strs(<<"resc_name_", "resc_hier_", "objPath">>, "MAX_NAME_LEN") \o
        Ints(<<"otherFlags">>) \o Structs(<<"RHostAddr_PI">>) \o
        Strs(<<"fileName">>, "MAX_NAME_LEN") \o Ints(<<"flags", "mode">>) \o
        Doubles(<<"dataSize">>) \o Structs(<<"KeyValPair_PI">>) \o
        Strs(<<"in_pdmo">>, "MAX_NAME_LEN"),
        Chars(<<"MAX_NAME_LEN", "MAX_NAME_LEN", "MAX_NAME_LEN">>) \o IntMembers(1) \o
        Struct(rodsHostAddr_t, 1) \o Chars(<<"MAX_NAME_LEN">>) \o IntMembers(2) \o
        LongMembers(1) \o Struct(keyValPair_t, 1) \o Chars(<<"MAX_NAME_LEN">>))
fileChksumInp_PI ==
    Described(
        Structs(<<"RHostAddr_PI">>) \o
        Strs(<<"fileName", "rescHier", "objPath">>, "MAX_NAME_LEN") \o Ints(<<"flags">>) \o
        Strs(<<"in_pdmo">>, "MAX_NAME_LEN") \o Strs(<<"orig_chksum">>, "NAME_LEN"),
        Struct(rodsHostAddr_t, 1) \o
        Chars(<<"MAX_NAME_LEN", "MAX_NAME_LEN", "MAX_NAME_LEN">>) \o IntMembers(1) \o
        Chars(<<"MAX_NAME_LEN", "NAME_LEN">>))
fileChksumOut_PI == Described(Strs(<<"chksumStr">>, "NAME_LEN"), Chars(<<"NAME_LEN">>))
fileLseekInp_PI ==
    Described(
        Ints(<<"fileInx">>) \o Doubles(<<"offset">>) \o Ints(<<"whence">>),
        IntMembers(1) \o LongMembers(1) \o IntMembers(1))
fileLseekOut_PI == Described(Doubles(<<"offset">>), LongMembers(1))
fileStatInp_PI ==
    Described(
        Structs(<<"RHostAddr_PI">>) \o
        Strs(<<"fileName", "rescHier", "objPath">>, "MAX_NAME_LEN") \o Doubles(<<"rescId">>),
        Struct(rodsHostAddr_t, 1) \o
        Chars(<<"MAX_NAME_LEN", "MAX_NAME_LEN", "MAX_NAME_LEN">>) \o LongMembers(1))
fileUnlinkInp_PI ==
    Described(
        Structs(<<"RHostAddr_PI">>) \o
        Strs(<<"fileName", "rescHier", "objPath", "in_pdmo">>, "MAX_NAME_LEN"),
        Struct(rodsHostAddr_t, 1) \o
        Chars(<<"MAX_NAME_LEN", "MAX_NAME_LEN", "MAX_NAME_LEN", "MAX_NAME_LEN">>))
fileReadInp_PI == Described(Ints(<<"fileInx", "len">>), IntMembers(2))
fileChmodInp_PI ==
    Described(
        Structs(<<"RHostAddr_PI">>) \o Strs(<<"fileName">>, "MAX_NAME_LEN") \o
        Ints(<<"mode">>) \o Strs(<<"rescHier", "objPath">>, "MAX_NAME_LEN"),
        Struct(rodsHostAddr_t, 1) \o Chars(<<"MAX_NAME_LEN">>) \o IntMembers(1) \o
        Chars(<<"MAX_NAME_LEN", "MAX_NAME_LEN">>))
fileCloseInp_PI ==
    Described(
        Ints(<<"fileInx">>) \o Strs(<<"in_pdmo">>, "MAX_NAME_LEN"),
        IntMembers(1) \o Chars(<<"MAX_NAME_LEN">>))
fileGetFsFreeSpaceInp_PI ==
    Described(
        Structs(<<"RHostAddr_PI">>) \o
        Strs(<<"fileName", "rescHier", "objPath">>, "MAX_NAME_LEN") \o Ints(<<"flag">>),
        Struct(rodsHostAddr_t, 1) \o
        Chars(<<"MAX_NAME_LEN", "MAX_NAME_LEN", "MAX_NAME_LEN">>) \o IntMembers(1))
fileGetFsFreeSpaceOut_PI == Described(Doubles(<<"size">>), LongMembers(1))
fileMkdirInp_PI ==
    Described(
        Structs(<<"RHostAddr_PI">>) \o Strs(<<"dirName", "rescHier">>, "MAX_NAME_LEN") \o
        Ints(<<"mode">>) \o Structs(<<"KeyValPair_PI">>),
        Struct(rodsHostAddr_t, 1) \o Chars(<<"MAX_NAME_LEN", "MAX_NAME_LEN">>) \o
        IntMembers(1) \o Struct(keyValPair_t, 1))
fileOpendirInp_PI ==
    Described(
        Strs(<<"resc_name_", "resc_hier_", "objPath">>, "MAX_NAME_LEN") \o
        Structs(<<"RHostAddr_PI">>) \o Strs(<<"dirName">>, "MAX_NAME_LEN"),
        Chars(<<"MAX_NAME_LEN", "MAX_NAME_LEN", "MAX_NAME_LEN">>) \o
        Struct(rodsHostAddr_t, 1) \o Chars(<<"MAX_NAME_LEN">>))
fileReaddirInp_PI == Described(Ints(<<"fileInx">>), IntMembers(1))
fileRenameInp_PI ==
    Described(
        Structs(<<"RHostAddr_PI">>) \o
        Strs(<<"oldFileName", "newFileName", "rescHier", "objPath">>, "MAX_NAME_LEN"),
        Struct(rodsHostAddr_t, 1) \o
        Chars(<<"MAX_NAME_LEN", "MAX_NAME_LEN", "MAX_NAME_LEN", "MAX_NAME_LEN">>))
fileRmdirInp_PI ==
    Described(
        Ints(<<"flag">>) \o Structs(<<"RHostAddr_PI">>) \o
        Strs(<<"dirName", "rescHier">>, "MAX_NAME_LEN"),
        IntMembers(1) \o Struct(rodsHostAddr_t, 1) \o
        Chars(<<"MAX_NAME_LEN", "MAX_NAME_LEN">>))
fileWriteInp_PI == Described(Ints(<<"fileInx", "len">>), IntMembers(2))
fileClosedirInp_PI == Described(Ints(<<"fileInx">>), IntMembers(1))
MiscSvrInfo_PI ==
    Described(
        Ints(<<"serverType", "serverBootTime">>) \o
        Strs(<<"relVersion", "apiVersion", "rodsZone">>, "NAME_LEN"),
        IntMembers(2) \o Chars(<<"NAME_LEN", "NAME_LEN", "NAME_LEN">>))
ModDataObjMeta_PI ==
    Described(
        Pointers("struct", <<"DataObjInfo_PI", "KeyValPair_PI">>),
        PointerMembers(2))
authRequestOut_PI ==
    Described(
        Buffers("bin", <<"challenge">>, "CHALLENGE_LEN"),
        PointerMembers(1))
authResponseInp_PI ==
    Described(
        Buffers("bin", <<"response">>, "RESPONSE_LEN") \o Pointers("str", <<"username">>),
        PointerMembers(2))
CollInpNew_PI ==
    Described(
        Strs(<<"collName">>, "MAX_NAME_LEN") \o Ints(<<"flags", "oprType">>) \o
        Structs(<<"KeyValPair_PI">>),
        Chars(<<"MAX_NAME_LEN">>) \o IntMembers(2) \o Struct(keyValPair_t, 1))
ExecMyRuleInp_PI ==
    Described(
        Strs(<<"myRule">>, "META_STR_LEN") \o Structs(<<"RHostAddr_PI", "KeyValPair_PI">>) \o
        Strs(<<"outParamDesc">>, "LONG_NAME_LEN") \o Pointers("struct", <<"MsParamArray_PI">>),
        Chars(<<"META_STR_LEN">>) \o Struct(rodsHostAddr_t, 1) \o Struct(keyValPair_t, 1) \o
        Chars(<<"LONG_NAME_LEN">>) \o PointerMembers(1))
simpleQueryInp_PI ==
    Described(
        Pointers("str", <<"sql", "arg1", "arg2", "arg3", "arg4">>) \o
        Ints(<<"control", "form", "maxBufSize">>),
        PointerMembers(5) \o IntMembers(3))
generalAdminInp_PI ==
    Described(
        Pointers("str", <<"arg0", "arg1", "arg2", "arg3", "arg4", "arg5", "arg6", "arg7",
            "arg8", "arg9">>),
        PointerMembers(10))
authCheckInp_PI ==
    Described(
        Pointers("str", <<"challenge", "response", "username">>),
        PointerMembers(3))
authCheckOut_PI ==
    Described(
        Ints(<<"privLevel", "clientPrivLevel">>) \o Pointers("str", <<"serverResponse">>),
        IntMembers(2) \o PointerMembers(1))
modAccessControlInp_PI ==
    Described(
        Ints(<<"recursiveFlag">>) \o
        Pointers("str", <<"accessLevel", "userName", "zone", "path">>),
        IntMembers(1) \o PointerMembers(4))
ModAVUMetadataInp_PI ==
    Described(
        Pointers("str", <<"arg0", "arg1", "arg2", "arg3", "arg4", "arg5", "arg6", "arg7",
            "arg8", "arg9">>),
        PointerMembers(10))
RULE_EXEC_MOD_INP_PI ==
    Described(
        Strs(<<"ruleId">>, "NAME_LEN") \o Structs(<<"KeyValPair_PI">>),
        Chars(<<"NAME_LEN">>) \o Struct(keyValPair_t, 1))
RULE_EXEC_DEL_INP_PI == Described(Strs(<<"ruleExecId">>, "NAME_LEN"), Chars(<<"NAME_LEN">>))
RULE_EXEC_SUBMIT_INP_PI ==
    Described(
        Strs(<<"ruleName">>, "META_STR_LEN") \o Strs(<<"reiFilePath">>, "MAX_NAME_LEN") \o
        Strs(<<"userName", "exeAddress">>, "NAME_LEN") \o Strs(<<"exeTime">>, "TIME_LEN") \o
        Strs(<<"exeFrequency", "priority", "lastExecTime", "exeStatus", "estimateExeTime",
            "notificationAddr">>, "NAME_LEN") \o
        Structs(<<"KeyValPair_PI">>) \o Pointers("struct", <<"BytesBuf_PI">>) \o
        Strs(<<"ruleExecId">>, "NAME_LEN"),
        Chars(<<"META_STR_LEN", "MAX_NAME_LEN", "NAME_LEN", "NAME_LEN", "TIME_LEN",
            "NAME_LEN", "NAME_LEN", "NAME_LEN", "NAME_LEN", "NAME_LEN", "NAME_LEN">>) \o
        Struct(keyValPair_t, 1) \o PointerMembers(1) \o Chars(<<"NAME_LEN">>))
simpleQueryOut_PI ==
    Described(
        Ints(<<"control">>) \o Pointers("str", <<"outBuf">>),
        IntMembers(1) \o PointerMembers(1))
RegReplica_PI ==
    Described(
        Pointers("struct", <<"DataObjInfo_PI", "DataObjInfo_PI">>) \o
        Structs(<<"KeyValPair_PI">>),
        PointerMembers(2) \o Struct(keyValPair_t, 1))
UnregDataObj_PI ==
    Described(
        Pointers("struct", <<"DataObjInfo_PI", "KeyValPair_PI">>),
        PointerMembers(2))
ExecCmd_PI ==
    Described(
        Strs(<<"cmd">>, "LONG_NAME_LEN") \o Strs(<<"cmdArgv">>, "HUGE_NAME_LEN") \o
        Strs(<<"execAddr">>, "LONG_NAME_LEN") \o Strs(<<"hintPath">>, "MAX_NAME_LEN") \o
        Ints(<<"addPathToArgv", "dummy">>) \o Structs(<<"KeyValPair_PI">>),
        Chars(<<"LONG_NAME_LEN", "HUGE_NAME_LEN", "LONG_NAME_LEN", "MAX_NAME_LEN">>) \o
        IntMembers(2) \o Struct(keyValPair_t, 1))
ExecCmdOut_PI ==
    Described(
        Structs(<<"BinBytesBuf_PI", "BinBytesBuf_PI">>) \o Ints(<<"status">>),
        Struct(bytesBuf_t, 1) \o Struct(bytesBuf_t, 1) \o IntMembers(1))
SubStructFileFdOpr_PI ==
    Described(
        Structs(<<"RHostAddr_PI">>) \o Ints(<<"type", "fd", "len">>),
        Struct(rodsHostAddr_t, 1) \o IntMembers(3) \o Chars(<<"MAX_NAME_LEN">>))
SubStructFileLseekInp_PI ==
    Described(
        Structs(<<"RHostAddr_PI">>) \o Ints(<<"type", "fd">>) \o Doubles(<<"offset">>) \o
        Ints(<<"whence">>),
        Struct(rodsHostAddr_t, 1) \o IntMembers(2) \o LongMembers(1) \o IntMembers(1) \o
        Chars(<<"MAX_NAME_LEN">>))
SubStructFileRenameInp_PI ==
    Described(
        Structs(<<"SubFile_PI">>) \o Strs(<<"newSubFilePath", "resc_hier">>, "MAX_NAME_LEN"),
        Struct(subFile_t, 1) \o Chars(<<"MAX_NAME_LEN", "MAX_NAME_LEN">>))
getTempPasswordOut_PI ==
    Described(
        Strs(<<"stringToHashWith">>, "MAX_PASSWORD_LEN"),
        Chars(<<"MAX_PASSWORD_LEN">>))
StructFileOprInp_PI ==
    Described(
        Structs(<<"RHostAddr_PI">>) \o Ints(<<"oprType", "flags">>) \o
        Pointers("struct", <<"SpecColl_PI">>) \o Structs(<<"KeyValPair_PI">>),
        Struct(rodsHostAddr_t, 1) \o IntMembers(2) \o PointerMembers(1) \o
        Struct(keyValPair_t, 1))
StructFileExtAndRegInp_PI ==
    Described(
        Strs(<<"objPath", "collection">>, "MAX_NAME_LEN") \o Ints(<<"oprType", "flags">>) \o
        Structs(<<"KeyValPair_PI">>),
        Chars(<<"MAX_NAME_LEN", "MAX_NAME_LEN">>) \o IntMembers(2) \o Struct(keyValPair_t, 1))
ChkObjPermAndStat_PI ==
    Described(
        Strs(<<"objPath">>, "MAX_NAME_LEN") \o Strs(<<"permission">>, "NAME_LEN") \o
        Ints(<<"flags", "status">>) \o Structs(<<"KeyValPair_PI">>),
        Chars(<<"MAX_NAME_LEN", "NAME_LEN">>) \o IntMembers(2) \o Struct(keyValPair_t, 1))
userAdminInp_PI ==
    Described(
        Pointers("str", <<"arg0", "arg1", "arg2", "arg3", "arg4", "arg5", "arg6", "arg7",
            "arg8", "arg9">>),
        PointerMembers(10))
OpenStat_PI ==
    Described(
        Doubles(<<"dataSize">>) \o Strs(<<"dataType">>, "NAME_LEN") \o
        Strs(<<"dataMode">>, "SHORT_STR_LEN") \o
        Ints(<<"l3descInx", "replStatus", "rescTypeInx", "replNum">>),
        LongMembers(1) \o Chars(<<"NAME_LEN", "SHORT_STR_LEN">>) \o IntMembers(4))
fileStageSyncInp_PI ==
    Described(
        Ints(<<"mode", "flags">>) \o Doubles(<<"dataSize">>) \o Structs(<<"RHostAddr_PI">>) \o
        Strs(<<"filename", "cacheFilename", "objPath", "rescHier">>, "MAX_NAME_LEN") \o
        Structs(<<"KeyValPair_PI">>),
        IntMembers(2) \o LongMembers(1) \o Struct(rodsHostAddr_t, 1) \o
        Chars(<<"MAX_NAME_LEN", "MAX_NAME_LEN", "MAX_NAME_LEN", "MAX_NAME_LEN">>) \o
        Struct(keyValPair_t, 1))
generalRowInsertInp_PI ==
    Described(
        Pointers("str", <<"tableName", "arg1", "arg2", "arg3", "arg4", "arg5", "arg6", "arg7",
            "arg8", "arg9">>),
        PointerMembers(11))
generalRowPurgeInp_PI ==
    Described(
        Pointers("str", <<"tableName", "secondsAgo">>),
        PointerMembers(2))
getRescQuotaInp_PI ==
    Described(
        Strs(<<"rescName", "userName">>, "NAME_LEN") \o
        Strs(<<"zoneHint">>, "MAX_NAME_LEN") \o Ints(<<"flags", "dummy">>) \o
        Structs(<<"KeyValPair_PI">>),
        Chars(<<"NAME_LEN", "NAME_LEN", "MAX_NAME_LEN">>) \o IntMembers(2) \o
        Struct(keyValPair_t, 1))
rescQuota_PI ==
    Described(
        Strs(<<"rescName", "userId">>, "NAME_LEN") \o Ints(<<"flags", "dummy">>) \o
        Doubles(<<"quotaLimit", "quotaOverrun">>) \o Pointers("struct", <<"rescQuota_PI">>),
        Chars(<<"NAME_LEN", "NAME_LEN">>) \o IntMembers(2) \o LongMembers(2) \o
        PointerMembers(1))
BulkOprInp_PI ==
    Described(
        Strs(<<"objPath">>, "MAX_NAME_LEN") \o Structs(<<"GenQueryOut_PI", "KeyValPair_PI">>),
        Chars(<<"MAX_NAME_LEN">>) \o Struct(genQueryOut_t, 1) \o Struct(keyValPair_t, 1))
endTransactionInp_PI == Described(Pointers("str", <<"arg0", "arg1">>), PointerMembers(2))
ProcStatInp_PI ==
    Described(
        Strs(<<"addr">>, "LONG_NAME_LEN") \o Strs(<<"rodsZone">>, "NAME_LEN") \o
        Structs(<<"KeyValPair_PI">>),
        Chars(<<"LONG_NAME_LEN", "NAME_LEN">>) \o Struct(keyValPair_t, 1))
specificQueryInp_PI ==
    Described(
        Pointers("str", <<"sql", "arg1", "arg2", "arg3", "arg4", "arg5", "arg6", "arg7",
            "arg8", "arg9", "arg10">>) \o
        Ints(<<"maxRows", "continueInx", "rowOffset", "options">>) \o
        Structs(<<"KeyValPair_PI">>),
        PointerMembers(11) \o IntMembers(4) \o Struct(keyValPair_t, 1))
ticketAdminInp_PI ==
    Described(
        Pointers("str", <<"arg1", "arg2", "arg3", "arg4", "arg5", "arg6">>),
        PointerMembers(6))
getTempPasswordForOtherInp_PI ==
    Described(
        Pointers("str", <<"targetUser", "unused">>),
        PointerMembers(2))
getTempPasswordForOtherOut_PI ==
    Described(
        Strs(<<"stringToHashWith">>, "MAX_PASSWORD_LEN"),
        Chars(<<"MAX_PASSWORD_LEN">>))
pamAuthRequestInp_PI ==
    Described(
        Pointers("str", <<"pamUser", "pamPassword">>) \o Ints(<<"timeToLive">>),
        PointerMembers(2) \o IntMembers(1))
pamAuthRequestOut_PI == Described(Pointers("str", <<"irodsPamPassword">>), PointerMembers(1))
authPlugReqInp_PI ==
    Described(
        Strs(<<"auth_scheme_", "context_">>, "MAX_NAME_LEN"),
        Chars(<<"MAX_NAME_LEN", "MAX_NAME_LEN">>))
authPlugReqOut_PI == Described(Strs(<<"result_">>, "MAX_NAME_LEN"), Chars(<<"MAX_NAME_LEN">>))
getHierarchyForRescInp_PI ==
    Described(
        Strs(<<"resc_name_">>, "MAX_NAME_LEN"),
        Chars(<<"MAX_NAME_LEN">>))
getHierarchyForRescOut_PI ==
    Described(
        Strs(<<"resc_hier_">>, "MAX_NAME_LEN"),
        Chars(<<"MAX_NAME_LEN">>))
sslStartInp_PI == Described(Pointers("str", <<"arg0">>), PointerMembers(1))
sslEndInp_PI == Described(Pointers("str", <<"arg0">>), PointerMembers(1))
getLimitedPasswordInp_PI ==
    Described(
        Ints(<<"ttl">>) \o Pointers("str", <<"unused1">>),
        IntMembers(1) \o PointerMembers(1))
getLimitedPasswordOut_PI ==
    Described(
        Strs(<<"stringToHashWith">>, "MAX_PASSWORD_LEN"),
        Chars(<<"MAX_PASSWORD_LEN">>))
fileSyncOut_PI == Described(Strs(<<"file_name">>, "MAX_NAME_LEN"), Chars(<<"MAX_NAME_LEN">>))
fileRenameOut_PI ==
    Described(
        Strs(<<"file_name">>, "MAX_NAME_LEN"),
        Chars(<<"MAX_NAME_LEN">>))
fileCreateOut_PI ==
    Described(
        Strs(<<"file_name">>, "MAX_NAME_LEN"),
        Chars(<<"MAX_NAME_LEN">>))
filePutOut_PI == Described(Strs(<<"file_name">>, "MAX_NAME_LEN"), Chars(<<"MAX_NAME_LEN">>))
GetHierInp_PI == Described(Doubles(<<"resc_id_">>), LongMembers(1))
GetHierOut_PI == Described(Strs(<<"hier_">>, "MAX_NAME_LEN"), Chars(<<"MAX_NAME_LEN">>))
SetRoundRobinContextInp_PI ==
    Described(
        Strs(<<"resc_name_">>, "NAME_LEN") \o Strs(<<"context_">>, "MAX_NAME_LEN"),
        Chars(<<"NAME_LEN", "MAX_NAME_LEN">>))
ExecRuleExpression_PI ==
    Described(
        Structs(<<"BytesBuf_PI", "BytesBuf_PI">>) \o Pointers("struct", <<"MsParamArray_PI">>),
        Struct(bytesBuf_t, 1) \o Struct(bytesBuf_t, 1) \o PointerMembers(1))
-----------------------------------------------------------------------------
\* generalUpdate is the one call whose instruction is in no table.
GeneralUpdateInp_PI ==
    Described(Ints(<<"type">>) \o Structs(<<"InxValPair_PI">>), IntMembers(1) \o Struct(inxValPair_t, 1))

ApiPackTable == [
    DataObjInp_PI |-> DataObjInp_PI, OpenedDataObjInp_PI |-> OpenedDataObjInp_PI,
    DataCopyInp_PI |-> DataCopyInp_PI, DataObjCopyInp_PI |-> DataObjCopyInp_PI,
    fileOpenInp_PI |-> fileOpenInp_PI, fileChksumInp_PI |-> fileChksumInp_PI,
    fileChksumOut_PI |-> fileChksumOut_PI, fileLseekInp_PI |-> fileLseekInp_PI,
    fileLseekOut_PI |-> fileLseekOut_PI, fileStatInp_PI |-> fileStatInp_PI,
    fileUnlinkInp_PI |-> fileUnlinkInp_PI, fileReadInp_PI |-> fileReadInp_PI,
    fileChmodInp_PI |-> fileChmodInp_PI, fileCloseInp_PI |-> fileCloseInp_PI,
    fileGetFsFreeSpaceInp_PI |-> fileGetFsFreeSpaceInp_PI,
    fileGetFsFreeSpaceOut_PI |-> fileGetFsFreeSpaceOut_PI,
    fileMkdirInp_PI |-> fileMkdirInp_PI, fileOpendirInp_PI |-> fileOpendirInp_PI,
    fileReaddirInp_PI |-> fileReaddirInp_PI, fileRenameInp_PI |-> fileRenameInp_PI,
    fileRmdirInp_PI |-> fileRmdirInp_PI, fileWriteInp_PI |-> fileWriteInp_PI,
    fileClosedirInp_PI |-> fileClosedirInp_PI, MiscSvrInfo_PI |-> MiscSvrInfo_PI,
    ModDataObjMeta_PI |-> ModDataObjMeta_PI, authRequestOut_PI |-> authRequestOut_PI,
    authResponseInp_PI |-> authResponseInp_PI, CollInpNew_PI |-> CollInpNew_PI,
    ExecMyRuleInp_PI |-> ExecMyRuleInp_PI, simpleQueryInp_PI |-> simpleQueryInp_PI,
    generalAdminInp_PI |-> generalAdminInp_PI, authCheckInp_PI |-> authCheckInp_PI,
    authCheckOut_PI |-> authCheckOut_PI, modAccessControlInp_PI |-> modAccessControlInp_PI,
    ModAVUMetadataInp_PI |-> ModAVUMetadataInp_PI,
    RULE_EXEC_MOD_INP_PI |-> RULE_EXEC_MOD_INP_PI,
    RULE_EXEC_DEL_INP_PI |-> RULE_EXEC_DEL_INP_PI,
    RULE_EXEC_SUBMIT_INP_PI |-> RULE_EXEC_SUBMIT_INP_PI,
    simpleQueryOut_PI |-> simpleQueryOut_PI, RegReplica_PI |-> RegReplica_PI,
    UnregDataObj_PI |-> UnregDataObj_PI, ExecCmd_PI |-> ExecCmd_PI,
    ExecCmdOut_PI |-> ExecCmdOut_PI, SubStructFileFdOpr_PI |-> SubStructFileFdOpr_PI,
    SubStructFileLseekInp_PI |-> SubStructFileLseekInp_PI,
    SubStructFileRenameInp_PI |-> SubStructFileRenameInp_PI,
    getTempPasswordOut_PI |-> getTempPasswordOut_PI,
    StructFileOprInp_PI |-> StructFileOprInp_PI,
    StructFileExtAndRegInp_PI |-> StructFileExtAndRegInp_PI,
    ChkObjPermAndStat_PI |-> ChkObjPermAndStat_PI, userAdminInp_PI |-> userAdminInp_PI,
    OpenStat_PI |-> OpenStat_PI, fileStageSyncInp_PI |-> fileStageSyncInp_PI,
    generalRowInsertInp_PI |-> generalRowInsertInp_PI,
    generalRowPurgeInp_PI |-> generalRowPurgeInp_PI,
    getRescQuotaInp_PI |-> getRescQuotaInp_PI, rescQuota_PI |-> rescQuota_PI,
    BulkOprInp_PI |-> BulkOprInp_PI, endTransactionInp_PI |-> endTransactionInp_PI,
    ProcStatInp_PI |-> ProcStatInp_PI, specificQueryInp_PI |-> specificQueryInp_PI,
    ticketAdminInp_PI |-> ticketAdminInp_PI,
    getTempPasswordForOtherInp_PI |-> getTempPasswordForOtherInp_PI,
    getTempPasswordForOtherOut_PI |-> getTempPasswordForOtherOut_PI,
    pamAuthRequestInp_PI |-> pamAuthRequestInp_PI,
    pamAuthRequestOut_PI |-> pamAuthRequestOut_PI, authPlugReqInp_PI |-> authPlugReqInp_PI,
    authPlugReqOut_PI |-> authPlugReqOut_PI,
    getHierarchyForRescInp_PI |-> getHierarchyForRescInp_PI,
    getHierarchyForRescOut_PI |-> getHierarchyForRescOut_PI,
    sslStartInp_PI |-> sslStartInp_PI, sslEndInp_PI |-> sslEndInp_PI,
    getLimitedPasswordInp_PI |-> getLimitedPasswordInp_PI,
    getLimitedPasswordOut_PI |-> getLimitedPasswordOut_PI, fileSyncOut_PI |-> fileSyncOut_PI,
    fileRenameOut_PI |-> fileRenameOut_PI, fileCreateOut_PI |-> fileCreateOut_PI,
    filePutOut_PI |-> filePutOut_PI, GetHierInp_PI |-> GetHierInp_PI,
    GetHierOut_PI |-> GetHierOut_PI,
    SetRoundRobinContextInp_PI |-> SetRoundRobinContextInp_PI,
    ExecRuleExpression_PI |-> ExecRuleExpression_PI]
=============================================================================
