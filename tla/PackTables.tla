----------------------------- MODULE PackTables -----------------------------
(***************************************************************************)
(* The pack instructions that every message of the library shares, and the *)
(* C structures they describe.  An instruction is the sequence of its      *)
(* tokens, a name with its dimensions [..] and hints (..) being one token; *)
(* a structure is the sequence of its members, of which only size and      *)
(* alignment matter.                                                       *)
(***************************************************************************)
EXTENDS Integers, Sequences, SequencesExt

\* n steps from base, and one step for each element of s.
Iterate(op(_, _), base, n) ==
    LET f[i \in 0 .. n] ==
          IF i = 0 THEN base ELSE CHOOSE x \in {op(acc, i) : acc \in {f[i - 1]}} : TRUE
    IN  f[n]
Fold(op(_, _), base, s) == Iterate(LAMBDA acc, i : op(acc, s[i]), base, Len(s))

Token(text, dims, hints, cases) ==
    [text |-> text, dims |-> dims, hints |-> hints, cases |-> cases]
Word(text) == Token(text, <<>>, <<>>, <<>>)

Item(type, mark, name, dims, hints) ==
    <<Word(type)>> \o (IF mark = "" THEN <<>> ELSE <<Word(mark)>>)
      \o <<Token(name, dims, hints, <<>>), Word(";")>>
Items(type, mark, names, dims, hints) ==
    Fold(LAMBDA items, name : items \o Item(type, mark, name, dims, hints), <<>>, names)

Plain(type, names) == Items(type, "", names, <<>>, <<>>)
Ints(names) == Plain("int", names)
Doubles(names) == Plain("double", names)
Structs(names) == Plain("struct", names)
Arrays(type, names, dim) == Items(type, "", names, <<dim>>, <<>>)
Strs(names, dim) == Arrays("str", names, dim)
Pointers(type, names) == Items(type, "*", names, <<>>, <<>>)
PointerArrays(type, names, dim) == Items(type, "*", names, <<dim>>, <<>>)
Buffers(type, names, hint) == Items(type, "*", names, <<>>, <<hint>>)
Kept(type, names) == Items(type, "$", names, <<>>, <<>>)

\* ?key *name; and %key:n,n=item:default=item;
Dependent(key, name) == <<Word("?"), Word(key), Word("*"), Word(name), Word(";")>>
ByCase(key, numbers, item, default) ==
    <<Word("%"),
      Token(key, <<>>, <<>>, <<[of |-> numbers, item |-> item], [of |-> {}, item |-> default]>>),
      Word(";")>>

\* Members of a C structure on LP64.
Member(size, count) == [size |-> size, count |-> count, of |-> <<>>]
IntMembers(n) == [i \in 1 .. n |-> Member(4, 1)]
LongMembers(n) == [i \in 1 .. n |-> Member(8, 1)]
PointerMembers(n) == [i \in 1 .. n |-> Member(8, 1)]
Struct(members, n) == <<[size |-> 0, count |-> n, of |-> members]>>
-----------------------------------------------------------------------------
PackConstantTable == [
    HEADER_TYPE_LEN |-> 128, NAME_LEN |-> 64, CHKSUM_LEN |-> 64, LONG_NAME_LEN |-> 256,
    MAX_NAME_LEN |-> 1088, SHORT_STR_LEN |-> 32, TIME_LEN |-> 32, DIR_LEN |-> 256,
    ERR_MSG_LEN |-> 1024, MAX_SQL_ATTR |-> 50, RULE_SET_DEF_LENGTH |-> 10880,
    META_STR_LEN |-> 20480, CHALLENGE_LEN |-> 64, RESPONSE_LEN |-> 16,
    MAX_PASSWORD_LEN |-> 50, MAX_ERROR_SIZE |-> 80, OBJID_DIM |-> 2, H5S_MAX_RANK |-> 32,
    H5DATASPACE_MAX_RANK |-> 32, HUGE_NAME_LEN |-> 100000, MAX_NUM_CONFIG_TRAN_THR |-> 64]

Chars(lengths) == [i \in DOMAIN lengths |-> Member(1, PackConstantTable[lengths[i]])]

RodsPackTable == [
    STR_PI |-> Plain("str", <<"myStr">>),
    IRODS_STR_PI |-> Strs(<<"myStr">>, "MAX_NAME_LEN"),
    STR_PTR_PI |-> Pointers("str", <<"myStr">>),
    INT_PI |-> Ints(<<"myInt">>),
    CHAR_PI |-> Plain("char", <<"myChar">>),
    DOUBLE_PI |-> Doubles(<<"myDouble">>),
    FLOAT_PI |-> Ints(<<"myInt">>),
    BOOL_PI |-> Ints(<<"myInt">>),
    BUF_LEN_PI |-> Ints(<<"myInt">>),
    INT16_PI |-> Plain("int16", <<"myInt">>),
    MsgHeader_PI |->
        Strs(<<"type">>, "HEADER_TYPE_LEN") \o
        Ints(<<"msgLen", "errorLen", "bsLen", "intInfo">>),
    StartupPack_PI |->
        Ints(<<"irodsProt", "reconnFlag", "connectCnt">>) \o
        Strs(<<"proxyUser", "proxyRcatZone", "clientUser", "clientRcatZone", "relVersion",
            "apiVersion">>, "NAME_LEN") \o
        Strs(<<"option">>, "LONG_NAME_LEN"),
    Version_PI |->
        Ints(<<"status">>) \o Strs(<<"relVersion", "apiVersion">>, "NAME_LEN") \o
        Ints(<<"reconnPort">>) \o Strs(<<"reconnAddr">>, "LONG_NAME_LEN") \o
        Ints(<<"cookie">>),
    RErrMsg_PI |-> Ints(<<"status">>) \o Strs(<<"msg">>, "ERR_MSG_LEN"),
    RError_PI |-> Ints(<<"count">>) \o PointerArrays("struct", <<"RErrMsg_PI">>, "count"),
    RHostAddr_PI |->
        Strs(<<"hostAddr">>, "LONG_NAME_LEN") \o Strs(<<"rodsZone">>, "NAME_LEN") \o
        Ints(<<"port", "dummyInt">>),
    RODS_STAT_T_PI |->
        Doubles(<<"st_size">>) \o
        Ints(<<"st_dev", "st_ino", "st_mode", "st_nlink", "st_uid", "st_gid", "st_rdev",
            "st_atim", "st_mtim", "st_ctim", "st_blksize", "st_blocks">>),
    RODS_DIRENT_T_PI |->
        Ints(<<"d_offset", "d_ino", "d_reclen", "d_namlen">>) \o Strs(<<"d_name">>, "DIR_LEN"),
    KeyValPair_PI |->
        Ints(<<"ssLen">>) \o PointerArrays("str", <<"keyWord", "svalue">>, "ssLen"),
    InxIvalPair_PI |-> Ints(<<"iiLen">>) \o Buffers("int", <<"inx", "ivalue">>, "iiLen"),
    InxValPair_PI |->
        Ints(<<"isLen">>) \o Buffers("int", <<"inx">>, "isLen") \o
        PointerArrays("str", <<"svalue">>, "isLen"),
    PortList_PI |->
        Ints(<<"portNum", "cookie", "sock", "windowSize">>) \o
        Strs(<<"hostAddr">>, "LONG_NAME_LEN"),
    PortalOprOut_PI |->
        Ints(<<"status", "l1descInx", "numThreads">>) \o Strs(<<"chksum">>, "NAME_LEN") \o
        Structs(<<"PortList_PI">>),
    DataOprInp_PI |->
        Ints(<<"oprType", "numThreads", "srcL3descInx", "destL3descInx", "srcRescTypeInx",
            "destRescTypeInx">>) \o
        Doubles(<<"offset", "dataSize">>) \o Structs(<<"KeyValPair_PI">>),
    GenQueryInp_PI |->
        Ints(<<"maxRows", "continueInx", "partialStartIndex", "options">>) \o
        Structs(<<"KeyValPair_PI", "InxIvalPair_PI", "InxValPair_PI">>),
    SqlResult_PI |->
        Ints(<<"attriInx", "reslen">>) \o
        Item("str", "*", "value", <<>>, <<"rowCnt", "reslen">>),
    GenQueryOut_PI |->
        Ints(<<"rowCnt", "attriCnt", "continueInx", "totalRowCount">>) \o
        Arrays("struct", <<"SqlResult_PI">>, "MAX_SQL_ATTR"),
    DataObjInfo_PI |->
        Strs(<<"objPath">>, "MAX_NAME_LEN") \o Strs(<<"rescName">>, "NAME_LEN") \o
        Strs(<<"rescHier">>, "MAX_NAME_LEN") \o Strs(<<"dataType">>, "NAME_LEN") \o
        Doubles(<<"dataSize">>) \o Strs(<<"chksum", "version">>, "NAME_LEN") \o
        Strs(<<"filePath">>, "MAX_NAME_LEN") \o
        Strs(<<"dataOwnerName", "dataOwnerZone">>, "NAME_LEN") \o
        Ints(<<"replNum", "replStatus">>) \o Strs(<<"statusString">>, "NAME_LEN") \o
        Doubles(<<"dataId", "collId">>) \o Ints(<<"dataMapId", "flags">>) \o
        Strs(<<"dataComments">>, "LONG_NAME_LEN") \o Strs(<<"dataMode">>, "SHORT_STR_LEN") \o
        Strs(<<"dataExpiry", "dataCreate", "dataModify">>, "TIME_LEN") \o
        Strs(<<"dataAccess">>, "NAME_LEN") \o Ints(<<"dataAccessInx", "writeFlag">>) \o
        Strs(<<"destRescName", "backupRescName">>, "NAME_LEN") \o
        Strs(<<"subPath">>, "MAX_NAME_LEN") \o Pointers("int", <<"specColl">>) \o
        Ints(<<"regUid", "otherFlags">>) \o Structs(<<"KeyValPair_PI">>) \o
        Strs(<<"in_pdmo">>, "MAX_NAME_LEN") \o Pointers("int", <<"next">>) \o
        Doubles(<<"rescId">>),
    TransStat_PI |-> Ints(<<"numThreads">>) \o Doubles(<<"bytesWritten">>),
    TransferStat_PI |-> Ints(<<"numThreads", "flags">>) \o Doubles(<<"bytesWritten">>),
    AuthInfo_PI |->
        Strs(<<"authScheme">>, "NAME_LEN") \o Ints(<<"authFlag", "flag", "ppid">>) \o
        Strs(<<"host", "authStr">>, "NAME_LEN"),
    UserOtherInfo_PI |->
        Strs(<<"userInfo", "userComments">>, "NAME_LEN") \o
        Strs(<<"userCreate", "userModify">>, "TIME_LEN"),
    UserInfo_PI |->
        Strs(<<"userName", "rodsZone", "userType">>, "NAME_LEN") \o Ints(<<"sysUid">>) \o
        Structs(<<"AuthInfo_PI", "UserOtherInfo_PI">>),
    CollInfo_PI |->
        Doubles(<<"collId">>) \o Strs(<<"collName", "collParentName">>, "MAX_NAME_LEN") \o
        Strs(<<"collOwnerName", "collOwnerZone">>, "NAME_LEN") \o
        Ints(<<"collMapId", "collAccessInx">>) \o
        Strs(<<"collComments", "collInheritance">>, "LONG_NAME_LEN") \o
        Strs(<<"collExpiry", "collCreate", "collModify">>, "TIME_LEN") \o
        Strs(<<"collAccess", "collType">>, "NAME_LEN") \o
        Strs(<<"collInfo1", "collInfo2">>, "MAX_NAME_LEN") \o Structs(<<"KeyValPair_PI">>) \o
        Pointers("int", <<"next">>),
    Rei_PI |->
        Ints(<<"status">>) \o Strs(<<"statusStr">>, "MAX_NAME_LEN") \o
        Strs(<<"ruleName">>, "NAME_LEN") \o Pointers("int", <<"rsComm">>) \o
        Strs(<<"pluginInstanceName">>, "MAX_NAME_LEN") \o
        Pointers("struct", <<"MsParamArray_PI">>) \o Structs(<<"MsParamArray_PI">>) \o
        Ints(<<"l1descInx">>) \o Pointers("struct", <<"DataObjInp_PI", "DataObjInfo_PI">>) \o
        Strs(<<"rescName">>, "NAME_LEN") \o
        Pointers("struct", <<"UserInfo_PI", "UserInfo_PI", "CollInfo_PI", "UserInfo_PI",
            "KeyValPair_PI">>) \o
        Strs(<<"ruleSet">>, "RULE_SET_DEF_LENGTH") \o Pointers("int", <<"next">>),
    ReArg_PI |-> Ints(<<"myArgc">>) \o PointerArrays("str", <<"myArgv">>, "myArgc"),
    ReiAndArg_PI |-> Pointers("struct", <<"Rei_PI">>) \o Structs(<<"ReArg_PI">>),
    BytesBuf_PI |-> Ints(<<"buflen">>) \o Buffers("char", <<"buf">>, "buflen"),
    charDataArray_PI |-> Ints(<<"type", "len">>) \o Buffers("char", <<"buf">>, "len"),
    strDataArray_PI |-> Ints(<<"type", "len">>) \o PointerArrays("str", <<"buf">>, "len"),
    intDataArray_PI |-> Ints(<<"type", "len">>) \o Buffers("int", <<"buf">>, "len"),
    int16DataArray_PI |-> Ints(<<"type", "len">>) \o Buffers("int16", <<"buf">>, "len"),
    int64DataArray_PI |-> Ints(<<"type", "len">>) \o Buffers("double", <<"buf">>, "len"),
    BinBytesBuf_PI |-> Ints(<<"buflen">>) \o Buffers("bin", <<"buf">>, "buflen"),
    MsParam_PI |->
        Pointers("str", <<"label">>) \o Pointers("piStr", <<"type">>) \o
        Dependent("type", "inOutStruct") \o Pointers("struct", <<"BinBytesBuf_PI">>),
    MsParamArray_PI |->
        Ints(<<"paramLen", "oprType">>) \o
        PointerArrays("struct", <<"MsParam_PI">>, "paramLen"),
    TagStruct_PI |->
        Ints(<<"ssLen">>) \o PointerArrays("str", <<"preTag", "postTag", "keyWord">>, "ssLen"),
    RodsObjStat_PI |->
        Doubles(<<"objSize">>) \o Ints(<<"objType", "dataMode">>) \o
        Strs(<<"dataId", "chksum", "ownerName", "ownerZone">>, "NAME_LEN") \o
        Strs(<<"createTime", "modifyTime">>, "TIME_LEN") \o
        Pointers("struct", <<"SpecColl_PI">>),
    ReconnMsg_PI |-> Ints(<<"status", "cookie", "procState", "flag">>),
    VaultPathPolicy_PI |-> Ints(<<"scheme", "addUserName", "trimDirCnt">>),
    IntArray_PI |-> Ints(<<"len">>) \o Buffers("int", <<"value">>, "len"),
    SpecColl_PI |->
        Ints(<<"collClass", "type">>) \o Strs(<<"collection", "objPath">>, "MAX_NAME_LEN") \o
        Strs(<<"resource">>, "NAME_LEN") \o
        Strs(<<"rescHier", "phyPath", "cacheDir">>, "MAX_NAME_LEN") \o
        Ints(<<"cacheDirty", "replNum">>),
    SubFile_PI |->
        Structs(<<"RHostAddr_PI">>) \o Strs(<<"subFilePath">>, "MAX_NAME_LEN") \o
        Ints(<<"mode", "flags">>) \o Doubles(<<"offset">>) \o
        Pointers("struct", <<"SpecColl_PI">>),
    h5File_PI |->
        Ints(<<"fopID">>) \o Pointers("str", <<"filename">>) \o Ints(<<"ffid">>) \o
        Pointers("struct", <<"h5Group_PI">>) \o Structs(<<"h5error_PI">>) \o Ints(<<"ftime">>),
    h5error_PI |-> Strs(<<"major", "minor">>, "MAX_ERROR_SIZE"),
    h5Group_PI |->
        Ints(<<"gopID", "gfid">>) \o Arrays("int", <<"gobjID">>, "OBJID_DIM") \o
        Pointers("str", <<"gfullpath">>) \o Kept("int", <<"dummyParent">>) \o
        Ints(<<"nGroupMembers">>) \o Buffers("struct", <<"h5Group_PI">>, "nGroupMembers") \o
        Ints(<<"nDatasetMembers">>) \o
        Buffers("struct", <<"h5Dataset_PI">>, "nDatasetMembers") \o Ints(<<"nattributes">>) \o
        Buffers("struct", <<"h5Attribute_PI">>, "nattributes") \o Structs(<<"h5error_PI">>) \o
        Ints(<<"gtime">>),
    h5Attribute_PI |->
        Ints(<<"aopID", "afid">>) \o Pointers("str", <<"aname", "aobj_path">>) \o
        Ints(<<"aobj_type", "aclass">>) \o Structs(<<"h5Datatype_PI", "h5Dataspace_PI">>) \o
        Ints(<<"nvalue">>) \o
        ByCase("aclass", {3, 6, 9}, PointerArrays("str", <<"value">>, "nvalue"),
            Buffers("char", <<"value">>, "nvalue")) \o
        Structs(<<"h5error_PI">>),
    h5Dataset_PI |->
        Ints(<<"dopID", "dfid">>) \o Arrays("int", <<"dobjID">>, "OBJID_DIM") \o
        Ints(<<"dclass", "nattributes">>) \o Pointers("str", <<"dfullpath">>) \o
        Buffers("struct", <<"h5Attribute_PI">>, "nattributes") \o
        Structs(<<"h5Datatype_PI", "h5Dataspace_PI">>) \o Ints(<<"nvalue", "dtime">>) \o
        ByCase("dclass", {3, 6, 9}, PointerArrays("str", <<"value">>, "nvalue"),
            Buffers("char", <<"value">>, "nvalue")) \o
        Structs(<<"h5error_PI">>),
    h5Datatype_PI |->
        Ints(<<"tclass", "torder", "tsign", "tsize", "ntmenbers">>) \o
        Buffers("int", <<"mtypes">>, "ntmenbers") \o
        PointerArrays("str", <<"mnames">>, "ntmenbers"),
    h5Dataspace_PI |->
        Ints(<<"rank">>) \o Arrays("int", <<"dims">>, "H5S_MAX_RANK") \o
        Ints(<<"npoints">>) \o
        Arrays("int", <<"start", "stride", "count">>, "H5DATASPACE_MAX_RANK"),
    CollEnt_PI |->
        Ints(<<"objType", "replNum", "replStatus", "dataMode">>) \o Doubles(<<"dataSize">>) \o
        Kept("str", <<"collName", "dataName", "dataId", "createTime", "modifyTime", "chksum",
            "resource", "resc_hier", "phyPath", "ownerName", "dataType">>) \o
        Structs(<<"SpecColl_PI">>),
    CollOprStat_PI |->
        Ints(<<"filesCnt", "totalFileCnt">>) \o Doubles(<<"bytesWritten">>) \o
        Strs(<<"lastObjPath">>, "MAX_NAME_LEN"),
    RuleStruct_PI |->
        Ints(<<"maxNumOfRules">>) \o
        PointerArrays("str", <<"ruleBase", "action", "ruleHead", "ruleCondition",
            "ruleAction", "ruleRecovery">>, "maxNumOfRules") \o
        Arrays("double", <<"ruleId">>, "maxNumOfRules"),
    DVMapStruct_PI |->
        Ints(<<"maxNumOfDVars">>) \o
        PointerArrays("str", <<"varName", "action", "var2CMap">>, "maxNumOfDVars") \o
        Arrays("double", <<"varId">>, "maxNumOfDVars"),
    FNMapStruct_PI |->
        Ints(<<"maxNumOfFMaps">>) \o
        PointerArrays("str", <<"funcName", "func2CMap">>, "maxNumOfFMaps") \o
        Arrays("double", <<"fmapId">>, "maxNumOfFMaps"),
    MsrvcStruct_PI |->
        Ints(<<"maxNumOfMsrvcs">>) \o Arrays("double", <<"msrvcId">>, "maxNumOfMsrvcs") \o
        Strs(<<"moduleName", "msrvcName", "msrvcSiganture", "msrvcVersion", "msrvcHost",
            "msrvcLocation", "msrvcLanguage", "msrvcTypeName">>, "maxNumOfMsrvcs") \o
        Arrays("double", <<"msrvcStatus">>, "maxNumOfMsrvcs"),
    DataSeg_PI |-> Doubles(<<"len", "offset">>),
    FileRestartInfo_PI |->
        Strs(<<"fileName", "objPath">>, "MAX_NAME_LEN") \o Ints(<<"numSeg", "flags">>) \o
        Doubles(<<"fileSize">>) \o Arrays("struct", <<"DataSeg_PI">>, "numSeg"),
    CS_NEG_PI |-> Ints(<<"status">>) \o Strs(<<"result">>, "MAX_NAME_LEN"),
    StrArray_PI |->
        Ints(<<"len", "size">>) \o Item("str", "*", "value", <<>>, <<"len", "size">>)]
-----------------------------------------------------------------------------
\* The structures of these instructions.
msgHeader_t == Chars(<<"HEADER_TYPE_LEN">>) \o IntMembers(4)
startupPack_t ==
    IntMembers(3) \o
    Chars(<<"NAME_LEN", "NAME_LEN", "NAME_LEN", "NAME_LEN", "NAME_LEN", "NAME_LEN",
        "LONG_NAME_LEN">>)
version_t ==
    IntMembers(1) \o Chars(<<"NAME_LEN", "NAME_LEN">>) \o IntMembers(1) \o
    Chars(<<"LONG_NAME_LEN">>) \o IntMembers(1)
rErrMsg_t == IntMembers(1) \o Chars(<<"ERR_MSG_LEN">>)
rError_t == IntMembers(1) \o PointerMembers(1)
rodsHostAddr_t == Chars(<<"LONG_NAME_LEN", "NAME_LEN">>) \o IntMembers(2)
rodsStat_t == LongMembers(1) \o IntMembers(12)
rodsDirent_t == IntMembers(4) \o Chars(<<"DIR_LEN">>)
keyValPair_t == IntMembers(1) \o PointerMembers(2)
inxIvalPair_t == IntMembers(1) \o PointerMembers(2)
inxValPair_t == IntMembers(1) \o PointerMembers(2)
portList_t == IntMembers(4) \o Chars(<<"LONG_NAME_LEN">>)
portalOprOut_t == IntMembers(3) \o Chars(<<"NAME_LEN">>) \o Struct(portList_t, 1)
dataOprInp_t == IntMembers(6) \o LongMembers(2) \o Struct(keyValPair_t, 1)
genQueryInp_t ==
    IntMembers(4) \o Struct(keyValPair_t, 1) \o Struct(inxIvalPair_t, 1) \o
    Struct(inxValPair_t, 1)
sqlResult_t == IntMembers(2) \o PointerMembers(1)
genQueryOut_t == IntMembers(4) \o Struct(sqlResult_t, PackConstantTable.MAX_SQL_ATTR)
dataObjInfo_t ==
    Chars(<<"MAX_NAME_LEN", "NAME_LEN", "MAX_NAME_LEN", "NAME_LEN">>) \o LongMembers(1) \o
    Chars(<<"NAME_LEN", "NAME_LEN", "MAX_NAME_LEN", "NAME_LEN", "NAME_LEN">>) \o
    IntMembers(2) \o Chars(<<"NAME_LEN">>) \o LongMembers(2) \o IntMembers(2) \o
    Chars(<<"LONG_NAME_LEN", "SHORT_STR_LEN", "TIME_LEN", "TIME_LEN", "TIME_LEN",
        "NAME_LEN">>) \o
    IntMembers(2) \o Chars(<<"NAME_LEN", "NAME_LEN", "MAX_NAME_LEN">>) \o PointerMembers(1) \o
    IntMembers(2) \o Struct(keyValPair_t, 1) \o Chars(<<"MAX_NAME_LEN">>) \o
    PointerMembers(1) \o LongMembers(1)
transStat_t == IntMembers(1) \o LongMembers(1)
transferStat_t == IntMembers(2) \o LongMembers(1)
authInfo_t == Chars(<<"NAME_LEN">>) \o IntMembers(3) \o Chars(<<"NAME_LEN", "NAME_LEN">>)
userOtherInfo_t == Chars(<<"NAME_LEN", "NAME_LEN", "TIME_LEN", "TIME_LEN">>)
userInfo_t ==
    Chars(<<"NAME_LEN", "NAME_LEN", "NAME_LEN">>) \o IntMembers(1) \o Struct(authInfo_t, 1) \o
    Struct(userOtherInfo_t, 1)
collInfo_t ==
    LongMembers(1) \o Chars(<<"MAX_NAME_LEN", "MAX_NAME_LEN", "NAME_LEN", "NAME_LEN">>) \o
    IntMembers(2) \o
    Chars(<<"LONG_NAME_LEN", "LONG_NAME_LEN", "TIME_LEN", "TIME_LEN", "TIME_LEN", "NAME_LEN",
        "NAME_LEN", "MAX_NAME_LEN", "MAX_NAME_LEN">>) \o
    Struct(keyValPair_t, 1) \o PointerMembers(1)
bytesBuf_t == IntMembers(1) \o PointerMembers(1)
msParam_t == PointerMembers(4)
msParamArray_t == IntMembers(2) \o PointerMembers(1)
tagStruct_t == IntMembers(1) \o PointerMembers(3)
rodsObjStat_t ==
    LongMembers(1) \o IntMembers(2) \o
    Chars(<<"NAME_LEN", "NAME_LEN", "NAME_LEN", "NAME_LEN", "TIME_LEN", "TIME_LEN">>) \o
    PointerMembers(1) \o Chars(<<"MAX_NAME_LEN">>)
reconnMsg_t == IntMembers(4)
vaultPathPolicy_t == IntMembers(3)
intArray_t == IntMembers(1) \o PointerMembers(1)
specColl_t ==
    IntMembers(2) \o
    Chars(<<"MAX_NAME_LEN", "MAX_NAME_LEN", "NAME_LEN", "MAX_NAME_LEN", "MAX_NAME_LEN",
        "MAX_NAME_LEN">>) \o
    IntMembers(2)
subFile_t ==
    Struct(rodsHostAddr_t, 1) \o Chars(<<"MAX_NAME_LEN">>) \o IntMembers(2) \o
    LongMembers(1) \o PointerMembers(1)
collEnt_t == IntMembers(4) \o LongMembers(1) \o PointerMembers(11) \o Struct(specColl_t, 1)
collOprStat_t == IntMembers(2) \o LongMembers(1) \o Chars(<<"MAX_NAME_LEN">>)
dataSeg_t == LongMembers(2)
fileRestartInfo_t ==
    Chars(<<"MAX_NAME_LEN", "MAX_NAME_LEN">>) \o IntMembers(2) \o LongMembers(1) \o
    Struct(dataSeg_t, PackConstantTable.MAX_NUM_CONFIG_TRAN_THR)
cs_neg_t == IntMembers(1) \o Chars(<<"MAX_NAME_LEN">>)
strArray_t == IntMembers(2) \o PointerMembers(1)

RodsStructures == [
    MsgHeader_PI |-> msgHeader_t, StartupPack_PI |-> startupPack_t, Version_PI |-> version_t,
    RErrMsg_PI |-> rErrMsg_t, RError_PI |-> rError_t, RHostAddr_PI |-> rodsHostAddr_t,
    RODS_STAT_T_PI |-> rodsStat_t, RODS_DIRENT_T_PI |-> rodsDirent_t,
    KeyValPair_PI |-> keyValPair_t, InxIvalPair_PI |-> inxIvalPair_t,
    InxValPair_PI |-> inxValPair_t, PortList_PI |-> portList_t,
    PortalOprOut_PI |-> portalOprOut_t, DataOprInp_PI |-> dataOprInp_t,
    GenQueryInp_PI |-> genQueryInp_t, SqlResult_PI |-> sqlResult_t,
    GenQueryOut_PI |-> genQueryOut_t, DataObjInfo_PI |-> dataObjInfo_t,
    TransStat_PI |-> transStat_t, TransferStat_PI |-> transferStat_t,
    AuthInfo_PI |-> authInfo_t, UserOtherInfo_PI |-> userOtherInfo_t,
    UserInfo_PI |-> userInfo_t, CollInfo_PI |-> collInfo_t, BytesBuf_PI |-> bytesBuf_t,
    BinBytesBuf_PI |-> bytesBuf_t, MsParam_PI |-> msParam_t,
    MsParamArray_PI |-> msParamArray_t, TagStruct_PI |-> tagStruct_t,
    RodsObjStat_PI |-> rodsObjStat_t, ReconnMsg_PI |-> reconnMsg_t,
    VaultPathPolicy_PI |-> vaultPathPolicy_t, IntArray_PI |-> intArray_t,
    SpecColl_PI |-> specColl_t, SubFile_PI |-> subFile_t, CollEnt_PI |-> collEnt_t,
    CollOprStat_PI |-> collOprStat_t, DataSeg_PI |-> dataSeg_t,
    FileRestartInfo_PI |-> fileRestartInfo_t, CS_NEG_PI |-> cs_neg_t,
    StrArray_PI |-> strArray_t]
=============================================================================
