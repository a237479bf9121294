---------------------------- MODULE DriverConfig ----------------------------
(***************************************************************************)
(* The driver's connection settings: the DriverConfig class and its        *)
(* setters (src/src/driver/config/driverConfig.cpp), the conversions to    *)
(* and from key/value pairs, the ODBC.INI profile reader                   *)
(* (profileReader.cpp) and the DPAPI wrappers it uses (util/cryptUtils.cpp)*)
(* and Connection::checkInputs (driver/handles/connHandle.cpp).            *)
(*                                                                         *)
(* A text is "" or one of the values in Vals.  Decimal maps the port       *)
(* texts that start with digits to the number std::stoi reads from them;   *)
(* any other text has no leading digits.  A key/value map is a TLA+        *)
(* function whose domain is the set of keys present.  capitalizedCase (not *)
(* in the sources) is left out: names are given in their canonical case.   *)
(***************************************************************************)
EXTENDS Integers, Sequences

CONSTANTS
    Vals,     \* non-empty texts a user or a profile may give a string field
    Decimal,  \* [text -> Int]: port texts with leading digits, and their value
    Users     \* the Windows accounts (strings) that encrypt and decrypt

Texts == Vals \cup {""}

LogLevelNames == {"None", "Error", "Warn", "Info", "Debug", "Trace"}
AuthNames == {"No Auth", "External Auth", "Oidc Client Cred Auth",
              "Device Code", "Username And Password"}
OidcMethodNames == {"Url", "User Input"}

\* An OidcEndpointMethod enumerator assigned to a std::string becomes the
\* one-character string holding the enumerator's value.
OemChar(m) == IF m = "Url" THEN "<char OEM_URL>" ELSE "<char OEM_USER_INPUT>"

(***************************************************************************)
(* DriverConfig (driverConfig.hpp 63-84): the initial member values.       *)
(***************************************************************************)
DefaultConfig ==
    [dsn |-> "", driver |-> "", hostname |-> "", port |-> 0,
     logLevel |-> "None", authMethod |-> "No Auth", oidcDiscoveryUrl |-> "",
     clientId |-> "", clientSecret |-> "", oidcScope |-> "",
     tokenEndpoint |-> "", grantType |-> "", authEndpoint |-> "",
     userName |-> "", password |-> "", oidcMethod |-> "Url", isSaved |-> FALSE]

(***************************************************************************)
(* The string setters.  setPort uses std::stoi, which throws on a text     *)
(* with no leading digits, and stores the int in a uint16_t (modulo 2^16). *)
(* The name setters look the name up with .at(), which throws on an        *)
(* unknown name.  setOidcEndpointMethod(string) stores the looked-up       *)
(* enumerator into oidcScope, not oidcMethod.                              *)
(***************************************************************************)
\* std::to_string of a uint16_t.
PortStr(n) == CHOOSE t \in DOMAIN Decimal : Decimal[t] = n

\* The member each string setter writes.
Target ==
    [setDSN |-> "dsn", setDriver |-> "driver", setHostname |-> "hostname",
     setPort |-> "port", setLogLevel |-> "logLevel",
     setAuthMethod |-> "authMethod", setOidcDiscoveryUrl |-> "oidcDiscoveryUrl",
     setClientId |-> "clientId", setClientSecret |-> "clientSecret",
     setOidcScope |-> "oidcScope", setGrantType |-> "grantType",
     setTokenEndpoint |-> "tokenEndpoint", setAuthEndpoint |-> "authEndpoint",
     setUsername |-> "userName", setPassword |-> "password",
     setOidcEndpointMethod |-> "oidcScope"]

ConvertedNoWrap(setter, t) ==
    CASE setter = "setPort" -> IF t \in DOMAIN Decimal THEN {Decimal[t]} ELSE {}
      [] setter = "setLogLevel" -> {t} \cap LogLevelNames
      [] setter = "setAuthMethod" -> {t} \cap AuthNames
      [] setter = "setOidcEndpointMethod" ->
           IF t \in OidcMethodNames THEN {OemChar(t)} ELSE {}
      [] OTHER -> {t}

\* The value a string setter stores for text t: a singleton, or {} when
\* the setter throws.
Converted(setter, t) ==
    CASE setter = "setPort" ->
           IF t \in DOMAIN Decimal THEN {Decimal[t] % 65536} ELSE {}
      [] setter = "setLogLevel" -> {t} \cap LogLevelNames
      [] setter = "setAuthMethod" -> {t} \cap AuthNames
      [] setter = "setOidcEndpointMethod" ->
           IF t \in OidcMethodNames THEN {OemChar(t)} ELSE {}
      [] OTHER -> {t}

\* A sequence of setter calls <<setter, text>> on config c, stopping at the
\* first one that throws: the config as far as it got, and whether all ran.
RECURSIVE ApplyCalls(_, _)
ApplyCalls(c, calls) ==
    IF calls = <<>> THEN [ok |-> TRUE, cfg |-> c]
    ELSE LET v == Converted(Head(calls)[1], Head(calls)[2]) IN
         IF v = {} THEN [ok |-> FALSE, cfg |-> c]
         ELSE ApplyCalls([c EXCEPT ![Target[Head(calls)[1]]] = CHOOSE x \in v : TRUE],
                         Tail(calls))

\* The calls made for the keys of table present in map kvps, in table order.
CallsFor(table, kvps) ==
    LET present == SelectSeq(table, LAMBDA e : e[1] \in DOMAIN kvps)
    IN  [i \in 1..Len(present) |-> <<present[i][2], kvps[present[i][1]]>>]

(***************************************************************************)
(* driverConfigFromKVPs (257-327): the if-blocks in order; a lowercase key *)
(* comes after its camelCase twin and so overrides it.                     *)
(***************************************************************************)
KVPTable ==
    << <<"dsn", "setDSN">>, <<"driver", "setDriver">>,
       <<"hostname", "setHostname">>, <<"port", "setPort">>,
       <<"loglevel", "setLogLevel">>, <<"authmethod", "setAuthMethod">>,
       <<"oidcDiscoveryUrl", "setOidcDiscoveryUrl">>,
       <<"oidcdiscoveryurl", "setOidcDiscoveryUrl">>,
       <<"clientId", "setClientId">>, <<"clientid", "setClientId">>,
       <<"clientSecret", "setClientSecret">>, <<"clientsecret", "setClientSecret">>,
       <<"oidcScope", "setOidcScope">>, <<"oidcscope", "setOidcScope">>,
       <<"granttype", "setGrantType">>, <<"tokenendpoint", "setTokenEndpoint">>,
       <<"authenticationendpoint", "setAuthEndpoint">>,
       <<"userName", "setUsername">>, <<"password", "setPassword">>,
       <<"oidcDicoveryMethod", "setOidcEndpointMethod">> >>

DriverConfigFromKVPs(kvps) == ApplyCalls(DefaultConfig, CallsFor(KVPTable, kvps))

(***************************************************************************)
(* driverConfigToKVPs (330-379): a key for every non-empty getter; the     *)
(* port, log level, auth method and OIDC method names are never empty.     *)
(* There is no line for grantType.                                         *)
(***************************************************************************)
DriverConfigToKVPs(c) ==
    LET always == [port |-> PortStr(c.port), loglevel |-> c.logLevel,
                   authmethod |-> c.authMethod, oidcDicoveryMethod |-> c.oidcMethod]
        opt == [dsn |-> c.dsn, driver |-> c.driver, hostname |-> c.hostname,
                oidcDiscoveryUrl |-> c.oidcDiscoveryUrl, clientId |-> c.clientId,
                clientSecret |-> c.clientSecret, oidcScope |-> c.oidcScope,
                authenticationendpoint |-> c.authEndpoint,
                userName |-> c.userName, password |-> c.password,
                tokenendpoint |-> c.tokenEndpoint]
        keys == DOMAIN always \cup {k \in DOMAIN opt : opt[k] # ""}
    IN  [k \in keys |-> IF k \in DOMAIN always THEN always[k] ELSE opt[k]]

(***************************************************************************)
(* cryptUtils.cpp.  encryptString turns "" into "" and otherwise returns   *)
(* the base64 text of a DPAPI blob bound to the calling user (flags 0) or  *)
(* to the machine (CRYPTPROTECT_LOCAL_MACHINE).  decryptString turns ""    *)
(* into "", and throws when the text is not base64 of a blob the caller    *)
(* may open: another user's blob, or any other text.  Both decrypt         *)
(* wrappers pass flags 0, which opens user and machine blobs alike.        *)
(***************************************************************************)
EncryptStringUserScope(text, machine, user) ==
    IF text = "" THEN "" ELSE "dpapi(" \o user \o "," \o text \o ")"

EncryptString(text, machine, user) ==
    IF text = "" THEN ""
    ELSE "dpapi(" \o (IF machine THEN "machine" ELSE user) \o "," \o text \o ")"

\* {plaintext}, or {} when the base64 decode or CryptUnprotectData fails.
DecryptString(text, user) ==
    IF text = "" THEN {""}
    ELSE {p \in Vals : text \in {EncryptString(p, m, user) : m \in BOOLEAN}}

\* Lines 165-183: the wrappers.  Both decrypt wrappers pass flags 0.
userEncryptString(text, user) == EncryptString(text, FALSE, user)
systemEncryptString(text, user) == EncryptString(text, TRUE, user)
userDecryptString(text, user) == DecryptString(text, user)
systemDecryptString(text, user) == DecryptString(text, user)

(***************************************************************************)
(* readFromPrivateProfile (15-32): the DSN's value for key, or the key's   *)
(* entry in DRIVER_CONFIG_DEFAULT_VALUES (72-87), or "".                   *)
(***************************************************************************)
DefaultValues ==
    [hostname |-> "localhost", port |-> "8080", loglevel |-> "None",
     authmethod |-> "No Auth", oidcDiscoveryUrl |-> "", clientId |-> "",
     clientSecret |-> "", oidcScope |-> "", secretEncryptionLevel |-> "user",
     authenticationendpoint |-> "", userName |-> "", password |-> "******",
     oidcDicoveryMethod |-> "Url"]

ReadFromPrivateProfile(profile, key) ==
    IF key \in DOMAIN profile THEN profile[key]
    ELSE IF key \in DOMAIN DefaultValues THEN DefaultValues[key] ELSE ""

(***************************************************************************)
(* readDriverConfigFromProfile (34-69), run by user: the setters in the    *)
(* code's order, then the client secret decrypted according to            *)
(* secretEncryptionLevel; an unknown level throws runtime_error.  The      *)
(* result is {config}, or {} when any step throws.                         *)
(***************************************************************************)
ProfileTable ==
    << <<"hostname", "setHostname">>, <<"port", "setPort">>,
       <<"loglevel", "setLogLevel">>, <<"authmethod", "setAuthMethod">>,
       <<"oidcDiscoveryUrl", "setOidcDiscoveryUrl">>,
       <<"clientId", "setClientId">>, <<"oidcScope", "setOidcScope">>,
       <<"authenticationendpoint", "setAuthEndpoint">>,
       <<"password", "setPassword">>, <<"userName", "setUsername">>,
       <<"tokenendpoint", "setTokenEndpoint">>,
       <<"oidcDicoveryMethod", "setOidcEndpointMethod">> >>

ReadDriverConfigFromProfile(dsn, profile, user) ==
    LET calls == <<<<"setDSN", dsn>>>> \o
                 [i \in 1..Len(ProfileTable) |->
                    <<ProfileTable[i][2], ReadFromPrivateProfile(profile, ProfileTable[i][1])>>]
        r == ApplyCalls(DefaultConfig, calls)
        level == ReadFromPrivateProfile(profile, "secretEncryptionLevel")
        stored == ReadFromPrivateProfile(profile, "encryptedClientSecret")
        secret == IF level = "user" THEN userDecryptString(stored, user)
                  ELSE systemDecryptString(stored, user)
    IN  IF ~r.ok \/ level \notin {"user", "system"} THEN {}
        ELSE {[r.cfg EXCEPT !.clientSecret = s] : s \in secret}

====
