------------------------------ MODULE DSNForm ------------------------------
(***************************************************************************)
(* The DSN configuration dialog (src/src/driver/config/dsnConfigForm.cpp). *)
(* A DSNForm is constructed from the installer's attribute map, may be     *)
(* given an existing DSN's settings (updateConfig with the profile reader's*)
(* result, and setReadOnlyDSN), and is then shown: ShowDSNForm fills the   *)
(* controls from configResult and runs the message loop, whose window      *)
(* procedure WINDOW_CB handles the user's edits, Save and Cancel.  The     *)
(* dialog state is the controls' texts and which of them are enabled.      *)
(***************************************************************************)
EXTENDS DriverConfig, FiniteSets, TLC

CONSTANTS
    AttrMaps,   \* attribute maps the installer may pass to the constructor
    ProfileBase, \* the plain settings of an existing DSN's ODBC.INI section
    PortTexts,  \* texts the user may type into the port box
    MaxEdits    \* bound on the user's edits in one session

Edits == {"dsn", "hostname", "port", "oidcDiscoveryUrl", "clientId",
          "clientSecret", "oidcScope", "tokenEndpoint", "authEndpoint",
          "userName", "password"}
Combos == {"logLevel", "authMethod", "oidcMethod"}
Ctrls == Edits \cup Combos

Phases == {"idle", "created", "open", "saved", "cancelled", "aborted"}

VARIABLES
    phase,       \* where the form object is in its life
    config,      \* DSNForm::configResult, shared with WINDOW_CB by pointer
    readOnlyDSN, \* DSNForm::readOnlyDSN
    controls,    \* the text of each control
    enabled,     \* the controls that accept input
    runner,      \* the Windows account running the dialog
    opened,      \* history: configResult when the form was shown
    edited,      \* history: the controls the user changed
    source,      \* history: the secret entries of the section read, if any
    loaded       \* history: the client secret the profile reader returned

vars == <<phase, config, readOnlyDSN, controls, enabled, runner, opened, edited,
          source, loaded>>

(***************************************************************************)
(* The secret entries the DSN writer leaves in a section: the client       *)
(* secret encrypted for writer at level ("default": no level key, which    *)
(* reads as "user"; an unknown level is stored as given).  The writer is   *)
(* not in the sources; it calls userEncryptString or systemEncryptString.  *)
(***************************************************************************)
Sections ==
    [secret : Texts, level : {"user", "system", "default", "bogus"}, writer : Users]

NoSection == [secret |-> "", level |-> "none", writer |-> "none"]
ReadFailed == "<read failed>"

SectionMap(in) ==
    LET enc == "encryptedClientSecret" :>
                 IF in.level = "system" THEN systemEncryptString(in.secret, in.writer)
                 ELSE userEncryptString(in.secret, in.writer)
    IN  IF in.level = "default" THEN enc ELSE ("secretEncryptionLevel" :> in.level) @@ enc

(***************************************************************************)
(* DSNForm::DSNForm (46-95): the setters for the attributes present, in    *)
(* this order; DSN is looked up under "DSN".  Like driverConfigFromKVPs    *)
(* it ends with setOidcEndpointMethod(string), which writes oidcScope.     *)
(***************************************************************************)
AttrTable ==
    << <<"DSN", "setDSN">>, <<"hostname", "setHostname">>, <<"port", "setPort">>,
       <<"loglevel", "setLogLevel">>, <<"authmethod", "setAuthMethod">>,
       <<"oidcDiscoveryUrl", "setOidcDiscoveryUrl">>,
       <<"clientId", "setClientId">>, <<"clientSecret", "setClientSecret">>,
       <<"oidcScope", "setOidcScope">>, <<"granttype", "setGrantType">>,
       <<"tokenendpoint", "setTokenEndpoint">>,
       <<"authenticationendpoint", "setAuthEndpoint">>,
       <<"userName", "setUsername">>, <<"password", "setPassword">>,
       <<"oidcDicoveryMethod", "setOidcEndpointMethod">> >>

(***************************************************************************)
(* UpdateDataFields (97-176): the auth method and OIDC method combos decide*)
(* which of the nine dependent controls are enabled.  DSN, hostname, port, *)
(* log level and auth method are never disabled.                           *)
(***************************************************************************)
AlwaysEnabled == {"dsn", "hostname", "port", "logLevel", "authMethod"}

EnabledFor(ctl) ==
    AlwaysEnabled \cup
    CASE ctl.authMethod \in {"Oidc Client Cred Auth", "Device Code"} ->
           {"clientId", "clientSecret", "oidcMethod", "oidcScope"} \cup
           (IF ctl.oidcMethod = "Url" THEN {"oidcDiscoveryUrl"}
            ELSE {"authEndpoint", "tokenEndpoint"})
      [] ctl.authMethod = "Username And Password" -> {"userName", "password"}
      [] OTHER -> {}

(***************************************************************************)
(* ShowDSNForm (326-441): the window is created with every control enabled*)
(* and empty; the DSN, hostname, port, discovery URL, client id, secret    *)
(* and scope boxes and the three combos are filled from configResult (the  *)
(* token and auth endpoints, user name and password are not), and          *)
(* UpdateDataFields runs once before the message loop.                     *)
(***************************************************************************)
Prepopulated(c) ==
    [x \in Ctrls |->
        CASE x = "dsn" -> c.dsn
          [] x = "hostname" -> c.hostname
          [] x = "port" -> PortStr(c.port)
          [] x = "oidcDiscoveryUrl" -> c.oidcDiscoveryUrl
          [] x = "clientId" -> c.clientId
          [] x = "clientSecret" -> c.clientSecret
          [] x = "oidcScope" -> c.oidcScope
          [] x = "logLevel" -> c.logLevel
          [] x = "authMethod" -> c.authMethod
          [] x = "oidcMethod" -> c.oidcMethod
          [] OTHER -> ""]

(***************************************************************************)
(* WINDOW_CB, ID_BUTTON_SAVE (227-296): every control is read, enabled or  *)
(* not, and passed to its string setter in this order; then                *)
(* setIsSaved(true) and DestroyWindow.                                     *)
(***************************************************************************)
SaveOrder ==
    << <<"dsn", "setDSN">>, <<"hostname", "setHostname">>, <<"port", "setPort">>,
       <<"logLevel", "setLogLevel">>, <<"authMethod", "setAuthMethod">>,
       <<"oidcDiscoveryUrl", "setOidcDiscoveryUrl">>,
       <<"clientId", "setClientId">>, <<"clientSecret", "setClientSecret">>,
       <<"oidcScope", "setOidcScope">>, <<"userName", "setUsername">>,
       <<"password", "setPassword">>, <<"tokenEndpoint", "setTokenEndpoint">>,
       <<"authEndpoint", "setAuthEndpoint">>,
       <<"oidcMethod", "setOidcEndpointMethod">> >>

SaveCalls(ctl) == [i \in 1..Len(SaveOrder) |-> <<SaveOrder[i][2], ctl[SaveOrder[i][1]]>>]

\* The texts the user can give a control: any text, a port text, or an
\* entry of the combo's list.
Choices(x) ==
    CASE x = "port" -> PortTexts
      [] x = "logLevel" -> LogLevelNames
      [] x = "authMethod" -> AuthNames
      [] x = "oidcMethod" -> OidcMethodNames
      [] OTHER -> Texts

Init ==
    /\ phase = "idle"
    /\ config = DefaultConfig
    /\ readOnlyDSN = FALSE
    /\ controls = [x \in Ctrls |-> ""]
    /\ enabled = Ctrls
    /\ runner \in Users
    /\ opened = DefaultConfig
    /\ edited = {}
    /\ source = NoSection
    /\ loaded = ReadFailed

\* The constructor; an exception from a setter reaches the caller and no
\* form is shown.
Construct(attrs) ==
    LET r == ApplyCalls(DefaultConfig, CallsFor(AttrTable, attrs)) IN
    /\ phase = "idle"
    /\ phase' = IF r.ok THEN "created" ELSE "aborted"
    /\ config' = r.cfg
    /\ UNCHANGED <<readOnlyDSN, controls, enabled, runner, opened, edited, source, loaded>>

\* Configuring an existing DSN: updateConfig (447-449) with
\* readDriverConfigFromProfile's result, run by the dialog's user, and
\* setReadOnlyDSN (451-453).  An exception from the reader aborts.
ConfigureExisting(in) ==
    LET read == ReadDriverConfigFromProfile(config.dsn, ProfileBase @@ SectionMap(in), runner) IN
    /\ phase = "created"
    /\ ~readOnlyDSN
    /\ IF read = {}
       THEN /\ phase' = "aborted"
            /\ loaded' = ReadFailed
            /\ UNCHANGED config
       ELSE \E c \in read : config' = c /\ loaded' = c.clientSecret /\ UNCHANGED phase
    /\ readOnlyDSN' = TRUE
    /\ source' = in
    /\ UNCHANGED <<controls, enabled, runner, opened, edited>>

ShowDSNForm ==
    /\ phase = "created"
    /\ phase' = "open"
    /\ controls' = Prepopulated(config)
    /\ enabled' = EnabledFor(Prepopulated(config))
    /\ opened' = config
    /\ UNCHANGED <<config, readOnlyDSN, runner, edited, source, loaded>>

\* The user changes an enabled control; its WM_COMMAND notification reaches
\* WINDOW_CB's default branch, which runs UpdateDataFields.  A read-only
\* DSN box takes no input.
UserEdit(x, t) ==
    /\ phase = "open"
    /\ x \in enabled
    /\ ~(x = "dsn" /\ readOnlyDSN)
    /\ t # controls[x]
    /\ Cardinality(edited) < MaxEdits \/ x \in edited
    /\ controls' = [controls EXCEPT ![x] = t]
    /\ enabled' = EnabledFor([controls EXCEPT ![x] = t])
    /\ edited' = edited \cup {x}
    /\ UNCHANGED <<phase, config, readOnlyDSN, runner, opened, source, loaded>>

\* Save.  A setter that throws leaves configResult half written and the
\* exception leaves the window procedure: it either unwinds out of the
\* message loop and ShowDSNForm, or is lost at the user-mode callback
\* boundary and the dialog stays open.
SaveFlagFirst ==
    LET r == ApplyCalls([config EXCEPT !.isSaved = TRUE], SaveCalls(controls)) IN
    /\ phase = "open"
    /\ IF r.ok
       THEN /\ config' = r.cfg
            /\ phase' = "saved"
       ELSE /\ config' = r.cfg
            /\ phase' \in {"aborted", "open"}
    /\ UNCHANGED <<readOnlyDSN, controls, enabled, runner, opened, edited, source, loaded>>

Save ==
    LET r == ApplyCalls(config, SaveCalls(controls)) IN
    /\ phase = "open"
    /\ IF r.ok
       THEN /\ config' = [r.cfg EXCEPT !.isSaved = TRUE]
            /\ phase' = "saved"
       ELSE /\ config' = r.cfg
            /\ phase' \in {"aborted", "open"}
    /\ UNCHANGED <<readOnlyDSN, controls, enabled, runner, opened, edited, source, loaded>>

\* ID_BUTTON_CANCEL (298-304).
Cancel ==
    /\ phase = "open"
    /\ config' = [config EXCEPT !.isSaved = FALSE]
    /\ phase' = "cancelled"
    /\ UNCHANGED <<readOnlyDSN, controls, enabled, runner, opened, edited, source, loaded>>

Next ==
    \/ \E a \in AttrMaps : Construct(a)
    \/ \E in \in Sections : ConfigureExisting(in)
    \/ ShowDSNForm
    \/ \E x \in Ctrls : \E t \in Choices(x) : UserEdit(x, t)
    \/ Save
    \/ Cancel

Spec == Init /\ [][Next]_vars

-----------------------------------------------------------------------------
ConfigType ==
    [dsn : Texts, driver : Texts, hostname : Texts \cup {"localhost"},
     port : 0..65535, logLevel : LogLevelNames, authMethod : AuthNames,
     oidcDiscoveryUrl : Texts, clientId : Texts, clientSecret : Texts,
     oidcScope : Texts \cup {OemChar(m) : m \in OidcMethodNames},
     tokenEndpoint : Texts, grantType : Texts, authEndpoint : Texts,
     userName : Texts, password : Texts \cup {"******"},
     oidcMethod : OidcMethodNames, isSaved : BOOLEAN]

CtrlTexts ==
    Texts \cup PortTexts \cup DOMAIN Decimal \cup LogLevelNames \cup AuthNames
    \cup OidcMethodNames \cup {OemChar(m) : m \in OidcMethodNames} \cup {"localhost"}

TypeOK ==
    /\ phase \in Phases
    /\ config \in ConfigType
    /\ opened \in ConfigType
    /\ readOnlyDSN \in BOOLEAN
    /\ controls \in [Ctrls -> CtrlTexts]
    /\ enabled \subseteq Ctrls
    /\ runner \in Users
    /\ edited \subseteq Ctrls
    /\ source \in Sections \cup {NoSection}
    /\ loaded \in Texts \cup {ReadFailed}

\* configResult reports isSaved exactly when a Save ran every setter: a
\* Save that throws part-way (a bad port, say) leaves the flag unset.
SavedFlagMeansSaveCompleted ==
    config.isSaved <=> phase = "saved"

\* Configuring an existing DSN reads its client secret back exactly when
\* the section's encryption level is "user" or "system" (or absent) and the
\* dialog's user may open the DPAPI blob: the secret is empty, bound to the
\* machine, or bound to this user; and what it reads is what was written.
SecretReadableIffPermitted ==
    source # NoSection =>
        /\ (loaded # ReadFailed) <=>
              /\ source.level # "bogus"
              /\ source.secret = "" \/ source.level = "system" \/ source.writer = runner
        /\ loaded # ReadFailed => loaded = source.secret

\* What the dialog showed is what the driver reads back: after a Save, the
\* configuration serialised by driverConfigToKVPs and parsed again by
\* driverConfigFromKVPs holds, for every control, the value the user typed
\* or, for a control left alone, the value shown when the dialog opened;
\* the settings the dialog has no control for are kept.
Shown(x) ==
    IF x \notin edited THEN opened[x]
    ELSE IF x = "port" THEN Decimal[controls.port] ELSE controls[x]

SavedConfigReadsBackAsShown ==
    phase = "saved" =>
        DriverConfigFromKVPs(DriverConfigToKVPs(config))
            = [ok |-> TRUE,
               cfg |-> [f \in DOMAIN opened |->
                          CASE f \in Ctrls -> Shown(f)
                            [] f = "isSaved" -> FALSE
                            [] OTHER -> opened[f]]]
====
