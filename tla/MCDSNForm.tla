----------------------------- MODULE MCDSNForm -----------------------------
(***************************************************************************)
(* DSNForm instantiated for TLC: two non-empty texts, two Windows users,   *)
(* the port texts a user can type that matter (an overflowing one, zero,   *)
(* and one with no digits), attribute maps for a new DSN, a fully          *)
(* specified OIDC DSN and a DSN whose attributes cannot be parsed, and the *)
(* plain settings of an existing DSN (its secret entries range over every  *)
(* section DSNForm's Sections allows).                                     *)
(***************************************************************************)
EXTENDS DSNForm, TLC

MCVals == {"v1", "v2"}
MCUsers == {"alice", "bob"}
MCDecimal == ("8080" :> 8080) @@ ("0" :> 0) @@ ("1" :> 1) @@ ("65537" :> 65537)
MCPortTexts == {"65537", "0", "abc"}

\* ConfigDSN adding a DSN; an OIDC device-code DSN with every attribute;
\* a DSN whose port attribute has no digits.
MCAttrMaps ==
    { "DSN" :> "v1",
      ("DSN" :> "v1") @@ ("hostname" :> "v1") @@ ("port" :> "8080")
        @@ ("authmethod" :> "Device Code") @@ ("oidcScope" :> "v1")
        @@ ("granttype" :> "v1") @@ ("tokenendpoint" :> "v1")
        @@ ("password" :> "v1") @@ ("oidcDicoveryMethod" :> "Url"),
      ("DSN" :> "v1") @@ ("port" :> "abc") }

\* The plain settings of an existing user-and-password DSN with a scope.
MCProfileBase ==
    ("hostname" :> "v1") @@ ("authmethod" :> "Username And Password")
        @@ ("userName" :> "v1") @@ ("password" :> "v1") @@ ("oidcScope" :> "v1")
====
