------------------------------ MODULE ApiKeys ------------------------------
(***************************************************************************)
(* Users' own provider keys: services/api_keys.py and its routes. A row    *)
(* holds a key encrypted under the server's secret and the row's salt;     *)
(* a request reads the row, writes it and commits at its end. The secret   *)
(* may change between two starts of the server.                            *)
(***************************************************************************)
EXTENDS Naturals, FiniteSets

CONSTANTS KeyUsers, KeyProviders,   \* _BYOK_PROVIDERS
          Puts,                     \* requests that set a key; each has its own key and salt
          MaxSecrets                \* bound on changes of the secret

ASSUME ApiKeysAssumption == MaxSecrets \in Nat

VARIABLES keyRow,      \* UserApiKey rows
          put,         \* requests in progress
          secret,      \* settings.auth.jwt_secret_key
          latest       \* history: the last key a request was told is stored

keyVars == <<keyRow, put, secret, latest>>

Slots == KeyUsers \X KeyProviders
NoRow == "none"

ApiKeysTypeOK ==
    /\ \A k \in DOMAIN keyRow : k \in Slots
    /\ secret \in 0 .. MaxSecrets

ApiKeysInit ==
    /\ keyRow = <<>> /\ secret = 0
    /\ put = [r \in Puts |-> [pc |-> "idle"]]
    /\ latest = [k \in Slots |-> NoRow]

----------------------------------------------------------------------------
(* encrypt_api_key with a fresh salt; decrypt_api_key raises unless secret   *)
(* and salt are the ones it was encrypted under.                             *)
encrypt_api_key(key, salt) == [cipher |-> [key |-> key, salt |-> salt, secret |-> secret], salt |-> salt]
decrypt_api_key(row) ==
    IF row.cipher.salt = row.salt /\ row.cipher.secret = secret THEN row.cipher.key ELSE "unreadable"

(* set_user_api_key: the row is read. *)
set_user_api_key(r, k) ==
    /\ put[r].pc = "idle"
    /\ put' = [put EXCEPT ![r] = [pc |-> "write", slot |-> k, found |-> k \in DOMAIN keyRow, new |-> encrypt_api_key(r, r)]]
    /\ UNCHANGED <<keyRow, secret, latest>>

(* Mutant of the update: the salt of the row is kept. *)
KeepSalt(r) ==
    LET k == put[r].slot IN
    IF k \in DOMAIN keyRow THEN [put[r].new EXCEPT !.salt = keyRow[k].salt] ELSE put[r].new

NewRow(r) == put[r].new

(* The commit: an insert that meets a row of the same user and provider is   *)
(* refused by the constraint, an update that meets none fails.               *)
set_api_key(r) ==
    /\ put[r].pc = "write"
    /\ LET k == put[r].slot IN
       IF put[r].found = (k \in DOMAIN keyRow)
       THEN /\ keyRow' = [x \in DOMAIN keyRow \cup {k} |-> IF x = k THEN NewRow(r) ELSE keyRow[x]]
            /\ latest' = [latest EXCEPT ![k] = r]
       ELSE UNCHANGED <<keyRow, latest>>
    /\ put' = [put EXCEPT ![r] = [pc |-> "done"]]
    /\ UNCHANGED secret

delete_user_api_key(k) ==
    /\ k \in DOMAIN keyRow
    /\ keyRow' = [x \in DOMAIN keyRow \ {k} |-> keyRow[x]]
    /\ latest' = [latest EXCEPT ![k] = NoRow]
    /\ UNCHANGED <<put, secret>>

(* A row that cannot be decrypted raises. *)
get_user_api_key(k) == IF k \in DOMAIN keyRow THEN decrypt_api_key(keyRow[k]) ELSE NoRow

(* A restart with another secret; requests in progress are gone. *)
ChangeSecret ==
    /\ secret < MaxSecrets /\ secret' = secret + 1
    /\ put' = [r \in Puts |-> IF put[r].pc = "write" THEN [pc |-> "done"] ELSE put[r]]
    /\ UNCHANGED <<keyRow, latest>>

ApiKeysNext ==
    \/ \E r \in Puts : set_api_key(r) \/ \E k \in Slots : set_user_api_key(r, k)
    \/ \E k \in Slots : delete_user_api_key(k)
    \/ ChangeSecret

----------------------------------------------------------------------------
(* The key in use is the one last stored, by whichever requests overlapped;  *)
(* it is unreadable only when the secret changed since.                      *)
KeyIsLatest ==
    \A k \in Slots :
        \/ get_user_api_key(k) = latest[k]
        \/ k \in DOMAIN keyRow /\ keyRow[k].cipher.secret # secret /\ get_user_api_key(k) = "unreadable"
=============================================================================
