------------------------------- MODULE Tokens -------------------------------
(***************************************************************************)
(* Tokens of MCP clients: the OAuth flow of api/routes/mcp_oauth.py,       *)
(* personal access tokens (api/routes/mcp_tokens.py) and the two places    *)
(* that check them (mcp/auth.py). Pending requests live in the process and *)
(* die with it; codes and tokens are rows. An exchange and a check read    *)
(* the row, then write it back in a later step.                            *)
(***************************************************************************)
EXTENDS Naturals, FiniteSets

CONSTANTS Clients,      \* OAuth clients, each with its own verifier
          Owners,       \* users
          Requests,     \* authorization requests
          Exchanges,    \* calls of /mcp/token
          Checks,       \* calls with a token
          MaxTokens,    \* bound on tokens
          EndOfTime,    \* bound on the clock
          CodeTTL, TokenTTL

ASSUME TokensAssumption == /\ {MaxTokens, EndOfTime, CodeTTL, TokenTTL} \subseteq Nat
                           /\ "none" \notin Requests

VARIABLES pending,      \* _pending_requests
          code,         \* OAuthAuthorizationCode rows, by request
          token,        \* OAuthAccessToken and MCPAccessToken rows
          exchange,     \* /mcp/token in progress: the code it read
          check,        \* token checks in progress: the row they read
          time,
          asked,        \* history: the client of each request
          approved,     \* history: who approved a request, and when
          raced         \* history: requests whose code two exchanges held at once

tokenVars == <<pending, code, token, exchange, check, time, asked, approved, raced>>

None == [pc |-> "idle"]

TokensTypeOK ==
    /\ \A r \in DOMAIN pending : pending[r].client \in Clients /\ pending[r].at \in 0 .. time
    /\ \A r \in DOMAIN code : code[r].user \in Owners /\ code[r].used \in BOOLEAN
    /\ \A t \in token : t.id \in 1 .. MaxTokens /\ t.kind \in {"oauth", "pat"} /\ t.revoked \in BOOLEAN
    /\ \A t, s \in token : t.id = s.id => t = s

TokensInit ==
    /\ pending = <<>> /\ code = <<>> /\ token = {} /\ time = 0
    /\ exchange = [x \in Exchanges |-> None]
    /\ check = [c \in Checks |-> None]
    /\ asked = <<>> /\ approved = <<>> /\ raced = {}

Put(f, k, v) == [x \in DOMAIN f \cup {k} |-> IF x = k THEN v ELSE f[x]]
Drop(f, k) == [x \in DOMAIN f \ {k} |-> f[x]]

----------------------------------------------------------------------------
(* authorize: every request has its own id. *)
authorize(r, client) ==
    /\ r \notin DOMAIN asked
    /\ pending' = Put(pending, r, [client |-> client, challenge |-> client, at |-> time])
    /\ asked' = Put(asked, r, client)
    /\ UNCHANGED <<code, token, exchange, check, time, approved, raced>>

(* authorize_resume: a page, or the request is dropped because it expired. *)
authorize_resume(r) ==
    /\ r \in DOMAIN pending /\ time - pending[r].at > CodeTTL
    /\ pending' = Drop(pending, r)
    /\ UNCHANGED <<code, token, exchange, check, time, asked, approved, raced>>

(* authorize_decide: the request is taken out first; it may have expired, be *)
(* denied, or come without a session.                                        *)
authorize_decide(r, user, decision) ==
    /\ r \in DOMAIN pending
    /\ pending' = Drop(pending, r)
    /\ IF time - pending[r].at <= CodeTTL /\ decision = "approve" /\ user \in Owners
       THEN /\ code' = Put(code, r, [user |-> user, client |-> pending[r].client,
                                     challenge |-> pending[r].challenge, expires |-> time + CodeTTL, used |-> FALSE])
            /\ approved' = Put(approved, r, [user |-> user, at |-> time])
       ELSE UNCHANGED <<code, approved>>
    /\ UNCHANGED <<token, exchange, check, time, asked, raced>>

(* Mutant of _validate_auth_code: the client is not compared. *)
AnyClient(c, client, verifier) == time <= c.expires /\ ~c.used

(* _validate_auth_code: the verifier must hash to the challenge. *)
_validate_auth_code(c, client, verifier) ==
    /\ time <= c.expires /\ ~c.used
    /\ c.client = client /\ c.challenge = verifier

(* token_exchange: the code is read and checked; the row is marked used and  *)
(* the token inserted in one commit.                                         *)
ReadCode(x, r, client, verifier) ==
    /\ exchange[x].pc = "idle" /\ r \in DOMAIN code
    /\ _validate_auth_code(code[r], client, verifier)
    /\ exchange' = [exchange EXCEPT ![x] = [pc |-> "issue", req |-> r, client |-> client]]
    /\ raced' = IF \E y \in Exchanges : exchange[y].pc = "issue" /\ exchange[y].req = r
                THEN raced \cup {r} ELSE raced
    /\ UNCHANGED <<pending, code, token, check, time, asked, approved>>

NextToken == Cardinality(token) + 1

token_exchange(x) ==
    /\ exchange[x].pc = "issue" /\ NextToken <= MaxTokens
    /\ code' = [code EXCEPT ![exchange[x].req].used = TRUE]
    /\ token' = token \cup {[id |-> NextToken, kind |-> "oauth", user |-> code[exchange[x].req].user,
                             client |-> exchange[x].client, req |-> exchange[x].req, at |-> time,
                             expires |-> time + TokenTTL, revoked |-> FALSE]}
    /\ exchange' = [exchange EXCEPT ![x] = None]
    /\ UNCHANGED <<pending, check, time, asked, approved, raced>>

(* create_mcp_token: a personal token, which does not expire. *)
create_mcp_token(user) ==
    /\ NextToken <= MaxTokens
    /\ token' = token \cup {[id |-> NextToken, kind |-> "pat", user |-> user, client |-> user, req |-> "none",
                             at |-> time, expires |-> EndOfTime + 1, revoked |-> FALSE]}
    /\ UNCHANGED <<pending, code, exchange, check, time, asked, approved, raced>>

(* revoke_token for OAuth tokens, revoke_mcp_token for a user's own. *)
Revoke(t) ==
    /\ ~t.revoked
    /\ token' = (token \ {t}) \cup {[t EXCEPT !.revoked = TRUE]}
    /\ UNCHANGED <<pending, code, exchange, check, time, asked, approved, raced>>

(* _verify_pat, of WikiMindAuthProvider: every token has the prefix of a     *)
(* personal one and is looked up among those. validate_mcp_token, which also *)
(* looks among the OAuth tokens, is called by no transport.                  *)
_verify_pat(t) == t.kind = "pat" /\ ~t.revoked /\ time <= t.expires

CheckToken(c, t) ==
    /\ check[c].pc = "idle" /\ _verify_pat(t)
    /\ check' = [check EXCEPT ![c] = [pc |-> "stamp", row |-> t]]
    /\ UNCHANGED <<pending, code, token, exchange, time, asked, approved, raced>>

(* Mutant of the stamp: the row that was read is written back whole. *)
WriteRow(c) == {IF t.id = check[c].row.id THEN check[c].row ELSE t : t \in token}

(* The stamp is an update of last_used_at alone. *)
StampRow(c) == token

verify_token(c) ==
    /\ check[c].pc = "stamp"
    /\ token' = StampRow(c)
    /\ check' = [check EXCEPT ![c] = None]
    /\ UNCHANGED <<pending, code, exchange, time, asked, approved, raced>>

(* A crash or a restart: requests in memory and in progress are gone. *)
ServerRestart ==
    /\ pending # <<>>
    /\ pending' = <<>>
    /\ exchange' = [x \in Exchanges |-> None]
    /\ check' = [c \in Checks |-> None]
    /\ UNCHANGED <<code, token, time, asked, approved, raced>>

TimePasses ==
    /\ time < EndOfTime /\ time' = time + 1
    /\ UNCHANGED <<pending, code, token, exchange, check, asked, approved, raced>>

TokensNext ==
    \/ \E r \in Requests :
          \/ \E cl \in Clients : authorize(r, cl)
          \/ authorize_resume(r)
          \/ \E u \in Owners \cup {"nobody"}, decision \in {"approve", "deny"} : authorize_decide(r, u, decision)
          \/ \E x \in Exchanges, cl \in Clients, v \in Clients : ReadCode(x, r, cl, v)
    \/ \E x \in Exchanges : token_exchange(x)
    \/ \E u \in Owners : create_mcp_token(u)
    \/ \E t \in token : Revoke(t) \/ \E c \in Checks : CheckToken(c, t)
    \/ \E c \in Checks : verify_token(c)
    \/ ServerRestart \/ TimePasses

----------------------------------------------------------------------------
(* Every OAuth token goes to the client that asked, for the user who         *)
(* approved its request.                                                     *)
TokenFromConsent ==
    \A t \in token : t.kind = "oauth" =>
        /\ t.req \in DOMAIN approved
        /\ t.client = asked[t.req] /\ t.user = approved[t.req].user

(* A code gives one token ("can only be used once"), unless two exchanges of *)
(* it overlapped: the check and the mark are separate steps without a lock.  *)
CodeOnce ==
    \A r \in DOMAIN code : r \notin raced => Cardinality({t \in token : t.req = r}) <= 1
=============================================================================
