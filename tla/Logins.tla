------------------------------- MODULE Logins -------------------------------
(***************************************************************************)
(* Signing in: the OAuth callback, magic links, and accounts provisioned   *)
(* from a JWT (api/routes/auth.py, services/user.py, middleware/auth.py).  *)
(* A login looks the account up, then, in a later step, updates or inserts *)
(* it and commits; several run at once. Signatures are not modelled: a     *)
(* state, link or JWT in the model is one the server signed.               *)
(***************************************************************************)
EXTENDS Naturals, FiniteSets, FiniteSetsExt

CONSTANTS Identities,    \* accounts at the providers: [provider, pid]
          Emails,        \* addresses a provider may report
          Attempts,      \* logins
          MaxUsers,      \* bound on rows ever made
          MaxTime,       \* bound on the clock
          MaxSigned,     \* bound on states and links given out and not expired
          StateTTL, LinkTTL, JwtTTL

ASSUME LoginsAssumption == /\ {MaxUsers, MaxTime, MaxSigned} \subseteq Nat
                           /\ {StateTTL, LinkTTL, JwtTTL} \subseteq Nat

(* An identity is the pair, at a provider the user can be sent to: not one   *)
(* of the names the accounts of magic links and of JWTs are marked with.     *)
ASSUME IdentitiesAssumption ==
    /\ Identities \cap Emails = {}
    /\ \A i \in Identities : i.provider \notin {"magic_link", "jwt"}
    /\ \A i, j \in Identities : i.provider = j.provider /\ i.pid = j.pid => i = j

NoUser == 0
NoEmail == "no email"

VARIABLES user,       \* User rows
          signed,     \* OAuth states and magic links given out
          jwt,        \* session and API tokens given out
          attempt,    \* logins in progress: what they know and the row they found
          mail,       \* the email each identity has at its provider
          clock,
          made,       \* rows ever made, to number the next
          moved       \* history: identities whose email changed

loginVars == <<user, signed, jwt, attempt, mail, clock, made, moved>>

Idle == [pc |-> "idle"]

LoginsTypeOK ==
    /\ \A a, b \in user : (a.id = b.id \/ a.email = b.email) => a = b
    /\ \A u \in user : u.id \in 1 .. made
    /\ \A j \in jwt : j.sub \in 1 .. made
    /\ clock \in 0 .. MaxTime

LoginsInit ==
    /\ user = {} /\ signed = {} /\ jwt = {} /\ clock = 0 /\ made = 0 /\ moved = {}
    /\ attempt = [a \in Attempts |-> Idle]
    /\ mail \in [Identities -> Emails \cup {NoEmail}]

----------------------------------------------------------------------------
(* login, and _generate_oauth_state; request_magic_link. *)
login(provider) ==
    /\ Cardinality(signed) < MaxSigned
    /\ signed' = signed \cup {[kind |-> "state", for |-> provider, at |-> clock]}
    /\ UNCHANGED <<user, jwt, attempt, mail, clock, made, moved>>

request_magic_link(email) ==
    /\ Cardinality(signed) < MaxSigned
    /\ signed' = signed \cup {[kind |-> "link", for |-> email, at |-> clock]}
    /\ UNCHANGED <<user, jwt, attempt, mail, clock, made, moved>>

_consume_oauth_state(s, provider) == s.kind = "state" /\ s.for = provider /\ clock - s.at <= StateTTL
verify_magic_link_token(s, email) == s.kind = "link" /\ s.for = email /\ clock - s.at <= LinkTTL

(* upsert_oauth_user's two queries. *)
FindOAuthUser(i, email) ==
    LET byId == {u \in user : u.provider = i.provider /\ u.pid = i.pid}
    IN IF byId # {} \/ email = NoEmail THEN byId ELSE {u \in user : u.email = email}

(* Mutant of NewUser: the stand-in for a missing address differs each time. *)
NewEachTime(a, i) ==
    [id |-> NoUser, provider |-> i.provider, pid |-> i.pid, email |-> IF mail[i] = NoEmail THEN <<"noemail", a>> ELSE mail[i]]

NewUser(a, i) ==
    [id |-> NoUser, provider |-> i.provider, pid |-> i.pid, email |-> IF mail[i] = NoEmail THEN <<"noemail", i>> ELSE mail[i]]

(* callback up to the lookup: the code is exchanged, the profile fetched. A  *)
(* lookup that finds two rows raises.                                        *)
callback(a, i) ==
    /\ attempt[a].pc = "idle"
    /\ \E s \in signed : _consume_oauth_state(s, i.provider)
    /\ LET found == FindOAuthUser(i, mail[i]) IN
       attempt' = [attempt EXCEPT ![a] =
           IF Cardinality(found) > 1 THEN [pc |-> "failed", who |-> i]
           ELSE [pc |-> "save", who |-> i,
                 row |-> IF found = {} THEN NewUser(a, i) ELSE CHOOSE u \in found : TRUE]]
    /\ UNCHANGED <<user, signed, jwt, mail, clock, made, moved>>

Finished(a, who, u) == attempt' = [attempt EXCEPT ![a] = [pc |-> "done", who |-> who, user |-> u]]
Failed(a, who) == attempt' = [attempt EXCEPT ![a] = [pc |-> "failed", who |-> who]]
create_jwt(u) == [sub |-> u.id, email |-> u.email, exp |-> clock + JwtTTL]

(* verify_magic_link and get_or_create_by_email. *)
verify_magic_link(a, email) ==
    /\ attempt[a].pc = "idle"
    /\ \E s \in signed : verify_magic_link_token(s, email)
    /\ \/ \E u \in user : u.email = email /\ Finished(a, email, u) /\ jwt' = jwt \cup {create_jwt(u)}
       \/ /\ ~\E u \in user : u.email = email
          /\ attempt' = [attempt EXCEPT ![a] =
                 [pc |-> "save", who |-> email,
                  row |-> [id |-> NoUser, provider |-> "magic_link", pid |-> email, email |-> email]]]
          /\ UNCHANGED jwt
    /\ UNCHANGED <<user, signed, mail, clock, made, moved>>

(* The unique constraints of the table. *)
Unique(row) == made < MaxUsers /\ ~\E u \in user : u.email = row.email

(* The row is updated or inserted, the JWT set as a cookie. An update of a   *)
(* row deleted meanwhile, or an insert of an address taken meanwhile, fails. *)
upsert_oauth_user(a) ==
    /\ attempt[a].pc = "save"
    /\ LET row == attempt[a].row
           new == [row EXCEPT !.id = made + 1]
       IN \/ /\ row.id # NoUser /\ row \in user
             /\ Finished(a, attempt[a].who, row) /\ jwt' = jwt \cup {create_jwt(row)}
             /\ UNCHANGED <<user, made>>
          \/ /\ row.id = NoUser /\ Unique(row)
             /\ user' = user \cup {new} /\ made' = made + 1
             /\ Finished(a, attempt[a].who, new) /\ jwt' = jwt \cup {create_jwt(new)}
          \/ /\ IF row.id = NoUser THEN \E u \in user : u.email = row.email ELSE row \notin user
             /\ Failed(a, attempt[a].who) /\ UNCHANGED <<user, jwt, made>>
    /\ UNCHANGED <<signed, mail, clock, moved>>

(* AuthMiddleware.dispatch: a JWT that has not expired names the user. *)
dispatch(j) == clock < j.exp

(* get_or_create: the row of a valid JWT, made again when it was deleted.    *)
(* /auth/me passes the email of the JWT, /auth/token does not.               *)
get_or_create(j, email) ==
    /\ dispatch(j) /\ ~\E u \in user : u.id = j.sub
    /\ ~\E u \in user : u.email = email
    /\ user' = user \cup {[id |-> j.sub, email |-> email, provider |-> "jwt", pid |-> j.sub]}

me(j) ==
    /\ get_or_create(j, j.email)
    /\ UNCHANGED <<signed, jwt, attempt, mail, clock, made, moved>>

create_api_token(j) ==
    /\ dispatch(j)
    /\ IF \E u \in user : u.id = j.sub
       THEN /\ jwt' = jwt \cup {create_jwt(u) : u \in {v \in user : v.id = j.sub}}
            /\ UNCHANGED user
       ELSE /\ get_or_create(j, <<"jwt.local", j.sub>>)
            /\ jwt' = jwt \cup {[sub |-> j.sub, email |-> <<"jwt.local", j.sub>>, exp |-> clock + JwtTTL]}
    /\ UNCHANGED <<signed, attempt, mail, clock, made, moved>>

DeleteUser(j) ==
    /\ dispatch(j)
    /\ \E u \in user : u.id = j.sub /\ user' = user \ {u}
    /\ UNCHANGED <<signed, jwt, attempt, mail, clock, made, moved>>

(* Outside: time passes (what expired is forgotten), an address changes. *)
Pass ==
    /\ clock < MaxTime /\ clock' = clock + 1
    /\ signed' = {s \in signed : clock' - s.at <= IF s.kind = "state" THEN StateTTL ELSE LinkTTL}
    /\ jwt' = {j \in jwt : clock' < j.exp}
    /\ UNCHANGED <<user, attempt, mail, made, moved>>

ChangeMail(i, e) ==
    /\ mail[i] # e /\ i \notin moved
    /\ mail' = [mail EXCEPT ![i] = e]
    /\ moved' = moved \cup {i}
    /\ UNCHANGED <<user, signed, jwt, attempt, clock, made>>

LoginsNext ==
    \/ \E i \in Identities : login(i.provider)
    \/ \E e \in Emails : request_magic_link(e)
    \/ \E a \in Attempts :
          \/ \E i \in Identities : callback(a, i)
          \/ \E e \in Emails : verify_magic_link(a, e)
          \/ upsert_oauth_user(a)
    \/ \E j \in jwt : me(j) \/ create_api_token(j) \/ DeleteUser(j)
    \/ \E i \in Identities, e \in Emails : ChangeMail(i, e)
    \/ Pass

----------------------------------------------------------------------------
(* An identity whose address never changed is signed in to an account it     *)
(* made, or one that carries its address.                                    *)
OwnAccount ==
    \A a \in Attempts :
        attempt[a].pc = "done" /\ attempt[a].who \in Identities \ moved =>
            LET u == attempt[a].user IN
            \/ u.provider = attempt[a].who.provider /\ u.pid = attempt[a].who.pid
            \/ u.email = mail[attempt[a].who]

(* Logins that overlap never make two accounts of one identity, which would  *)
(* make every later lookup raise; only an identity that reported two         *)
(* addresses can get there.                                                  *)
NotLockedOut ==
    \A i \in Identities \ moved : Cardinality({u \in user : u.provider = i.provider /\ u.pid = i.pid}) <= 1
=============================================================================
