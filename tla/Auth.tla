-------------------------------- MODULE Auth --------------------------------
(***************************************************************************)
(* Passwords, e-mailed tokens and sessions: server/routes/auth.js, the     *)
(* account half of routes/me.js and routes/admin.js, services/auth.js,     *)
(* sessions.js and users.js, middleware/requireUser.js.                    *)
(*                                                                         *)
(* Handlers are atomic but for the ones that await bcrypt: login, reset    *)
(* and changePassword read before the await and write, in one transaction, *)
(* after it.  A call is such a handler between the two.  Only passwords    *)
(* that will verify are typed: a wrong one changes nothing.  The admin     *)
(* acts from an account and a session of his own, not among these.         *)
(***************************************************************************)
EXTENDS Naturals, FiniteSets

CONSTANTS
    Users,
    SuperAdmins,    \* by SUPER_ADMIN_EMAIL; cannot be disabled, need no invitation
    Passwords,
    Sessions,       \* session ids: random, so never drawn twice
    Tokens,         \* raw tokens: random, so never drawn twice
    Calls,          \* handlers that may await at the same time
    None,
    LinkTTL, ResetTTL, SessionTTL, TouchThrottle,
    MaxTime,        \* bound: the clock
    MaxDisables     \* bound: accounts disabled or enabled

Purposes == {"magic_link", "password_reset"}

ASSUME AuthAssumption ==
    /\ SuperAdmins \subseteq Users
    /\ None \notin Users \cup Passwords \cup Sessions \cup Tokens
    /\ Passwords \cap Tokens = {}
    /\ {LinkTTL, ResetTTL, SessionTTL} \subseteq Nat \ {0}
    /\ TouchThrottle \in Nat /\ MaxTime \in Nat /\ MaxDisables \in Nat

VARIABLES
    accounts,    \* users
    password,    \* users.password_hash: None, or the password it verifies
    disabled,    \* users with is_disabled set
    tokens,      \* auth_tokens
    sessions,    \* sessions
    calls,       \* what each awaiting handler has read
    clock,
    drawn,       \* session ids and raw tokens drawn so far
    latest,      \* the last token minted for a user and purpose
    uses,        \* how often each token was accepted
    disables     \* accounts disabled or enabled so far

vars == <<accounts, password, disabled, tokens, sessions, calls, clock, drawn, latest,
          uses, disables>>

-----------------------------------------------------------------------------
\* A row of auth_tokens; `raw` stands for its hash.
Token == [id : Nat \ {0}, raw : Tokens, user : Users, purpose : Purposes, used : BOOLEAN,
          expires : Nat]

\* A row of sessions.  `by` is the password or the link that opened it, `late`
\* tells that the password changed while its login awaited, `kept` that it
\* is the session which changed the password since.
Session == [id : Sessions, user : Users, by : Passwords \cup Tokens, expires : Nat,
            seen : Nat, late : BOOLEAN, kept : BOOLEAN]

Call == [kind : {"login"}, user : Users, password : Passwords, late : BOOLEAN]
        \cup [kind : {"reset"}, user : Users, password : Passwords, id : Nat \ {0}, raw : Tokens]
        \cup [kind : {"change"}, user : Users, password : Passwords, session : Sessions]

TypeOK ==
    /\ accounts \subseteq Users
    /\ password \in [Users -> Passwords \cup {None}]
    /\ disabled \subseteq Users \ SuperAdmins
    /\ tokens \subseteq Token
    /\ sessions \subseteq Session
    /\ \A s, t \in sessions : s.id = t.id => s = t
    /\ \A s, t \in tokens : s.id = t.id => s = t
    /\ calls \in [Calls -> Call \cup {None}]
    /\ clock \in 0..MaxTime
    /\ {s.id : s \in sessions} \subseteq drawn /\ drawn \subseteq Sessions \cup Tokens
    /\ latest \in [Users \X Purposes -> Tokens \cup {None}]
    /\ uses \in [Tokens -> Nat]
    /\ disables \in 0..MaxDisables

Init ==
    /\ accounts \in SUBSET Users
    /\ password \in [Users -> Passwords \cup {None}]
    /\ \A u \in Users \ accounts : password[u] = None
    /\ disabled = {}
    /\ tokens = {}
    /\ sessions = {}
    /\ calls = [c \in Calls |-> None]
    /\ clock = 0
    /\ drawn = {}
    /\ latest = [p \in Users \X Purposes |-> None]
    /\ uses = [t \in Tokens |-> 0]
    /\ disables = 0

-----------------------------------------------------------------------------
(* Helpers                                                                 *)

Of(u, purpose) == {t \in tokens : t.user = u /\ t.purpose = purpose}

\* The rowid of an INSERT: one more than the largest left in the table.
NextId(rows) == IF rows = {} THEN 1 ELSE 1 + CHOOSE n \in {t.id : t \in rows} :
                                                \A t \in rows : t.id <= n

\* findActiveByHash
Active(t, purpose) == t.purpose = purpose /\ ~t.used /\ t.expires > clock

\* createForUser
Open(s, u, by, late) ==
    /\ s \in Sessions \ drawn
    /\ drawn' = drawn \cup {s}
    /\ sessions' = sessions \cup {[id |-> s, user |-> u, by |-> by,
                                   expires |-> clock + SessionTTL, seen |-> clock,
                                   late |-> late, kept |-> FALSE]}

\* getByCookie: what requireUser accepts.
Accepted(s) == s \in sessions /\ s.user \notin disabled /\ s.expires > clock

\* touch, on the way through requireUser: not more than once a throttle.
Touched(s) ==
    IF clock - s.seen < TouchThrottle THEN sessions
    ELSE (sessions \ {s}) \cup {[s EXCEPT !.seen = clock]}

\* deleteAllForUser and deleteAllForUserExcept
SignedOut(u) == {s \in sessions : s.user # u}
SignedOutBut(u, id) == {s \in sessions : s.user = u => s.id = id}

Await(c, call) == calls[c] = None /\ calls' = [calls EXCEPT ![c] = call]

Return(c) == calls' = [calls EXCEPT ![c] = None]

\* A password was set by call c: the logins that await verified another one.
ReturnChanged(c, u) ==
    calls' = [d \in Calls |->
                IF d = c THEN None
                ELSE IF calls[d] # None /\ calls[d].kind = "login" /\ calls[d].user = u
                       THEN [calls[d] EXCEPT !.late = TRUE]
                       ELSE calls[d]]

-----------------------------------------------------------------------------
(* Tokens                                                                  *)

\* Mutant of Mint: earlier tokens stay.
MintMore(u, purpose, raw) ==
    /\ raw \in Tokens \ drawn /\ drawn' = drawn \cup {raw}
    /\ tokens' = tokens \cup
                     {[id |-> NextId(tokens), raw |-> raw, user |-> u, purpose |-> purpose,
                       used |-> FALSE,
                       expires |-> clock + IF purpose = "magic_link" THEN LinkTTL ELSE ResetTTL]}
    /\ latest' = [latest EXCEPT ![<<u, purpose>>] = raw]

\* mintToken: the user's earlier tokens of this purpose are deleted.
Mint(u, purpose, raw) ==
    /\ raw \in Tokens \ drawn /\ drawn' = drawn \cup {raw}
    /\ LET others == tokens \ Of(u, purpose)
       IN  tokens' = others \cup
                     {[id |-> NextId(others), raw |-> raw, user |-> u, purpose |-> purpose,
                       used |-> FALSE,
                       expires |-> clock + IF purpose = "magic_link" THEN LinkTTL ELSE ResetTTL]}
    /\ latest' = [latest EXCEPT ![<<u, purpose>>] = raw]

\* sendMagicLink and sendPasswordReset.
SendToken(u, purpose, raw) ==
    /\ Mint(u, purpose, raw)
    /\ UNCHANGED <<password, disabled, sessions, calls, clock, uses, disables>>

\* POST /magic-link: the first one of the super admin creates the account.
RequestLink(u, raw) ==
    /\ u \in accounts \cup SuperAdmins
    /\ u \notin disabled
    /\ accounts' = accounts \cup {u}
    /\ SendToken(u, "magic_link", raw)

\* POST /forgot: only for those who have a password to forget.
RequestReset(u, raw) ==
    /\ u \in accounts \ disabled
    /\ password[u] # None
    /\ SendToken(u, "password_reset", raw)
    /\ UNCHANGED accounts

\* POST /users of the admin, with an invitation or (sendInvite = false) none.
InviteUser(u, raw) ==
    /\ u \notin accounts
    /\ accounts' = accounts \cup {u}
    /\ \/ SendToken(u, "magic_link", raw)
       \/ UNCHANGED <<password, disabled, tokens, sessions, calls, clock, drawn, latest, uses,
                      disables>>

\* send-magic-link and send-reset of the admin, who may reset an account that
\* never had a password.
AdminSends(u, purpose, raw) ==
    /\ u \in accounts \ disabled
    /\ SendToken(u, purpose, raw)
    /\ UNCHANGED accounts

\* Mutant of MarkUsed: WHERE id = ? without AND used_at IS NULL.
MarkUsedAgain(id) ==
    /\ \E t \in tokens : t.id = id
    /\ tokens' = {IF t.id = id THEN [t EXCEPT !.used = TRUE] ELSE t : t \in tokens}

\* markUsed: a compare-and-set by row id.
MarkUsed(id) ==
    /\ \E t \in tokens : t.id = id /\ ~t.used
    /\ tokens' = {IF t.id = id THEN [t EXCEPT !.used = TRUE] ELSE t : t \in tokens}

\* POST /verify, in one transaction.
VerifyLink(t, s) ==
    /\ t \in tokens /\ Active(t, "magic_link")
    /\ MarkUsed(t.id)
    /\ Open(s, t.user, t.raw, FALSE)
    /\ uses' = [uses EXCEPT ![t.raw] = @ + 1]
    /\ UNCHANGED <<accounts, password, disabled, calls, clock, latest, disables>>

\* POST /reset as far as the await of bcrypt.
ResetBegins(c, t, pw) ==
    /\ t \in tokens /\ Active(t, "password_reset")
    /\ Await(c, [kind |-> "reset", user |-> t.user, password |-> pw, id |-> t.id,
                 raw |-> t.raw])
    /\ UNCHANGED <<accounts, password, disabled, tokens, sessions, clock, drawn, latest, uses,
                   disables>>

ResetEnds(c) ==
    /\ calls[c] # None /\ calls[c].kind = "reset"
    /\ LET call == calls[c]
       IN  \/ /\ MarkUsed(call.id)
              /\ password' = [password EXCEPT ![call.user] = call.password]
              /\ sessions' = SignedOut(call.user)
              /\ uses' = [uses EXCEPT ![call.raw] = @ + 1]
              /\ ReturnChanged(c, call.user)
           \/ /\ \A t \in tokens : t.id = call.id => t.used
              /\ Return(c)
              /\ UNCHANGED <<password, tokens, sessions, uses>>
    /\ UNCHANGED <<accounts, disabled, clock, drawn, latest, disables>>

-----------------------------------------------------------------------------
(* Passwords                                                               *)

\* POST /login as far as the await.
LoginBegins(c, u) ==
    /\ u \in accounts \ disabled /\ password[u] # None
    /\ Await(c, [kind |-> "login", user |-> u, password |-> password[u], late |-> FALSE])
    /\ UNCHANGED <<accounts, password, disabled, tokens, sessions, clock, drawn, latest, uses,
                   disables>>

LoginEnds(c, s) ==
    /\ calls[c] # None /\ calls[c].kind = "login"
    /\ Open(s, calls[c].user, calls[c].password, calls[c].late)
    /\ Return(c)
    /\ UNCHANGED <<accounts, password, disabled, tokens, clock, latest, uses, disables>>

\* changePassword as far as its awaits; without a password none is asked for.
ChangeBegins(c, s, pw) ==
    /\ Accepted(s)
    /\ Await(c, [kind |-> "change", user |-> s.user, password |-> pw, session |-> s.id])
    /\ sessions' = Touched(s)
    /\ UNCHANGED <<accounts, password, disabled, tokens, clock, drawn, latest, uses, disables>>

\* Mutant of ChangeEnds: the other sessions stay.
ChangeEndsQuietly(c) ==
    /\ calls[c] # None /\ calls[c].kind = "change"
    /\ LET call == calls[c]
       IN  /\ password' = [password EXCEPT ![call.user] = call.password]
           /\ sessions' = {IF s.id = call.session THEN [s EXCEPT !.kept = TRUE] ELSE s :
                              s \in sessions}
           /\ ReturnChanged(c, call.user)
    /\ UNCHANGED <<accounts, disabled, tokens, clock, drawn, latest, uses, disables>>

\* The password and the end of all sessions but the one that changed it.
ChangeEnds(c) ==
    /\ calls[c] # None /\ calls[c].kind = "change"
    /\ LET call == calls[c]
       IN  /\ password' = [password EXCEPT ![call.user] = call.password]
           /\ sessions' = {IF s.id = call.session THEN [s EXCEPT !.kept = TRUE] ELSE s :
                              s \in SignedOutBut(call.user, call.session)}
           /\ ReturnChanged(c, call.user)
    /\ UNCHANGED <<accounts, disabled, tokens, clock, drawn, latest, uses, disables>>

-----------------------------------------------------------------------------
(* Sessions and accounts                                                   *)

Quietly == UNCHANGED <<accounts, password, tokens, calls, drawn, latest, uses>>

\* Any other request with a cookie.
Visit(s) ==
    /\ Accepted(s)
    /\ sessions' = Touched(s)
    /\ Quietly /\ UNCHANGED <<disabled, clock, disables>>

\* POST /logout
Logout(s) ==
    /\ Accepted(s)
    /\ sessions' = sessions \ {s}
    /\ Quietly /\ UNCHANGED <<disabled, clock, disables>>

\* DELETE /api/me/sessions/:id: another session of one's own, or this one.
RevokeOwn(s, t) ==
    /\ Accepted(s)
    /\ t \in sessions /\ t.user = s.user
    /\ sessions' = {r \in Touched(s) : r.id # t.id}
    /\ Quietly /\ UNCHANGED <<disabled, clock, disables>>

\* POST /api/me/sessions/revoke-others
RevokeOthers(s) ==
    /\ Accepted(s)
    /\ sessions' = {t \in Touched(s) : t.user = s.user => t.id = s.id}
    /\ Quietly /\ UNCHANGED <<disabled, clock, disables>>

\* DELETE /api/admin/sessions/:id
AdminRevokes(s) ==
    /\ s \in sessions
    /\ sessions' = sessions \ {s}
    /\ Quietly /\ UNCHANGED <<disabled, clock, disables>>

\* sign-out-everywhere
SignOutEverywhere(u) ==
    /\ u \in accounts
    /\ sessions' = SignedOut(u)
    /\ Quietly /\ UNCHANGED <<disabled, clock, disables>>

\* POST disable, which ends the user's sessions, but not what they await.
Disable(u) ==
    /\ disables < MaxDisables /\ disables' = disables + 1
    /\ u \in accounts \ SuperAdmins
    /\ disabled' = disabled \cup {u}
    /\ sessions' = SignedOut(u)
    /\ Quietly /\ UNCHANGED clock

\* POST enable
Enable(u) ==
    /\ disables < MaxDisables /\ disables' = disables + 1
    /\ u \in accounts
    /\ disabled' = disabled \ {u}
    /\ Quietly /\ UNCHANGED <<sessions, clock>>

Tick ==
    /\ clock < MaxTime /\ clock' = clock + 1
    /\ Quietly /\ UNCHANGED <<disabled, sessions, disables>>

-----------------------------------------------------------------------------
Next ==
    \/ \E u \in Users :
         \/ \E raw \in Tokens :
              \/ RequestLink(u, raw) \/ RequestReset(u, raw) \/ InviteUser(u, raw)
              \/ \E purpose \in Purposes : AdminSends(u, purpose, raw)
         \/ \E c \in Calls : LoginBegins(c, u)
         \/ SignOutEverywhere(u) \/ Disable(u) \/ Enable(u)
    \/ \E t \in tokens :
         \/ \E s \in Sessions : VerifyLink(t, s)
         \/ \E c \in Calls, pw \in Passwords : ResetBegins(c, t, pw)
    \/ \E c \in Calls :
         \/ ResetEnds(c) \/ ChangeEnds(c)
         \/ \E s \in Sessions : LoginEnds(c, s)
         \/ \E s \in sessions, pw \in Passwords : ChangeBegins(c, s, pw)
    \/ \E s \in sessions :
         \/ Visit(s) \/ Logout(s) \/ RevokeOthers(s) \/ AdminRevokes(s)
         \/ \E t \in sessions : RevokeOwn(s, t)
    \/ Tick

Spec == Init /\ [][Next]_vars

-----------------------------------------------------------------------------
(* Properties                                                              *)

\* A token is accepted once, whatever awaits bcrypt meanwhile.  Excepted is a
\* reset that awaited while a newer token took the row id of its own: markUsed
\* goes by that id and succeeds a second time.
TokenUsedOnce ==
    /\ TypeOK
    /\ \A raw \in Tokens : uses[raw] > 1 =>
          \A u \in Users : latest[<<u, "magic_link">>] # raw /\ latest[<<u, "password_reset">>] # raw

\* Of several links on their way only the one minted last opens a session.
LatestLink ==
    \A s \in sessions' : s.id \notin drawn /\ s.by \in Tokens =>
        latest[<<s.user, "magic_link">>] = s.by

\* Whenever a session is opened.
LatestLinkOnly == [][LatestLink]_vars

\* Once the password is changed or reset, no session opened with an earlier
\* one is left but that which changed it and those whose login was under way.
OldPasswordsGone ==
    \A s \in sessions : s.by \in Passwords /\ s.by # password[s.user] => s.late \/ s.kept
=============================================================================
