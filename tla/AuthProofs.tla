----------------------------- MODULE AuthProofs -----------------------------
(***************************************************************************)
(* Theorems about Auth, for every set of users, passwords, sessions,       *)
(* tokens and awaiting handlers, and every bound.                          *)
(*                                                                         *)
(* The invariant has two halves.  TokensSound says what mintToken and      *)
(* markUsed keep: a row of auth_tokens is the last one minted for its user *)
(* and purpose and is accepted only while it has not been; an awaiting     *)
(* reset names the row of its token, or no row has that token any more.    *)
(* PasswordsSound says what an awaiting login knows: the password of the   *)
(* account, or it is marked late.                                          *)
(***************************************************************************)
EXTENDS Auth, FiniteSetTheorems, TLAPS

Token1(ts) ==
    /\ ts \subseteq Token
    /\ \A s, t \in ts : s.id = t.id => s = t

Session1(ss, dr) ==
    /\ ss \subseteq Session
    /\ \A s, t \in ss : s.id = t.id => s = t
    /\ \A s \in ss : s.id \in dr

\* TypeOK in parts.
LEMMA TypeParts ==
    TypeOK <=>
      /\ accounts \subseteq Users
      /\ password \in [Users -> Passwords \cup {None}]
      /\ disabled \subseteq Users \ SuperAdmins
      /\ Token1(tokens)
      /\ Session1(sessions, drawn)
      /\ calls \in [Calls -> Call \cup {None}]
      /\ clock \in 0..MaxTime
      /\ drawn \subseteq Sessions \cup Tokens
      /\ latest \in [Users \X Purposes -> Tokens \cup {None}]
      /\ uses \in [Tokens -> Nat]
      /\ disables \in 0..MaxDisables
  BY ZenonT(30) DEF TypeOK, Token1, Session1

\* A row of auth_tokens is the last minted of its kind, no two hold the same
\* token, and its token was accepted only if it is marked used.
TokenRows ==
    /\ IsFiniteSet(tokens)
    /\ \A t \in tokens : t.raw \in drawn
    /\ \A s, t \in tokens : s.raw = t.raw => s = t
    /\ \A t \in tokens : latest[<<t.user, t.purpose>>] = t.raw
    /\ \A t \in tokens : uses[t.raw] = 0 \/ (uses[t.raw] = 1 /\ t.used)

\* What was minted last is a row, and what was never minted was never accepted.
LatestRows ==
    /\ \A u \in Users, p \in Purposes :
         latest[<<u, p>>] # None =>
           \E t \in tokens : t.user = u /\ t.purpose = p /\ t.raw = latest[<<u, p>>]
    /\ \A raw \in Tokens \ drawn : uses[raw] = 0

\* An awaiting reset has the id of its token's row, if there is one.
ResetsKnow ==
    \A c \in Calls : calls[c] # None /\ calls[c].kind = "reset" =>
        /\ calls[c].raw \in drawn
        /\ \A t \in tokens : t.raw = calls[c].raw => t.id = calls[c].id

TokensSound == TokenRows /\ LatestRows /\ ResetsKnow

\* An awaiting login has verified the password of the account, or is late.
LoginsKnow ==
    \A c \in Calls : calls[c] # None /\ calls[c].kind = "login" =>
        calls[c].late \/ calls[c].password = password[calls[c].user]

PasswordsSound == LoginsKnow /\ OldPasswordsGone

IInv == TypeOK /\ TokensSound /\ PasswordsSound

-----------------------------------------------------------------------------
(* Row ids                                                                 *)

\* A finite set of numbers has a largest one.
LEMMA LargestNumber ==
    ASSUME NEW S, IsFiniteSet(S), S \subseteq Nat, S # {}
    PROVE  \E m \in S : \A n \in S : n <= m
<1> DEFINE Above(n) == {k \in S : n < k}
           F == {Above(n) : n \in S}
<1>1. F \subseteq FiniteSubsetsOf(S) /\ F # {}
  <2>1. F \subseteq SUBSET S /\ F # {}
    BY Zenon
  <2>2. FiniteSubsetsOf(S) = SUBSET S
    BY FS_FiniteSubsetsOfFinite
  <2> QED
    BY <2>1, <2>2, Zenon
<1>2. IsWellFoundedOn(StrictSubsetOrdering(S), FiniteSubsetsOf(S))
  BY FS_StrictSubsetOrderingWellFounded
<1>3. PICK u \in F : \A v \in F : ~(<<v, u>> \in StrictSubsetOrdering(S))
  <2> HIDE DEF F
  <2> QED
    BY <1>1, <1>2, WFMin
<1>4. PICK m \in S : u = Above(m)
  BY <1>3, Zenon
<1>5. ASSUME NEW n \in S PROVE n <= m
  <2>1. SUFFICES ASSUME m < n PROVE FALSE
    BY <1>4
  <2>2. n \in Above(m) /\ n \notin Above(n) /\ Above(n) \subseteq Above(m)
    <3>1. n \in Nat /\ m \in Nat /\ \A k \in S : k \in Nat
      BY <1>4
    <3>2. n \in Above(m)
      BY <2>1
    <3>3. ~(n < n)
      BY <3>1
    <3>4. \A k \in S : n < k => m < k
      BY <2>1, <3>1
    <3> QED
      BY <3>2, <3>3, <3>4
  <2>3. <<Above(n), Above(m)>> \in StrictSubsetOrdering(S)
    BY <2>2 DEF StrictSubsetOrdering
  <2>4. Above(n) \in F
    BY Zenon
  <2> HIDE DEF F, Above
  <2> QED
    BY <1>3, <1>4, <2>3, <2>4, Zenon
<1> QED
  BY <1>5, Zenon

\* What a function maps a finite set onto is finite.
LEMMA FiniteImage ==
    ASSUME NEW S, IsFiniteSet(S), NEW T, NEW f \in [S -> T],
           \A y \in T : \E x \in S : f[x] = y
    PROVE  IsFiniteSet(T)
<1>1. f \in Surjection(S, T)
  BY Zenon DEF Surjection
<1> QED
  BY <1>1, FS_Surjection

\* The id of a new row is not that of another row.
LEMMA NewId ==
    ASSUME NEW ts \in SUBSET Token, IsFiniteSet(ts)
    PROVE  NextId(ts) \in Nat \ {0} /\ \A t \in ts : t.id # NextId(ts)
<1> DEFINE ids == {t.id : t \in ts}
<1>1. CASE ts = {}
  BY <1>1 DEF NextId
<1>2. CASE ts # {}
  <2>1. \A t \in ts : t.id \in Nat \ {0}
    BY DEF Token
  <2>2. ids \subseteq Nat /\ ids # {}
    BY <1>2, <2>1
  <2>3. IsFiniteSet(ids)
    <3> DEFINE f == [t \in ts |-> t.id]
    <3>1. f \in [ts -> ids] /\ \A y \in ids : \E x \in ts : f[x] = y
      OBVIOUS
    <3> HIDE DEF f, ids
    <3> QED
      BY <3>1, FiniteImage
  <2>4. \E n \in ids : \A k \in ids : k <= n
    BY <2>2, <2>3, LargestNumber, Zenon
  <2>5. \E n \in ids : \A t \in ts : t.id <= n
    BY <2>4
  <2> DEFINE top == CHOOSE n \in ids : \A t \in ts : t.id <= n
  <2>6. top \in ids /\ \A t \in ts : t.id <= top
    BY <2>5, Zenon
  <2>7. NextId(ts) = 1 + top
    BY <1>2, Zenon DEF NextId
  <2> HIDE DEF top
  <2>8. top \in Nat
    BY <2>2, <2>6
  <2> QED
    BY <2>1, <2>6, <2>7, <2>8
<1> QED
  BY <1>1, <1>2

-----------------------------------------------------------------------------
(* Types of the writes                                                     *)

LEMMA ConstantTypes ==
    /\ LinkTTL \in Nat /\ ResetTTL \in Nat /\ SessionTTL \in Nat
    /\ MaxTime \in Nat /\ MaxDisables \in Nat
    /\ None \notin Users /\ None \notin Passwords /\ None \notin Tokens
    /\ Passwords \cap Tokens = {}
    /\ SuperAdmins \subseteq Users
  BY AuthAssumption DEF AuthAssumption

LEMMA MintTypes ==
    ASSUME TypeOK, IsFiniteSet(tokens), NEW u \in Users, NEW purpose \in Purposes,
           NEW raw \in Tokens, Mint(u, purpose, raw)
    PROVE  /\ Token1(tokens')
           /\ IsFiniteSet(tokens')
           /\ latest' \in [Users \X Purposes -> Tokens \cup {None}]
           /\ drawn' \subseteq Sessions \cup Tokens
           /\ drawn \subseteq drawn'
<1> DEFINE others == tokens \ Of(u, purpose)
           ttl == IF purpose = "magic_link" THEN LinkTTL ELSE ResetTTL
           new == [id |-> NextId(others), raw |-> raw, user |-> u, purpose |-> purpose,
                   used |-> FALSE, expires |-> clock + ttl]
<1>1. tokens' = others \cup {new}
  BY DEF Mint
<1>2. /\ others \in SUBSET Token
      /\ others \in SUBSET tokens
      /\ \A s, t \in others : s.id = t.id => s = t
  BY DEF TypeOK
<1>3. IsFiniteSet(others)
  BY <1>2, FS_Subset
<1>4. NextId(others) \in Nat \ {0} /\ \A t \in others : t.id # NextId(others)
  BY <1>2, <1>3, NewId
<1>5. clock + ttl \in Nat
  BY ConstantTypes DEF TypeOK
<1>6. new \in Token /\ new.id = NextId(others)
  <2> HIDE DEF others, ttl
  <2> QED
    BY <1>4, <1>5 DEF Token
<1> HIDE DEF others, new
<1>7. Token1(tokens')
  <2>1. tokens' \subseteq Token
    BY <1>1, <1>2, <1>6
  <2>2. ASSUME NEW s \in tokens', NEW t \in tokens', s.id = t.id PROVE s = t
    BY <1>1, <1>2, <1>4, <1>6, <2>2, Zenon
  <2> QED
    BY <2>1, <2>2, Zenon DEF Token1
<1>8. IsFiniteSet(tokens')
  BY <1>1, <1>3, FS_AddElement
<1>9. latest' \in [Users \X Purposes -> Tokens \cup {None}]
  BY DEF Mint, TypeOK
<1>10. drawn' \subseteq Sessions \cup Tokens /\ drawn \subseteq drawn'
  BY DEF Mint, TypeOK
<1> QED
  BY <1>7, <1>8, <1>9, <1>10

\* What markUsed does to the rows: one is set, the others stay.
LEMMA MarkUsedRows ==
    ASSUME TypeOK, IsFiniteSet(tokens), NEW id, MarkUsed(id)
    PROVE  /\ Token1(tokens')
           /\ IsFiniteSet(tokens')
           /\ \A r \in tokens' : \E t \in tokens :
                /\ r.id = t.id /\ r.raw = t.raw /\ r.user = t.user /\ r.purpose = t.purpose
                /\ t.id # id => r = t
                /\ t.id = id => ~t.used /\ r.used
           /\ \A t \in tokens : \E r \in tokens' :
                r.raw = t.raw /\ r.user = t.user /\ r.purpose = t.purpose
<1> DEFINE f == [t \in tokens |-> IF t.id = id THEN [t EXCEPT !.used = TRUE] ELSE t]
<1>1. PICK h \in tokens : h.id = id /\ ~h.used
  BY DEF MarkUsed
<1>2. tokens' = {f[t] : t \in tokens}
  BY DEF MarkUsed
<1>3. \A t \in tokens : t \in Token
  BY DEF TypeOK
<1>4. ASSUME NEW t \in tokens
      PROVE  /\ f[t] \in Token
             /\ f[t].id = t.id /\ f[t].raw = t.raw /\ f[t].user = t.user
             /\ f[t].purpose = t.purpose
             /\ t.id # id => f[t] = t
             /\ t.id = id => ~t.used /\ f[t].used
  <2>1. CASE t.id = id
    <3>1. t = h
      BY <1>1, <2>1 DEF TypeOK
    <3>2. f[t] = [t EXCEPT !.used = TRUE] /\ t \in Token
      BY <1>3, <2>1
    <3> HIDE DEF f
    <3> QED
      BY <1>1, <2>1, <3>1, <3>2 DEF Token
  <2>2. CASE t.id # id
    <3>1. f[t] = t /\ t \in Token
      BY <1>3, <2>2
    <3> HIDE DEF f
    <3> QED
      BY <2>2, <3>1, Zenon
  <2> QED
    BY <2>1, <2>2
<1>5. f \in [tokens -> tokens']
  BY <1>2
<1> HIDE DEF f
<1>6. IsFiniteSet(tokens')
  BY <1>2, <1>5, FiniteImage, Zenon
<1>7. Token1(tokens')
  <2>1. tokens' \subseteq Token
    <3>1. \A t \in tokens : f[t] \in Token
      BY <1>4
    <3> QED
      BY <1>2, <3>1
  <2>2. ASSUME NEW r \in tokens', NEW s \in tokens', r.id = s.id PROVE r = s
    <3>1. PICK t \in tokens, v \in tokens : r = f[t] /\ s = f[v]
      BY <1>2, Zenon
    <3>2. t.id = v.id
      BY <1>4, <2>2, <3>1, Zenon
    <3>3. t = v
      BY <3>2, Zenon DEF TypeOK
    <3> QED
      BY <3>1, <3>3, Zenon
  <2> QED
    BY <2>1, <2>2, Zenon DEF Token1
<1>8. ASSUME NEW r \in tokens'
      PROVE  \E t \in tokens :
                /\ r.id = t.id /\ r.raw = t.raw /\ r.user = t.user /\ r.purpose = t.purpose
                /\ t.id # id => r = t
                /\ t.id = id => ~t.used /\ r.used
  <2>1. PICK t \in tokens : r = f[t]
    BY <1>2
  <2> QED
    BY <1>4, <2>1
<1>9. \A t \in tokens : \E r \in tokens' :
        r.raw = t.raw /\ r.user = t.user /\ r.purpose = t.purpose
  <2>1. ASSUME NEW t \in tokens
        PROVE  /\ f[t] \in tokens'
               /\ f[t].raw = t.raw /\ f[t].user = t.user /\ f[t].purpose = t.purpose
    BY <1>2, <1>4
  <2> QED
    BY <2>1, Zenon
<1> QED
  BY <1>6, <1>7, <1>8, <1>9

LEMMA OpenTypes ==
    ASSUME TypeOK, NEW s, NEW u \in Users, NEW by \in Passwords \cup Tokens,
           NEW late \in BOOLEAN, Open(s, u, by, late)
    PROVE  /\ Session1(sessions', drawn')
           /\ drawn' \subseteq Sessions \cup Tokens
           /\ drawn \subseteq drawn'
           /\ s \notin drawn
           /\ \A r \in sessions' : r \in sessions \/ (/\ r.id = s /\ r.user = u /\ r.by = by
                                                   /\ r.late = late)
<1> DEFINE new == [id |-> s, user |-> u, by |-> by, expires |-> clock + SessionTTL,
                   seen |-> clock, late |-> late, kept |-> FALSE]
<1>1. /\ s \in Sessions /\ s \notin drawn
      /\ drawn' = drawn \cup {s}
      /\ sessions' = sessions \cup {new}
  BY DEF Open
<1>2. clock \in Nat /\ clock + SessionTTL \in Nat
  BY ConstantTypes DEF TypeOK
<1>3. new \in Session /\ new.id = s /\ new.user = u /\ new.by = by /\ new.late = late
  BY <1>1, <1>2 DEF Session
<1> HIDE DEF new
<1>4. \A r \in sessions : r.id \in drawn /\ r \in Session
  BY DEF TypeOK
<1>5. Session1(sessions', drawn')
  <2>1. sessions' \subseteq Session
    BY <1>1, <1>3, <1>4
  <2>2. ASSUME NEW r \in sessions', NEW t \in sessions', r.id = t.id PROVE r = t
    <3>1. \A x, y \in sessions : x.id = y.id => x = y
      BY Zenon DEF TypeOK
    <3> QED
      BY <1>1, <1>3, <1>4, <2>2, <3>1
  <2>3. \A r \in sessions' : r.id \in drawn'
    BY <1>1, <1>3, <1>4
  <2> QED
    BY <2>1, <2>2, <2>3, Zenon DEF Session1
<1>6. drawn' \subseteq Sessions \cup Tokens /\ drawn \subseteq drawn'
  BY <1>1 DEF TypeOK
<1> QED
  BY <1>1, <1>3, <1>5, <1>6, Zenon

\* Every session left is one there was, but for when it was seen.
Descend(new) ==
    \A r \in new : \E s \in sessions :
        r.id = s.id /\ r.user = s.user /\ r.by = s.by /\ r.late = s.late /\ r.kept = s.kept

LEMMA SubsetDescends ==
    ASSUME TypeOK, NEW new, new \subseteq sessions
    PROVE  Session1(new, drawn) /\ Descend(new)
<1>1. Session1(sessions, drawn)
  BY TypeParts, Zenon
<1>2. Session1(new, drawn)
  BY <1>1, Zenon DEF Session1
<1>3. Descend(new)
  BY Zenon DEF Descend
<1> QED
  BY <1>2, <1>3

LEMMA TouchedDescends ==
    ASSUME TypeOK, NEW s \in sessions, NEW new, new \subseteq Touched(s)
    PROVE  Session1(new, drawn) /\ Descend(new)
<1>1. CASE Touched(s) = sessions
  BY <1>1, SubsetDescends
<1>2. CASE Touched(s) = (sessions \ {s}) \cup {[s EXCEPT !.seen = clock]}
  <2> DEFINE e == [s EXCEPT !.seen = clock]
  <2>1. s \in Session /\ clock \in Nat
    BY ConstantTypes DEF TypeOK
  <2>2. /\ e \in Session
        /\ e.id = s.id /\ e.user = s.user /\ e.by = s.by /\ e.late = s.late /\ e.kept = s.kept
    BY <2>1 DEF Session
  <2> HIDE DEF e
  <2>3. \A r \in new : r = e \/ (r \in sessions /\ r # s)
    BY <1>2 DEF e
  <2>4. Session1(sessions, drawn)
    BY TypeParts, Zenon
  <2>5. new \subseteq Session /\ \A r \in new : r.id \in drawn
    BY <2>2, <2>3, <2>4, Zenon DEF Session1
  <2>6. \A r, t \in new : r.id = t.id => r = t
    BY <2>2, <2>3, <2>4, Zenon DEF Session1
  <2>7. Descend(new)
    BY <2>2, <2>3, Zenon DEF Descend
  <2> QED
    BY <2>5, <2>6, <2>7, Zenon DEF Session1
<1> QED
  BY <1>1, <1>2 DEF Touched

-----------------------------------------------------------------------------
(* Steps that open no session and use no token                             *)

LEMMA TypePartsNext ==
    ASSUME accounts' \subseteq Users,
           password' \in [Users -> Passwords \cup {None}],
           disabled' \subseteq Users \ SuperAdmins,
           Token1(tokens'),
           Session1(sessions', drawn'),
           calls' \in [Calls -> Call \cup {None}],
           clock' \in 0..MaxTime,
           drawn' \subseteq Sessions \cup Tokens,
           latest' \in [Users \X Purposes -> Tokens \cup {None}],
           uses' \in [Tokens -> Nat],
           disables' \in 0..MaxDisables
    PROVE  TypeOK'
  BY ZenonT(30) DEF TypeOK, Token1, Session1

LEMMA OldPasswordsStayGone ==
    ASSUME OldPasswordsGone, password' = password, Descend(sessions')
    PROVE  OldPasswordsGone'
<1> SUFFICES ASSUME NEW r \in sessions', r.by \in Passwords, r.by # password[r.user]
             PROVE  r.late \/ r.kept
  BY Zenon DEF OldPasswordsGone
<1>1. PICK s \in sessions :
        r.user = s.user /\ r.by = s.by /\ r.late = s.late /\ r.kept = s.kept
  BY Zenon DEF Descend
<1>2. s.late \/ s.kept
  BY <1>1 DEF OldPasswordsGone
<1> QED
  BY <1>1, <1>2, Zenon

LEMMA NoneOpened ==
    ASSUME TypeOK, Descend(sessions')
    PROVE  LatestLink
<1>1. \A s \in sessions : s.id \in drawn
  BY TypeParts, Zenon DEF Session1
<1> QED
  BY <1>1, Zenon DEF LatestLink, Descend

\* Visits, logouts, revocations, disabling, enabling and the clock.
LEMMA QuietStep ==
    ASSUME IInv, Quietly, Session1(sessions', drawn), Descend(sessions'),
           disabled' \subseteq Users \ SuperAdmins, clock' \in 0..MaxTime,
           disables' \in 0..MaxDisables
    PROVE  IInv' /\ LatestLink
<1>1. /\ accounts' = accounts /\ password' = password /\ tokens' = tokens
      /\ calls' = calls /\ drawn' = drawn /\ latest' = latest /\ uses' = uses
  BY DEF Quietly
<1>2. TypeOK'
  BY <1>1, TypeParts, TypePartsNext DEF IInv
<1>3. TokensSound'
  BY <1>1 DEF IInv, TokensSound, TokenRows, LatestRows, ResetsKnow
<1>4. PasswordsSound'
  <2>1. LoginsKnow'
    BY <1>1 DEF IInv, PasswordsSound, LoginsKnow
  <2>2. OldPasswordsGone'
    BY <1>1, OldPasswordsStayGone DEF IInv, PasswordsSound
  <2> QED
    BY <2>1, <2>2, Zenon DEF PasswordsSound
<1> QED
  BY <1>2, <1>3, <1>4, NoneOpened, Zenon DEF IInv

LEMMA AwaitCalls ==
    ASSUME TypeOK, NEW c \in Calls, NEW call \in Call, Await(c, call)
    PROVE  /\ calls' \in [Calls -> Call \cup {None}]
           /\ \A d \in Calls : calls'[d] = IF d = c THEN call ELSE calls[d]
  BY DEF Await, TypeOK

\* A handler begins to await, having touched its session at most.
LEMMA AwaitStep ==
    ASSUME IInv, NEW c \in Calls, NEW call \in Call, Await(c, call),
           call.kind = "reset" => /\ call.raw \in drawn
                                  /\ \A t \in tokens : t.raw = call.raw => t.id = call.id,
           call.kind = "login" => call.password = password[call.user],
           Session1(sessions', drawn), Descend(sessions'),
           UNCHANGED <<accounts, password, disabled, tokens, clock, drawn, latest, uses,
                       disables>>
    PROVE  IInv' /\ LatestLink
<1>1. /\ calls' \in [Calls -> Call \cup {None}]
      /\ \A d \in Calls : calls'[d] = IF d = c THEN call ELSE calls[d]
  BY AwaitCalls DEF IInv
<1>2. /\ accounts' = accounts /\ password' = password /\ disabled' = disabled
      /\ tokens' = tokens /\ clock' = clock /\ drawn' = drawn /\ latest' = latest
      /\ uses' = uses /\ disables' = disables
  OBVIOUS
<1>3. TypeOK'
  BY <1>1, <1>2, TypeParts, TypePartsNext DEF IInv
<1>4. TokensSound'
  <2>1. ResetsKnow'
    BY <1>1, <1>2, ZenonT(30) DEF IInv, TokensSound, ResetsKnow
  <2> QED
    BY <1>2, <2>1 DEF IInv, TokensSound, TokenRows, LatestRows
<1>5. PasswordsSound'
  <2>1. LoginsKnow'
    BY <1>1, <1>2, Zenon DEF IInv, PasswordsSound, LoginsKnow
  <2>2. OldPasswordsGone'
    BY <1>2, OldPasswordsStayGone DEF IInv, PasswordsSound
  <2> QED
    BY <2>1, <2>2, Zenon DEF PasswordsSound
<1> QED
  BY <1>3, <1>4, <1>5, NoneOpened, Zenon DEF IInv

LEMMA SessionsStay ==
    ASSUME TypeOK, sessions' = sessions
    PROVE  Session1(sessions', drawn) /\ Descend(sessions')
  BY SubsetDescends

LEMMA LoginBeginsStep ==
    ASSUME IInv, NEW c \in Calls, NEW u \in Users, LoginBegins(c, u)
    PROVE  IInv' /\ LatestLink
<1> DEFINE call == [kind |-> "login", user |-> u, password |-> password[u], late |-> FALSE]
<1>1. /\ Await(c, call) /\ password[u] # None
      /\ UNCHANGED <<accounts, password, disabled, tokens, sessions, clock, drawn, latest,
                     uses, disables>>
  BY DEF LoginBegins
<1>2. password[u] \in Passwords
  BY <1>1 DEF IInv, TypeOK
<1>3. call \in Call /\ call.kind = "login" /\ call.password = password[call.user]
  BY <1>2 DEF Call
<1> HIDE DEF call
<1>4. Session1(sessions', drawn) /\ Descend(sessions')
  BY <1>1, SessionsStay DEF IInv
<1> QED
  BY <1>1, <1>3, <1>4, AwaitStep

LEMMA ResetBeginsStep ==
    ASSUME IInv, NEW c \in Calls, NEW t \in tokens, NEW pw \in Passwords,
           ResetBegins(c, t, pw)
    PROVE  IInv' /\ LatestLink
<1> DEFINE call == [kind |-> "reset", user |-> t.user, password |-> pw, id |-> t.id,
                    raw |-> t.raw]
<1>1. /\ Await(c, call)
      /\ UNCHANGED <<accounts, password, disabled, tokens, sessions, clock, drawn, latest,
                     uses, disables>>
  BY DEF ResetBegins
<1>2. t \in Token
  BY DEF IInv, TypeOK
<1>3. call \in Call /\ call.kind = "reset" /\ call.raw = t.raw /\ call.id = t.id
  BY <1>2 DEF Call, Token
<1> HIDE DEF call
<1>4. Session1(sessions', drawn) /\ Descend(sessions')
  BY <1>1, SessionsStay DEF IInv
<1>5. call.raw \in drawn /\ \A r \in tokens : r.raw = call.raw => r.id = call.id
  BY <1>3, Zenon DEF IInv, TokensSound, TokenRows
<1>6. call.kind # "login"
  BY <1>3
<1> QED
  BY <1>1, <1>3, <1>4, <1>5, <1>6, AwaitStep

LEMMA ChangeBeginsStep ==
    ASSUME IInv, NEW c \in Calls, NEW s \in sessions, NEW pw \in Passwords,
           ChangeBegins(c, s, pw)
    PROVE  IInv' /\ LatestLink
<1> DEFINE call == [kind |-> "change", user |-> s.user, password |-> pw, session |-> s.id]
<1>1. /\ Await(c, call) /\ sessions' = Touched(s)
      /\ UNCHANGED <<accounts, password, disabled, tokens, clock, drawn, latest, uses,
                     disables>>
  BY DEF ChangeBegins
<1>2. s \in Session
  BY DEF IInv, TypeOK
<1>3. call \in Call /\ call.kind = "change"
  BY <1>2 DEF Call, Session
<1> HIDE DEF call
<1>4. Session1(sessions', drawn) /\ Descend(sessions')
  BY <1>1, TouchedDescends DEF IInv
<1>5. call.kind # "login" /\ call.kind # "reset"
  BY <1>3
<1> QED
  BY <1>1, <1>3, <1>4, <1>5, AwaitStep

-----------------------------------------------------------------------------
(* Minting                                                                 *)

LEMMA MintTokens ==
    ASSUME IInv, NEW u \in Users, NEW purpose \in Purposes, NEW raw \in Tokens,
           Mint(u, purpose, raw), uses' = uses, calls' = calls
    PROVE  TokensSound'
<1> DEFINE others == tokens \ Of(u, purpose)
           ttl == IF purpose = "magic_link" THEN LinkTTL ELSE ResetTTL
           new == [id |-> NextId(others), raw |-> raw, user |-> u, purpose |-> purpose,
                   used |-> FALSE, expires |-> clock + ttl]
<1>1. /\ raw \notin drawn /\ drawn' = drawn \cup {raw}
      /\ tokens' = others \cup {new}
      /\ latest' = [latest EXCEPT ![<<u, purpose>>] = raw]
  BY DEF Mint
<1>2. new.raw = raw /\ new.user = u /\ new.purpose = purpose
  OBVIOUS
<1>3. \A t \in others : t \in tokens /\ (t.user # u \/ t.purpose # purpose)
  BY DEF Of
<1>4. \A t \in tokens : t \in others \/ (t.user = u /\ t.purpose = purpose)
  BY DEF Of
<1> HIDE DEF others, new
<1>5. latest \in [Users \X Purposes -> Tokens \cup {None}] /\ tokens \subseteq Token
  BY DEF IInv, TypeOK
<1>6. \A t \in tokens : t.user \in Users /\ t.purpose \in Purposes
  BY <1>5 DEF Token
<1>7. /\ latest'[<<u, purpose>>] = raw
      /\ \A v \in Users, q \in Purposes :
           v # u \/ q # purpose => latest'[<<v, q>>] = latest[<<v, q>>]
  BY <1>1, <1>5
<1>8. /\ IsFiniteSet(tokens')
      /\ drawn \subseteq drawn'
  BY MintTypes DEF IInv, TokensSound, TokenRows
<1>9. /\ \A t \in tokens : t.raw \in drawn
      /\ \A s, t \in tokens : s.raw = t.raw => s = t
      /\ \A t \in tokens : latest[<<t.user, t.purpose>>] = t.raw
      /\ \A t \in tokens : uses[t.raw] = 0 \/ (uses[t.raw] = 1 /\ t.used)
      /\ uses[raw] = 0
  BY <1>1, Zenon DEF IInv, TokensSound, TokenRows, LatestRows
<1>10. TokenRows'
  <2>1. \A t \in tokens' : t.raw \in drawn'
    BY <1>1, <1>2, <1>3, <1>9
  <2>2. \A s, t \in tokens' : s.raw = t.raw => s = t
    BY <1>1, <1>2, <1>3, <1>9, Zenon
  <2>3. \A t \in tokens' : latest'[<<t.user, t.purpose>>] = t.raw
    BY <1>1, <1>2, <1>3, <1>6, <1>7, <1>9, ZenonT(30)
  <2>4. \A t \in tokens' : uses[t.raw] = 0 \/ (uses[t.raw] = 1 /\ t.used)
    BY <1>1, <1>2, <1>3, <1>9, Zenon
  <2> QED
    BY <1>8, <2>1, <2>2, <2>3, <2>4, Zenon DEF TokenRows
<1>11. LatestRows'
  <2>1. ASSUME NEW v \in Users, NEW q \in Purposes, latest'[<<v, q>>] # None
        PROVE  \E t \in tokens' : t.user = v /\ t.purpose = q /\ t.raw = latest'[<<v, q>>]
    <3>1. CASE v = u /\ q = purpose
      BY <1>1, <1>2, <1>7, <3>1, Zenon
    <3>2. CASE v # u \/ q # purpose
      <4>0. LatestRows /\ latest'[<<v, q>>] = latest[<<v, q>>]
        BY <1>7, <3>2, Zenon DEF IInv, TokensSound
      <4>. latest[<<v, q>>] # None
        BY <2>1, <4>0, Zenon
      <4>1. PICK t \in tokens : t.user = v /\ t.purpose = q /\ t.raw = latest[<<v, q>>]
        BY <4>0, Zenon DEF LatestRows
      <4>2. t \in tokens'
        BY <1>1, <1>4, <3>2, <4>1
      <4> QED
        BY <1>7, <3>2, <4>1, <4>2, Zenon
    <3> QED
      BY <3>1, <3>2, Zenon
  <2>2. \A r \in Tokens \ drawn' : uses[r] = 0
    BY <1>8, Zenon DEF IInv, TokensSound, LatestRows
  <2> QED
    BY <2>1, <2>2, Zenon DEF LatestRows
<1>12. ResetsKnow'
  <2>1. SUFFICES ASSUME NEW c \in Calls, calls[c] # None, calls[c].kind = "reset"
                 PROVE  /\ calls[c].raw \in drawn'
                        /\ \A t \in tokens' : t.raw = calls[c].raw => t.id = calls[c].id
    BY Zenon DEF ResetsKnow
  <2>2. /\ calls[c].raw \in drawn
        /\ \A t \in tokens : t.raw = calls[c].raw => t.id = calls[c].id
    BY <2>1, Zenon DEF IInv, TokensSound, ResetsKnow
  <2> QED
    BY <1>1, <1>2, <1>3, <2>2, Zenon
<1> QED
  BY <1>10, <1>11, <1>12, Zenon DEF TokensSound

\* The four requests that mail a token.
LEMMA SendStep ==
    ASSUME IInv, NEW u \in Users, NEW purpose \in Purposes, NEW raw \in Tokens,
           SendToken(u, purpose, raw), accounts' \subseteq Users
    PROVE  IInv' /\ LatestLink
<1>1. /\ password' = password /\ disabled' = disabled /\ sessions' = sessions
      /\ calls' = calls /\ clock' = clock /\ uses' = uses /\ disables' = disables
      /\ Mint(u, purpose, raw)
  BY DEF SendToken
<1>2. /\ Token1(tokens') /\ latest' \in [Users \X Purposes -> Tokens \cup {None}]
      /\ drawn' \subseteq Sessions \cup Tokens /\ drawn \subseteq drawn'
  BY <1>1, MintTypes DEF IInv, TokensSound, TokenRows
<1>3. Session1(sessions', drawn')
  <2>1. Session1(sessions, drawn)
    BY TypeParts, Zenon DEF IInv
  <2> QED
    BY <1>1, <1>2, <2>1, Zenon DEF Session1
<1>4. TypeOK'
  BY <1>1, <1>2, <1>3, TypeParts, TypePartsNext DEF IInv
<1>5. TokensSound'
  BY <1>1, MintTokens
<1>6. PasswordsSound'
  BY <1>1 DEF IInv, PasswordsSound, LoginsKnow, OldPasswordsGone
<1>7. Descend(sessions')
  BY <1>1, SessionsStay DEF IInv
<1> QED
  BY <1>4, <1>5, <1>6, <1>7, NoneOpened, Zenon DEF IInv

-----------------------------------------------------------------------------
(* Accepting a token                                                       *)

\* A token is accepted with the row that holds it, or with one that took its
\* id after its own row was deleted.
LEMMA MarkedTokens ==
    ASSUME IInv, NEW id, MarkUsed(id), NEW raw \in Tokens, raw \in drawn,
           \A t \in tokens : t.raw = raw => t.id = id,
           uses' = [uses EXCEPT ![raw] = @ + 1], drawn \subseteq drawn', latest' = latest
    PROVE  /\ TokenRows' /\ LatestRows'
           /\ \A r \in tokens' : \E t \in tokens : r.id = t.id /\ r.raw = t.raw
<1>1. /\ IsFiniteSet(tokens')
      /\ \A r \in tokens' : \E t \in tokens :
           /\ r.id = t.id /\ r.raw = t.raw /\ r.user = t.user /\ r.purpose = t.purpose
           /\ t.id # id => r = t
           /\ t.id = id => ~t.used /\ r.used
      /\ \A t \in tokens : \E r \in tokens' :
           r.raw = t.raw /\ r.user = t.user /\ r.purpose = t.purpose
      /\ Token1(tokens')
  <2>1. TypeOK /\ IsFiniteSet(tokens)
    BY Zenon DEF IInv, TokensSound, TokenRows
  <2> QED
    BY <2>1, MarkUsedRows
<1>0. \A r \in tokens' : \E t \in tokens :
        r.id = t.id /\ r.raw = t.raw /\ r.user = t.user /\ r.purpose = t.purpose
  <2>1. ASSUME NEW r \in tokens'
        PROVE  \E t \in tokens :
                 r.id = t.id /\ r.raw = t.raw /\ r.user = t.user /\ r.purpose = t.purpose
    BY <1>1
  <2> QED
    BY <2>1
<1>2. uses \in [Tokens -> Nat] /\ \A t \in tokens : t.raw \in Tokens
  BY DEF IInv, TypeOK, Token
<1>3. uses'[raw] = uses[raw] + 1 /\ \A r \in Tokens : r # raw => uses'[r] = uses[r]
  BY <1>2
<1>4. /\ \A t \in tokens : t.raw \in drawn
      /\ \A s, t \in tokens : s.raw = t.raw => s = t
      /\ \A t \in tokens : latest[<<t.user, t.purpose>>] = t.raw
      /\ \A t \in tokens : uses[t.raw] = 0 \/ (uses[t.raw] = 1 /\ t.used)
  BY Zenon DEF IInv, TokensSound, TokenRows
<1>5. TokenRows'
  <2>1. ASSUME NEW r \in tokens' PROVE r.raw \in drawn'
    <3>1. PICK t \in tokens : r.raw = t.raw
      BY <1>0, Zenon
    <3> QED
      BY <1>4, <3>1
  <2>2. ASSUME NEW r \in tokens', NEW s \in tokens', r.raw = s.raw PROVE r = s
    <3>1. PICK t \in tokens : r.id = t.id /\ r.raw = t.raw
      BY <1>0, Zenon
    <3>2. PICK v \in tokens : s.id = v.id /\ s.raw = v.raw
      BY <1>0, Zenon
    <3>3. r.id = s.id
      BY <1>4, <2>2, <3>1, <3>2, Zenon
    <3> QED
      BY <1>1, <3>3, Zenon DEF Token1
  <2>3. ASSUME NEW r \in tokens' PROVE latest'[<<r.user, r.purpose>>] = r.raw
    <3>1. PICK t \in tokens : r.raw = t.raw /\ r.user = t.user /\ r.purpose = t.purpose
      BY <1>0, Zenon
    <3>2. latest[<<t.user, t.purpose>>] = t.raw /\ latest' = latest
      BY <1>4, Zenon
    <3> QED
      BY <3>1, <3>2
  <2>4. ASSUME NEW r \in tokens'
        PROVE  uses'[r.raw] = 0 \/ (uses'[r.raw] = 1 /\ r.used)
    <3>1. PICK t \in tokens : /\ r.id = t.id /\ r.raw = t.raw
                              /\ t.id # id => r = t
                              /\ t.id = id => ~t.used /\ r.used
      BY <1>1, Zenon
    <3>2. CASE t.raw = raw
      <4>1. uses[raw] = 0 /\ r.used
        BY <1>4, <3>1, <3>2, Zenon
      <4> QED
        BY <1>3, <3>1, <3>2, <4>1
    <3>3. CASE t.raw # raw
      <4>1. uses'[r.raw] = uses[t.raw]
        BY <1>2, <1>3, <3>1, <3>3, Zenon
      <4>2. t.used => r.used
        BY <3>1, Zenon
      <4> QED
        BY <1>4, <4>1, <4>2, Zenon
    <3> QED
      BY <3>2, <3>3, Zenon
  <2> QED
    BY <1>1, <2>1, <2>2, <2>3, <2>4, Zenon DEF TokenRows
<1>6. LatestRows'
  <2>1. ASSUME NEW v \in Users, NEW q \in Purposes, latest'[<<v, q>>] # None
        PROVE  \E t \in tokens' : t.user = v /\ t.purpose = q /\ t.raw = latest'[<<v, q>>]
    <3>1. latest[<<v, q>>] # None /\ latest' = latest
      BY <2>1
    <3>2. PICK t \in tokens : t.user = v /\ t.purpose = q /\ t.raw = latest[<<v, q>>]
      BY <3>1, Zenon DEF IInv, TokensSound, LatestRows
    <3>3. PICK r \in tokens' : r.raw = t.raw /\ r.user = t.user /\ r.purpose = t.purpose
      BY <1>1, Zenon
    <3> QED
      BY <3>1, <3>2, <3>3
  <2>2. \A r \in Tokens \ drawn' : uses'[r] = 0
    BY <1>3, Zenon DEF IInv, TokensSound, LatestRows
  <2> QED
    BY <2>1, <2>2, Zenon DEF LatestRows
<1>7. \A r \in tokens' : \E t \in tokens : r.id = t.id /\ r.raw = t.raw
  BY <1>0, Zenon
<1> QED
  BY <1>5, <1>6, <1>7

\* What a call that returns, and any it marks late, leaves of the calls.
CallsKeep(u) ==
    \A d \in Calls : calls'[d] # None =>
        /\ calls[d] # None
        /\ calls'[d].kind = calls[d].kind
        /\ calls[d].kind = "reset" => calls'[d] = calls[d]
        /\ calls[d].kind = "login" =>
             /\ calls'[d].user = calls[d].user /\ calls'[d].password = calls[d].password
             /\ calls[d].late => calls'[d].late
             /\ calls[d].user = u => calls'[d].late

LEMMA ReturnChangedCalls ==
    ASSUME TypeOK, NEW c \in Calls, NEW u, ReturnChanged(c, u)
    PROVE  calls' \in [Calls -> Call \cup {None}] /\ CallsKeep(u)
<1>1. ASSUME NEW d \in Calls
      PROVE  /\ calls'[d] \in Call \cup {None}
             /\ calls'[d] # None =>
                  /\ calls[d] # None
                  /\ calls'[d].kind = calls[d].kind
                  /\ calls[d].kind = "reset" => calls'[d] = calls[d]
                  /\ calls[d].kind = "login" =>
                       /\ calls'[d].user = calls[d].user
                       /\ calls'[d].password = calls[d].password
                       /\ calls[d].late => calls'[d].late
                       /\ calls[d].user = u => calls'[d].late
  <2>1. CASE d = c
    BY <2>1 DEF ReturnChanged
  <2>2. CASE d # c /\ calls[d] # None /\ calls[d].kind = "login" /\ calls[d].user = u
    <3>1. calls[d] \in [kind : {"login"}, user : Users, password : Passwords, late : BOOLEAN]
      BY <2>2 DEF TypeOK, Call
    <3>2. calls'[d] = [calls[d] EXCEPT !.late = TRUE]
      BY <2>2 DEF ReturnChanged
    <3> QED
      BY <2>2, <3>1, <3>2 DEF Call
  <2>3. CASE d # c /\ ~(calls[d] # None /\ calls[d].kind = "login" /\ calls[d].user = u)
    <3>1. calls'[d] = calls[d] /\ calls[d] \in Call \cup {None}
      BY <2>3 DEF ReturnChanged, TypeOK
    <3> QED
      BY <2>3, <3>1, Zenon
  <2> QED
    BY <2>1, <2>2, <2>3, Zenon
<1>2. calls' = [d \in Calls |-> calls'[d]]
  BY DEF ReturnChanged
<1>3. calls' \in [Calls -> Call \cup {None}]
  BY <1>1, <1>2
<1>4. CallsKeep(u)
  BY <1>1, Zenon DEF CallsKeep
<1> QED
  BY <1>3, <1>4

\* A call that returns without setting a password makes no login late.
LEMMA ReturnCalls ==
    ASSUME TypeOK, NEW c \in Calls, Return(c)
    PROVE  calls' \in [Calls -> Call \cup {None}] /\ CallsKeep(None)
<1>1. /\ calls' \in [Calls -> Call \cup {None}]
      /\ \A d \in Calls : calls'[d] = None \/ calls'[d] = calls[d]
  BY DEF Return, TypeOK
<1>2. ASSUME NEW d \in Calls, calls[d] # None, calls[d].kind = "login"
      PROVE  calls[d].user # None
  <2>1. calls[d] \in Call
    BY <1>2 DEF TypeOK
  <2>2. calls[d].user \in Users
    BY <1>2, <2>1 DEF Call
  <2> QED
    BY <2>2, ConstantTypes
<1> QED
  BY <1>1, <1>2, Zenon DEF CallsKeep

LEMMA ResetsStillKnow ==
    ASSUME IInv, NEW u, CallsKeep(u), drawn \subseteq drawn',
           \A r \in tokens' : \E t \in tokens : r.id = t.id /\ r.raw = t.raw
    PROVE  ResetsKnow'
<1> SUFFICES ASSUME NEW d \in Calls, calls'[d] # None, calls'[d].kind = "reset"
             PROVE  /\ calls'[d].raw \in drawn'
                    /\ \A r \in tokens' : r.raw = calls'[d].raw => r.id = calls'[d].id
  BY Zenon DEF ResetsKnow
<1>1. calls[d] # None /\ calls[d].kind = "reset" /\ calls'[d] = calls[d]
  BY Zenon DEF CallsKeep
<1>2. /\ calls[d].raw \in drawn
      /\ \A t \in tokens : t.raw = calls[d].raw => t.id = calls[d].id
  BY <1>1, Zenon DEF IInv, TokensSound, ResetsKnow
<1> QED
  BY <1>1, <1>2, Zenon

LEMMA LoginsStillKnow ==
    ASSUME IInv, NEW u, CallsKeep(u), \A v \in Users : v # u => password'[v] = password[v]
    PROVE  LoginsKnow'
<1> SUFFICES ASSUME NEW d \in Calls, calls'[d] # None, calls'[d].kind = "login", ~calls'[d].late
             PROVE  calls'[d].password = password'[calls'[d].user]
  BY Zenon DEF LoginsKnow
<1>1. /\ calls[d] # None /\ calls[d].kind = "login" /\ ~calls[d].late /\ calls[d].user # u
      /\ calls'[d].user = calls[d].user /\ calls'[d].password = calls[d].password
  BY Zenon DEF CallsKeep
<1>2. calls[d].password = password[calls[d].user]
  BY <1>1, Zenon DEF IInv, PasswordsSound, LoginsKnow
<1>3. calls[d].user \in Users
  <2>1. calls[d] \in Call
    BY <1>1 DEF IInv, TypeOK
  <2> QED
    BY <1>1, <2>1 DEF Call
<1> QED
  BY <1>1, <1>2, <1>3, Zenon

LEMMA VerifyLinkStep ==
    ASSUME IInv, NEW t \in tokens, NEW s \in Sessions, VerifyLink(t, s)
    PROVE  IInv' /\ LatestLink
<1>1. /\ t.purpose = "magic_link"
      /\ MarkUsed(t.id) /\ Open(s, t.user, t.raw, FALSE)
      /\ uses' = [uses EXCEPT ![t.raw] = @ + 1]
  BY DEF VerifyLink, Active
<1>2. /\ accounts' = accounts /\ password' = password /\ disabled' = disabled
      /\ calls' = calls /\ clock' = clock /\ latest' = latest /\ disables' = disables
  BY DEF VerifyLink
<1>3. t \in Token /\ t.user \in Users /\ t.raw \in Tokens
  BY DEF IInv, TypeOK, Token
<1>4. TypeOK /\ IsFiniteSet(tokens)
  BY Zenon DEF IInv, TokensSound, TokenRows
<1>5. /\ Session1(sessions', drawn') /\ drawn' \subseteq Sessions \cup Tokens
      /\ drawn \subseteq drawn' /\ s \notin drawn
      /\ \A r \in sessions' :
           r \in sessions \/ (r.id = s /\ r.user = t.user /\ r.by = t.raw /\ r.late = FALSE)
  BY <1>1, <1>3, <1>4, OpenTypes
<1>6. Token1(tokens')
  <2>1. MarkUsed(t.id)
    BY <1>1
  <2> QED
    BY <1>4, <2>1, MarkUsedRows, Zenon
<1>7. uses' \in [Tokens -> Nat]
  BY <1>1, <1>3, <1>4 DEF TypeOK
<1>8. TypeOK'
  BY <1>2, <1>4, <1>5, <1>6, <1>7, TypeParts, TypePartsNext
<1>9. /\ t.raw \in drawn
      /\ \A r \in tokens : r.raw = t.raw => r.id = t.id
      /\ latest[<<t.user, t.purpose>>] = t.raw
  BY Zenon DEF IInv, TokensSound, TokenRows
<1>10. /\ TokenRows' /\ LatestRows'
       /\ \A r \in tokens' : \E v \in tokens : r.id = v.id /\ r.raw = v.raw
  BY <1>1, <1>2, <1>3, <1>5, <1>9, MarkedTokens
<1>11. ResetsKnow'
  <2>1. CallsKeep(None)
    <3>1. \A d \in Calls : calls[d] # None /\ calls[d].kind = "login" => calls[d].user # None
      <4>1. SUFFICES ASSUME NEW d \in Calls, calls[d] # None, calls[d].kind = "login"
                     PROVE  calls[d].user # None
        OBVIOUS
      <4>2. calls[d] \in Call
        BY <1>4, <4>1 DEF TypeOK
      <4>3. calls[d].user \in Users
        BY <4>1, <4>2 DEF Call
      <4> QED
        BY <4>3, ConstantTypes
    <3> QED
      BY <1>2, <3>1, Zenon DEF CallsKeep
  <2> QED
    BY <1>5, <1>10, <2>1, ResetsStillKnow
<1>12. PasswordsSound'
  <2>1. LoginsKnow'
    BY <1>2 DEF IInv, PasswordsSound, LoginsKnow
  <2>2. t.raw \notin Passwords
    BY <1>3, ConstantTypes
  <2>3. OldPasswordsGone'
    BY <1>2, <1>5, <2>2, Zenon DEF IInv, PasswordsSound, OldPasswordsGone
  <2> QED
    BY <2>1, <2>3, Zenon DEF PasswordsSound
<1>13. LatestLink
  <2>1. \A r \in sessions : r.id \in drawn
    BY <1>4, TypeParts, Zenon DEF Session1
  <2>2. latest[<<t.user, "magic_link">>] = t.raw
    BY <1>1, <1>9
  <2> QED
    BY <1>5, <2>1, <2>2, Zenon DEF LatestLink
<1> QED
  BY <1>8, <1>10, <1>11, <1>12, <1>13, Zenon DEF IInv, TokensSound

-----------------------------------------------------------------------------
(* Passwords                                                               *)

\* All sessions of an account end but some that are kept.
LEMMA OthersGone ==
    ASSUME IInv, NEW u \in Users,
           \A v \in Users : v # u => password'[v] = password[v],
           \A r \in sessions' : \E s \in sessions :
             /\ r.user = s.user /\ r.by = s.by /\ r.late = s.late
             /\ s.kept => r.kept
             /\ s.user = u => r.kept
    PROVE  OldPasswordsGone'
<1> SUFFICES ASSUME NEW r \in sessions', r.by \in Passwords, r.by # password'[r.user],
                    ~r.late, ~r.kept
             PROVE  FALSE
  BY Zenon DEF OldPasswordsGone
<1>1. PICK s \in sessions : /\ r.user = s.user /\ r.by = s.by /\ r.late = s.late
                            /\ s.kept => r.kept
                            /\ s.user = u => r.kept
  OBVIOUS
<1>2. s.user \in Users /\ s.user # u
  BY <1>1 DEF IInv, TypeOK, Session
<1>3. s.by \in Passwords /\ s.by # password[s.user] /\ ~s.late /\ ~s.kept
  BY <1>1, <1>2
<1> QED
  BY <1>3, Zenon DEF IInv, PasswordsSound, OldPasswordsGone

LEMMA ResetEndsStep ==
    ASSUME IInv, NEW c \in Calls, ResetEnds(c)
    PROVE  IInv' /\ LatestLink
<1> DEFINE call == calls[c]
<1>1. /\ calls[c] # None /\ calls[c].kind = "reset"
      /\ accounts' = accounts /\ disabled' = disabled /\ clock' = clock
      /\ drawn' = drawn /\ latest' = latest /\ disables' = disables
  BY DEF ResetEnds
<1>2. TypeOK /\ IsFiniteSet(tokens)
  BY Zenon DEF IInv, TokensSound, TokenRows
<1>3. call.user \in Users /\ call.password \in Passwords /\ call.raw \in Tokens
  <2>1. calls[c] \in Call
    BY <1>1, <1>2 DEF TypeOK
  <2> QED
    BY <1>1, <2>1 DEF Call
<1>4. /\ call.raw \in drawn
      /\ \A t \in tokens : t.raw = call.raw => t.id = call.id
  BY <1>1, Zenon DEF IInv, TokensSound, ResetsKnow
<1>5. CASE /\ MarkUsed(call.id)
           /\ password' = [password EXCEPT ![call.user] = call.password]
           /\ sessions' = SignedOut(call.user)
           /\ uses' = [uses EXCEPT ![call.raw] = @ + 1]
           /\ ReturnChanged(c, call.user)
  <2> HIDE DEF call
  <2>1. /\ calls' \in [Calls -> Call \cup {None}] /\ CallsKeep(call.user)
    BY <1>2, <1>5, ReturnChangedCalls
  <2>2. password' \in [Users -> Passwords \cup {None}] /\ uses' \in [Tokens -> Nat]
    BY <1>2, <1>3, <1>5 DEF TypeOK
  <2>3. sessions' \subseteq sessions /\ \A s \in sessions' : s.user # call.user
    BY <1>5 DEF SignedOut
  <2>4. Session1(sessions', drawn) /\ Descend(sessions')
    BY <1>2, <2>3, SubsetDescends
  <2>5. Token1(tokens')
    BY <1>2, <1>5, MarkUsedRows
  <2>6. TypeOK'
    BY <1>1, <1>2, <2>1, <2>2, <2>4, <2>5, TypeParts, TypePartsNext
  <2>7. /\ TokenRows' /\ LatestRows'
        /\ \A r \in tokens' : \E t \in tokens : r.id = t.id /\ r.raw = t.raw
    BY <1>1, <1>3, <1>4, <1>5, MarkedTokens, ZenonT(30)
  <2>8. ResetsKnow'
    BY <1>1, <2>1, <2>7, ResetsStillKnow
  <2>9. \A v \in Users : v # call.user => password'[v] = password[v]
    BY <1>2, <1>5 DEF TypeOK
  <2>10. LoginsKnow'
    BY <2>1, <2>9, LoginsStillKnow
  <2>11. OldPasswordsGone'
    <3>1. \A r \in sessions' : \E s \in sessions :
            /\ r.user = s.user /\ r.by = s.by /\ r.late = s.late
            /\ s.kept => r.kept
            /\ s.user = call.user => r.kept
      BY <2>3, Zenon
    <3> QED
      BY <1>3, <2>9, <3>1, OthersGone
  <2> QED
    BY <1>2, <2>4, <2>6, <2>7, <2>8, <2>10, <2>11, NoneOpened, Zenon
       DEF IInv, TokensSound, PasswordsSound
<1>6. CASE Return(c) /\ UNCHANGED <<password, tokens, sessions, uses>>
  <2>1. calls' \in [Calls -> Call \cup {None}] /\ CallsKeep(None)
    BY <1>2, <1>6, ReturnCalls
  <2>2. password' = password /\ tokens' = tokens /\ sessions' = sessions /\ uses' = uses
    BY <1>6
  <2>3. Session1(sessions', drawn) /\ Descend(sessions')
    BY <1>2, <2>2, SessionsStay
  <2>4. TypeOK'
    BY <1>1, <1>2, <2>1, <2>2, TypeParts, TypePartsNext
  <2>5. TokenRows' /\ LatestRows'
    BY <1>1, <2>2 DEF IInv, TokensSound, TokenRows, LatestRows
  <2>6. ResetsKnow'
    BY <1>1, <2>1, <2>2, ResetsStillKnow
  <2>7. LoginsKnow'
    BY <2>1, <2>2, LoginsStillKnow
  <2>8. OldPasswordsGone'
    BY <2>2, <2>3, OldPasswordsStayGone DEF IInv, PasswordsSound
  <2> QED
    BY <1>2, <2>3, <2>4, <2>5, <2>6, <2>7, <2>8, NoneOpened, Zenon
       DEF IInv, TokensSound, PasswordsSound
<1> QED
  BY <1>5, <1>6 DEF ResetEnds

LEMMA LoginEndsStep ==
    ASSUME IInv, NEW c \in Calls, NEW s \in Sessions, LoginEnds(c, s)
    PROVE  IInv' /\ LatestLink
<1> DEFINE call == calls[c]
<1>1. /\ call # None /\ call.kind = "login"
      /\ Open(s, call.user, call.password, call.late) /\ Return(c)
      /\ accounts' = accounts /\ password' = password /\ disabled' = disabled
      /\ tokens' = tokens /\ clock' = clock /\ latest' = latest /\ uses' = uses
      /\ disables' = disables
  BY DEF LoginEnds
<1>2. TypeOK
  BY DEF IInv
<1>3. call.user \in Users /\ call.password \in Passwords /\ call.late \in BOOLEAN
  <2>1. calls[c] \in Call
    BY <1>1, <1>2 DEF TypeOK
  <2> QED
    BY <1>1, <2>1 DEF Call
<1>4. call.late \/ call.password = password[call.user]
  BY <1>1, Zenon DEF IInv, PasswordsSound, LoginsKnow
<1> HIDE DEF call
<1>5. /\ Session1(sessions', drawn') /\ drawn' \subseteq Sessions \cup Tokens
      /\ drawn \subseteq drawn' /\ s \notin drawn
      /\ \A r \in sessions' :
           \/ r \in sessions
           \/ r.id = s /\ r.user = call.user /\ r.by = call.password /\ r.late = call.late
  <2>1. /\ Open(s, call.user, call.password, call.late)
        /\ call.password \in Passwords \cup Tokens
    BY <1>1, <1>3
  <2>2. CASE call.late = TRUE
    <3>1. Open(s, call.user, call.password, TRUE)
      BY <2>1, <2>2
    <3> QED
      BY <1>2, <1>3, <2>1, <2>2, <3>1, OpenTypes
  <2>3. CASE call.late = FALSE
    <3>1. Open(s, call.user, call.password, FALSE)
      BY <2>1, <2>3
    <3>2. /\ Session1(sessions', drawn') /\ drawn' \subseteq Sessions \cup Tokens
          /\ drawn \subseteq drawn' /\ s \notin drawn
          /\ \A r \in sessions' :
               \/ r \in sessions
               \/ r.id = s /\ r.user = call.user /\ r.by = call.password /\ r.late = FALSE
      <4>1. call.user \in Users /\ call.password \in Passwords \cup Tokens /\ FALSE \in BOOLEAN
        BY <1>3, <2>1
      <4> QED
        BY <1>2, <3>1, <4>1, OpenTypes, ZenonT(60)
    <3> QED
      BY <2>3, <3>2, Zenon
  <2> QED
    BY <1>3, <2>2, <2>3
<1>6. calls' \in [Calls -> Call \cup {None}] /\ CallsKeep(None)
  BY <1>1, <1>2, ReturnCalls
<1>7. TypeOK'
  BY <1>1, <1>2, <1>5, <1>6, TypeParts, TypePartsNext
<1>8. TokenRows' /\ LatestRows'
  BY <1>1, <1>5 DEF IInv, TokensSound, TokenRows, LatestRows
<1>9. ResetsKnow'
  BY <1>1, <1>5, <1>6, ResetsStillKnow
<1>10. LoginsKnow'
  BY <1>1, <1>6, LoginsStillKnow
<1>11. OldPasswordsGone'
  BY <1>1, <1>4, <1>5, Zenon DEF IInv, PasswordsSound, OldPasswordsGone
<1>12. LatestLink
  <2>1. \A r \in sessions : r.id \in drawn
    BY <1>2, TypeParts, Zenon DEF Session1
  <2>2. call.password \notin Tokens
    BY <1>3, ConstantTypes
  <2> QED
    BY <1>5, <2>1, <2>2, Zenon DEF LatestLink
<1> QED
  BY <1>7, <1>8, <1>9, <1>10, <1>11, <1>12, Zenon DEF IInv, TokensSound, PasswordsSound

LEMMA ChangeEndsStep ==
    ASSUME IInv, NEW c \in Calls, ChangeEnds(c)
    PROVE  IInv' /\ LatestLink
<1> DEFINE call == calls[c]
           f == [s \in sessions |-> IF s.id = call.session THEN [s EXCEPT !.kept = TRUE] ELSE s]
<1>1. /\ call # None /\ call.kind = "change"
      /\ password' = [password EXCEPT ![call.user] = call.password]
      /\ sessions' = {f[s] : s \in SignedOutBut(call.user, call.session)}
      /\ ReturnChanged(c, call.user)
      /\ accounts' = accounts /\ disabled' = disabled /\ tokens' = tokens
      /\ clock' = clock /\ drawn' = drawn /\ latest' = latest /\ uses' = uses
      /\ disables' = disables
  BY DEF ChangeEnds, SignedOutBut
<1>2. TypeOK
  BY DEF IInv
<1>3. call.user \in Users /\ call.password \in Passwords
  <2>1. calls[c] \in Call
    BY <1>1, <1>2 DEF TypeOK
  <2> QED
    BY <1>1, <2>1 DEF Call
<1> HIDE DEF call
<1>4. ASSUME NEW s \in sessions
      PROVE  /\ f[s] \in Session
             /\ f[s].id = s.id /\ f[s].user = s.user /\ f[s].by = s.by /\ f[s].late = s.late
             /\ s.kept => f[s].kept
             /\ s.id = call.session => f[s].kept
  <2>1. s \in Session
    BY <1>2 DEF TypeOK
  <2> QED
    BY <2>1 DEF Session
<1> HIDE DEF f
<1>5. \A r \in sessions' : \E s \in sessions :
        r = f[s] /\ (s.user = call.user => s.id = call.session)
  BY <1>1, Zenon DEF SignedOutBut
<1>6. Session1(sessions', drawn)
  <2>1. sessions' \subseteq Session /\ \A r \in sessions' : r.id \in drawn
    <3>1. Session1(sessions, drawn)
      BY <1>2, TypeParts, Zenon
    <3>2. ASSUME NEW r \in sessions' PROVE r \in Session /\ r.id \in drawn
      <4>1. PICK s \in sessions : r = f[s]
        BY <1>5, Zenon
      <4> QED
        BY <1>4, <3>1, <4>1, Zenon DEF Session1
    <3> QED
      BY <3>2, Zenon
  <2>2. ASSUME NEW r \in sessions', NEW t \in sessions', r.id = t.id PROVE r = t
    <3>1. PICK s \in sessions : r = f[s]
      BY <1>5, Zenon
    <3>2. PICK v \in sessions : t = f[v]
      BY <1>5, Zenon
    <3>3. s.id = v.id
      BY <1>4, <2>2, <3>1, <3>2, Zenon
    <3>4. s = v
      BY <1>2, <3>3, Zenon DEF TypeOK
    <3> QED
      BY <3>1, <3>2, <3>4, Zenon
  <2> QED
    BY <2>1, <2>2, Zenon DEF Session1
<1>7. calls' \in [Calls -> Call \cup {None}] /\ CallsKeep(call.user)
  BY <1>1, <1>2, ReturnChangedCalls
<1>8. password' \in [Users -> Passwords \cup {None}]
  BY <1>1, <1>2, <1>3 DEF TypeOK
<1>9. TypeOK'
  BY <1>1, <1>2, <1>6, <1>7, <1>8, TypeParts, TypePartsNext
<1>10. TokenRows' /\ LatestRows'
  BY <1>1 DEF IInv, TokensSound, TokenRows, LatestRows
<1>11. ResetsKnow'
  BY <1>1, <1>7, ResetsStillKnow
<1>12. \A v \in Users : v # call.user => password'[v] = password[v]
  BY <1>1, <1>2 DEF TypeOK
<1>13. LoginsKnow'
  BY <1>7, <1>12, LoginsStillKnow
<1>14. OldPasswordsGone'
  <2>1. \A r \in sessions' : \E s \in sessions :
          /\ r.user = s.user /\ r.by = s.by /\ r.late = s.late
          /\ s.kept => r.kept
          /\ s.user = call.user => r.kept
    <3>1. SUFFICES ASSUME NEW r \in sessions'
                   PROVE  \E s \in sessions :
                            /\ r.user = s.user /\ r.by = s.by /\ r.late = s.late
                            /\ s.kept => r.kept
                            /\ s.user = call.user => r.kept
      OBVIOUS
    <3>2. PICK s \in sessions : r = f[s] /\ (s.user = call.user => s.id = call.session)
      BY <1>5, Zenon
    <3> QED
      BY <1>4, <3>2, Zenon
  <2> QED
    BY <1>3, <1>12, <2>1, OthersGone
<1>15. LatestLink
  <2>1. \A r \in sessions' : r.id \in drawn
    BY <1>6, Zenon DEF Session1
  <2> QED
    BY <2>1, Zenon DEF LatestLink
<1> QED
  BY <1>9, <1>10, <1>11, <1>13, <1>14, <1>15, Zenon DEF IInv, TokensSound, PasswordsSound

-----------------------------------------------------------------------------
(* The invariant                                                           *)

LEMMA InvInit ==
    ASSUME Init
    PROVE  IInv
<1>1. /\ accounts \subseteq Users /\ password \in [Users -> Passwords \cup {None}]
      /\ disabled = {} /\ tokens = {} /\ sessions = {} /\ calls = [c \in Calls |-> None]
      /\ clock = 0 /\ drawn = {} /\ latest = [p \in Users \X Purposes |-> None]
      /\ uses = [t \in Tokens |-> 0] /\ disables = 0
  BY DEF Init
<1>2. Token1(tokens) /\ Session1(sessions, drawn)
  BY <1>1 DEF Token1, Session1
<1>3. TypeOK
  BY <1>1, <1>2, TypeParts, ConstantTypes
<1>4. IsFiniteSet(tokens)
  BY <1>1, FS_EmptySet
<1>5. TokensSound
  BY <1>1, <1>4 DEF TokensSound, TokenRows, LatestRows, ResetsKnow
<1>6. PasswordsSound
  BY <1>1 DEF PasswordsSound, LoginsKnow, OldPasswordsGone
<1> QED
  BY <1>3, <1>5, <1>6, Zenon DEF IInv

\* Requests about an account.
LEMMA AccountStep ==
    ASSUME IInv, NEW u \in Users,
           \/ \E raw \in Tokens :
                \/ RequestLink(u, raw) \/ RequestReset(u, raw) \/ InviteUser(u, raw)
                \/ \E purpose \in Purposes : AdminSends(u, purpose, raw)
           \/ SignOutEverywhere(u) \/ Disable(u) \/ Enable(u)
    PROVE  IInv' /\ LatestLink
<1>1. TypeOK /\ Session1(sessions, drawn) /\ accounts \subseteq Users
      /\ disabled \subseteq Users \ SuperAdmins
      /\ clock \in 0..MaxTime /\ disables \in 0..MaxDisables
  BY TypeParts, Zenon DEF IInv
<1>2. "magic_link" \in Purposes /\ "password_reset" \in Purposes
  BY DEF Purposes
<1>3. ASSUME NEW raw \in Tokens, RequestLink(u, raw) PROVE IInv' /\ LatestLink
  <2>1. SendToken(u, "magic_link", raw) /\ accounts' \subseteq Users
    BY <1>1, <1>3 DEF RequestLink
  <2> QED
    BY <1>2, <2>1, SendStep
<1>4. ASSUME NEW raw \in Tokens, RequestReset(u, raw) PROVE IInv' /\ LatestLink
  <2>1. SendToken(u, "password_reset", raw) /\ accounts' \subseteq Users
    BY <1>1, <1>4 DEF RequestReset
  <2> QED
    BY <1>2, <2>1, SendStep
<1>5. ASSUME NEW raw \in Tokens, InviteUser(u, raw) PROVE IInv' /\ LatestLink
  <2>1. accounts' \subseteq Users
    BY <1>1, <1>5 DEF InviteUser
  <2>2. CASE SendToken(u, "magic_link", raw)
    BY <1>2, <2>1, <2>2, SendStep
  <2>3. CASE UNCHANGED <<password, disabled, tokens, sessions, calls, clock, drawn, latest,
                         uses, disables>>
    <3>1. /\ password' = password /\ disabled' = disabled /\ tokens' = tokens
          /\ sessions' = sessions /\ calls' = calls /\ clock' = clock /\ drawn' = drawn
          /\ latest' = latest /\ uses' = uses /\ disables' = disables
      BY <2>3
    <3>2. TypeOK'
      BY <1>1, <2>1, <3>1, TypeParts, TypePartsNext
    <3>3. TokensSound'
      BY <3>1 DEF IInv, TokensSound, TokenRows, LatestRows, ResetsKnow
    <3>4. PasswordsSound'
      BY <3>1 DEF IInv, PasswordsSound, LoginsKnow, OldPasswordsGone
    <3>5. Descend(sessions')
      BY <1>1, <3>1, SessionsStay
    <3> QED
      BY <1>1, <3>2, <3>3, <3>4, <3>5, NoneOpened, Zenon DEF IInv
  <2> QED
    BY <1>5, <2>2, <2>3 DEF InviteUser
<1>6. ASSUME NEW raw \in Tokens, NEW purpose \in Purposes, AdminSends(u, purpose, raw)
      PROVE  IInv' /\ LatestLink
  <2>1. SendToken(u, purpose, raw) /\ accounts' \subseteq Users
    BY <1>1, <1>6 DEF AdminSends
  <2> QED
    BY <2>1, SendStep
<1>7. CASE SignOutEverywhere(u)
  <2>1. /\ Quietly /\ sessions' \subseteq sessions /\ disabled' = disabled
        /\ clock' = clock /\ disables' = disables
    BY <1>7 DEF SignOutEverywhere, SignedOut
  <2> QED
    BY <1>1, <2>1, SubsetDescends, QuietStep
<1>8. CASE Disable(u)
  <2>1. /\ Quietly /\ sessions' \subseteq sessions /\ clock' = clock
        /\ disabled' \subseteq Users \ SuperAdmins
    BY <1>1, <1>8 DEF Disable, SignedOut
  <2>2. disables' \in 0..MaxDisables
    BY <1>1, <1>8, ConstantTypes DEF Disable
  <2> QED
    BY <1>1, <2>1, <2>2, SubsetDescends, QuietStep
<1>9. CASE Enable(u)
  <2>1. /\ Quietly /\ sessions' \subseteq sessions /\ clock' = clock
        /\ disabled' \subseteq Users \ SuperAdmins
    BY <1>1, <1>9 DEF Enable
  <2>2. disables' \in 0..MaxDisables
    BY <1>1, <1>9, ConstantTypes DEF Enable
  <2> QED
    BY <1>1, <2>1, <2>2, SubsetDescends, QuietStep
<1> QED
  BY <1>3, <1>4, <1>5, <1>6, <1>7, <1>8, <1>9

\* Requests with a session, and the revocation of one by the admin.
LEMMA SessionStep ==
    ASSUME IInv, NEW s \in sessions,
           \/ Visit(s) \/ Logout(s) \/ RevokeOthers(s) \/ AdminRevokes(s)
           \/ \E t \in sessions : RevokeOwn(s, t)
    PROVE  IInv' /\ LatestLink
<1>1. /\ Quietly /\ disabled' = disabled /\ clock' = clock /\ disables' = disables
  BY DEF Visit, Logout, RevokeOthers, AdminRevokes, RevokeOwn
<1>2. sessions' \subseteq Touched(s) \/ sessions' \subseteq sessions
  BY DEF Visit, Logout, RevokeOthers, AdminRevokes, RevokeOwn
<1>3. /\ TypeOK /\ disabled \subseteq Users \ SuperAdmins
      /\ clock \in 0..MaxTime /\ disables \in 0..MaxDisables
  BY TypeParts, Zenon DEF IInv
<1>4. Session1(sessions', drawn) /\ Descend(sessions')
  BY <1>2, <1>3, SubsetDescends, TouchedDescends
<1> QED
  BY <1>1, <1>3, <1>4, QuietStep

LEMMA TickStep ==
    ASSUME IInv, Tick
    PROVE  IInv' /\ LatestLink
<1>1. /\ Quietly /\ disabled' = disabled /\ sessions' = sessions /\ disables' = disables
      /\ clock < MaxTime /\ clock' = clock + 1
  BY DEF Tick
<1>2. /\ TypeOK /\ disabled \subseteq Users \ SuperAdmins
      /\ clock \in 0..MaxTime /\ disables \in 0..MaxDisables
  BY TypeParts, Zenon DEF IInv
<1>3. clock' \in 0..MaxTime
  BY <1>1, <1>2, ConstantTypes
<1>4. Session1(sessions', drawn) /\ Descend(sessions')
  BY <1>1, <1>2, SessionsStay
<1> QED
  BY <1>1, <1>2, <1>3, <1>4, QuietStep

LEMMA NextStep ==
    ASSUME IInv, Next
    PROVE  IInv' /\ LatestLink
<1>1. CASE \E u \in Users :
             \/ \E raw \in Tokens :
                  \/ RequestLink(u, raw) \/ RequestReset(u, raw) \/ InviteUser(u, raw)
                  \/ \E purpose \in Purposes : AdminSends(u, purpose, raw)
             \/ SignOutEverywhere(u) \/ Disable(u) \/ Enable(u)
  BY <1>1, AccountStep, Zenon
<1>2. CASE \E u \in Users, c \in Calls : LoginBegins(c, u)
  BY <1>2, LoginBeginsStep, Zenon
<1>3. CASE \E t \in tokens :
             \/ \E s \in Sessions : VerifyLink(t, s)
             \/ \E c \in Calls, pw \in Passwords : ResetBegins(c, t, pw)
  BY <1>3, VerifyLinkStep, ResetBeginsStep, Zenon
<1>4. CASE \E c \in Calls :
             \/ ResetEnds(c) \/ ChangeEnds(c)
             \/ \E s \in Sessions : LoginEnds(c, s)
             \/ \E s \in sessions, pw \in Passwords : ChangeBegins(c, s, pw)
  BY <1>4, ResetEndsStep, ChangeEndsStep, LoginEndsStep, ChangeBeginsStep, Zenon
<1>5. CASE \E s \in sessions :
             \/ Visit(s) \/ Logout(s) \/ RevokeOthers(s) \/ AdminRevokes(s)
             \/ \E t \in sessions : RevokeOwn(s, t)
  BY <1>5, SessionStep, Zenon
<1>6. CASE Tick
  BY <1>6, TickStep
<1> QED
  BY <1>1, <1>2, <1>3, <1>4, <1>5, <1>6, Zenon DEF Next

LEMMA StutterStep ==
    ASSUME IInv, UNCHANGED vars
    PROVE  IInv' /\ LatestLink
<1>1. /\ accounts' = accounts /\ password' = password /\ disabled' = disabled
      /\ tokens' = tokens /\ sessions' = sessions /\ calls' = calls /\ clock' = clock
      /\ drawn' = drawn /\ latest' = latest /\ uses' = uses /\ disables' = disables
  BY DEF vars
<1>2. Quietly
  BY <1>1 DEF Quietly
<1>3. /\ TypeOK /\ disabled \subseteq Users \ SuperAdmins
      /\ clock \in 0..MaxTime /\ disables \in 0..MaxDisables
  BY TypeParts, Zenon DEF IInv
<1>4. Session1(sessions', drawn) /\ Descend(sessions')
  BY <1>1, <1>3, SessionsStay
<1> QED
  BY <1>1, <1>2, <1>3, <1>4, QuietStep

\* In every state the rows of auth_tokens, the awaiting resets and the awaiting
\* logins of services/auth.js are as TokensSound and PasswordsSound say.
THEOREM Invariance == Spec => []IInv
<1>1. IInv /\ [Next]_vars => IInv'
  BY NextStep, StutterStep
<1> QED
  BY <1>1, InvInit, PTL DEF Spec

-----------------------------------------------------------------------------
(* Theorems                                                                *)

\* A token of a mail is accepted at most once while it is the last one minted,
\* whatever resets await bcrypt: markUsed lets only one of them through.
THEOREM AlwaysTokenUsedOnce == Spec => []TokenUsedOnce
<1>1. ASSUME IInv PROVE TokenUsedOnce
  <2>1. SUFFICES ASSUME NEW raw \in Tokens, uses[raw] > 1, NEW u \in Users,
                        NEW p \in Purposes, latest[<<u, p>>] = raw
                 PROVE  FALSE
    <3>1. TypeOK
      BY <1>1 DEF IInv
    <3> QED
      BY <2>1, <3>1 DEF TokenUsedOnce, Purposes
  <2>2. raw # None
    BY <2>1, ConstantTypes
  <2>3. PICK t \in tokens : t.raw = raw
    BY <1>1, <2>1, <2>2, ZenonT(30) DEF IInv, TokensSound, LatestRows
  <2>4. uses[raw] = 0 \/ uses[raw] = 1
    BY <1>1, <2>3, Zenon DEF IInv, TokensSound, TokenRows
  <2> QED
    BY <2>1, <2>4
<1> QED
  BY <1>1, Invariance, PTL

\* Of several sign-in links on their way only the one minted last opens a
\* session, since mintToken deletes the earlier ones.
THEOREM AlwaysLatestLink == Spec => LatestLinkOnly
<1>1. IInv /\ [Next]_vars => [LatestLink]_vars
  BY NextStep
<1> QED
  BY <1>1, Invariance, PTL DEF Spec, LatestLinkOnly

\* A change or a reset of the password ends every session that an earlier one
\* opened, but that which changed it and those of logins under way.
THEOREM AlwaysOldPasswordsGone == Spec => []OldPasswordsGone
<1>1. IInv => OldPasswordsGone
  BY DEF IInv, PasswordsSound
<1> QED
  BY <1>1, Invariance, PTL

=============================================================================
