------------------------------ MODULE Sessions ------------------------------
(***************************************************************************)
(* Token pairs of a user and their rotation                                *)
(*   auth/infrastructure/services/auth.service.ts: login, refreshToken,    *)
(*     logout                                                              *)
(*   infrastructure/http/middleware/auth.middleware.ts: authenticate       *)
(*                                                                         *)
(* A pair is an access and a refresh token under one jti.  The refresh     *)
(* token is good while Redis has refresh_jti:<jti>, the access token until *)
(* it expires or Redis has revoked:<jti>, and neither beyond the absolute  *)
(* length of a session, which counts from the login (claim sst).  Every    *)
(* Redis command is a step of its own; the process may end between two.    *)
(*                                                                         *)
(* A pair is named by the call that made it.  Left out: the sessions rows, *)
(* which nothing reads, and Redis falling back to the memory of one        *)
(* process.  ticket[c].after, .login and .late are no state of the program: *)
(* the calls that had been answered when c came, the login that its pair   *)
(* descends from, and whether that login was past its length by then.      *)
(***************************************************************************)
CONSTANTS
    Ticket,     \* calls of the auth routes, and of any route behind authenticate
    NoTicket

ASSUME TicketAssumption == NoTicket \notin Ticket

VARIABLES
    ticket,     \* handlers, and the pair that a login or a refresh made
    live,       \* refresh_jti keys in Redis
    revoked,    \* revoked keys in Redis
    expired,    \* access tokens past their exp
    over        \* sst claims past the absolute length of a session

sessionVars == <<ticket, live, revoked, expired, over>>

NoCallYet == [pc |-> "idle", kind |-> "none", token |-> NoTicket, sst |-> NoTicket,
              login |-> NoTicket, after |-> {}, late |-> FALSE]

Busy == {"rotate", "store", "revoke", "forget"}

SessionsTypeOK ==
    /\ ticket \in [Ticket -> [pc : {"idle", "ok", "failed"} \cup Busy,
                              kind : {"none", "login", "refresh", "logout", "use"},
                              token : Ticket \cup {NoTicket}, sst : Ticket \cup {NoTicket},
                              login : Ticket \cup {NoTicket}, after : SUBSET Ticket,
                              late : BOOLEAN]]
    /\ live \in SUBSET Ticket /\ revoked \in SUBSET Ticket
    /\ expired \in SUBSET Ticket /\ over \in SUBSET Ticket

SessionsInit ==
    /\ ticket = [c \in Ticket |-> NoCallYet]
    /\ live = {} /\ revoked = {} /\ expired = {} /\ over = {}

-----------------------------------------------------------------------------
\* Pairs that a client was given.
Issued == {t \in Ticket : ticket[t].pc = "ok" /\ ticket[t].kind \in {"login", "refresh"}}

\* Call c of a kind with a token of t comes, and gets as far as pc.
Come(c, kind, t, pc) ==
    /\ ticket[c].pc = "idle" /\ t \in Issued
    /\ ticket' = [ticket EXCEPT ![c] =
        [pc |-> pc, kind |-> kind, token |-> t, sst |-> ticket[t].sst,
         login |-> ticket[t].login,
         after |-> {d \in Ticket : ticket[d].pc \in {"ok", "failed"}},
         late |-> ticket[t].login \in over]]

Move(c, from, to) == ticket[c].pc = from /\ ticket' = [ticket EXCEPT ![c].pc = to]

Login(c) ==
    /\ ticket[c].pc = "idle"
    /\ ticket' = [ticket EXCEPT ![c].pc = "ok", ![c].kind = "login",
                                ![c].sst = c, ![c].login = c]
    /\ live' = live \cup {c}
    /\ UNCHANGED <<revoked, expired, over>>

isSessionExpired(t) == ticket[t].sst \in over

(***************************************************************************)
(* Refresh: the key is read, it is deleted, a new pair is stored.          *)
(***************************************************************************)
RefreshCheck(c, t) ==
    /\ Come(c, "refresh", t, IF t \in live THEN "rotate" ELSE "failed")
    /\ UNCHANGED <<live, revoked, expired, over>>

\* Mutant: the old key is left to its expiration.
KeepOld(c) ==
    /\ Move(c, "rotate", IF isSessionExpired(ticket[c].token) THEN "failed" ELSE "store")
    /\ UNCHANGED <<live, revoked, expired, over>>

RefreshDrop(c) ==
    /\ Move(c, "rotate", IF isSessionExpired(ticket[c].token) THEN "failed" ELSE "store")
    /\ live' = live \ {ticket[c].token}
    /\ UNCHANGED <<revoked, expired, over>>

RefreshStore(c) ==
    /\ Move(c, "store", "ok")
    /\ live' = live \cup {c}
    /\ UNCHANGED <<revoked, expired, over>>

(***************************************************************************)
(* authenticate, and a logout behind it.                                   *)
(***************************************************************************)
authenticated(t) == t \notin expired \cup revoked /\ ~isSessionExpired(t)

Use(c, t) ==
    /\ Come(c, "use", t, IF authenticated(t) THEN "ok" ELSE "failed")
    /\ UNCHANGED <<live, revoked, expired, over>>

Logout(c, t) ==
    /\ Come(c, "logout", t, IF authenticated(t) THEN "revoke" ELSE "failed")
    /\ UNCHANGED <<live, revoked, expired, over>>

\* For as long as the access token lives.
LogoutRevoke(c) ==
    /\ Move(c, "revoke", "forget")
    /\ revoked' = revoked \cup ({ticket[c].token} \ expired)
    /\ UNCHANGED <<live, expired, over>>

\* Mutant: the refresh token is forgotten by its cookie alone.
CookieOnly(c) == Move(c, "forget", "ok") /\ UNCHANGED <<live, revoked, expired, over>>

LogoutForget(c) ==
    /\ Move(c, "forget", "ok")
    /\ live' = live \ {ticket[c].token}
    /\ UNCHANGED <<revoked, expired, over>>

\* The process ends, or the answer is an error.
FailTicket(c) ==
    /\ ticket[c].pc \in Busy
    /\ ticket' = [ticket EXCEPT ![c].pc = "failed"]
    /\ UNCHANGED <<live, revoked, expired, over>>

(***************************************************************************)
(* Time.                                                                   *)
(***************************************************************************)
AccessExpires(t) ==
    /\ t \in Issued \ expired
    /\ expired' = expired \cup {t}
    /\ revoked' = revoked \ {t}
    /\ UNCHANGED <<ticket, live, over>>

SessionEnds(t) ==
    /\ t \in Issued \ over /\ ticket[t].kind = "login"
    /\ over' = over \cup {t}
    /\ UNCHANGED <<ticket, live, revoked, expired>>

SessionsNext == \E c \in Ticket :
    \/ Login(c)
    \/ \E t \in Ticket : RefreshCheck(c, t) \/ Use(c, t) \/ Logout(c, t)
    \/ RefreshDrop(c) \/ RefreshStore(c) \/ LogoutRevoke(c) \/ LogoutForget(c)
    \/ FailTicket(c)
    \/ AccessExpires(c) \/ SessionEnds(c)

SessionsSpec == SessionsInit /\ [][SessionsNext]_sessionVars
-----------------------------------------------------------------------------
(***************************************************************************)
(* Properties.                                                             *)
(***************************************************************************)
\* Two refreshes of t, neither answered when the other came.
Forked(t) == \E c, d \in Ticket :
    /\ c # d /\ c \notin ticket[d].after /\ d \notin ticket[c].after
    /\ \A e \in {c, d} : ticket[e].kind = "refresh" /\ ticket[e].token = t

SameLogin(s, t) == ticket[s].login = ticket[t].login

\* Rotation: a login has one refresh token that is good at a time, unless
\* one of its tokens was refreshed by two calls that overlapped.
OnePair ==
    \A s, t \in live : s # t /\ SameLogin(s, t) =>
        \E f \in Ticket : SameLogin(f, s) /\ Forked(f)

\* What ends a login: its absolute length, counted through every rotation,
\* and a logout.  A call that comes after the answer of a logout is refused
\* if it brings a token of the pair that was logged out, and if it brings a
\* refresh token of the same login - unless that pair was being replaced,
\* or had been, when the logout came, or the login has forked.
LoginEnds ==
    /\ \A c \in Ticket : ticket[c].pc = "ok" => ~ticket[c].late
    /\ \A l, c \in Ticket :
        /\ ticket[l].kind = "logout" /\ ticket[l].pc = "ok"
        /\ ticket[c].pc = "ok" /\ l \in ticket[c].after
        => /\ ticket[c].token # ticket[l].token
           /\ ticket[c].kind = "refresh" /\ SameLogin(c, l) =>
                \/ \E d \in Ticket : /\ ticket[d].kind = "refresh" /\ l \notin ticket[d].after
                                     /\ ticket[d].token = ticket[l].token
                \/ \E f \in Ticket : SameLogin(f, l) /\ Forked(f)
=============================================================================
