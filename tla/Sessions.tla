------------------------------- MODULE Sessions -------------------------------
(***************************************************************************)
(* Refresh tokens: logging in, refreshing and logging out                  *)
(* (services/authentication.ts), for users and for shares                  *)
(* (services/shares.ts), from requests that run concurrently.  Nothing     *)
(* serializes the statements of one request with those of another.         *)
(*                                                                         *)
(* A definition X_Variant is a faulty X, used to see a property fail.      *)
(***************************************************************************)
EXTENDS Deployment, Naturals

CONSTANTS Shares,         \* a session is of a user or a share
          Nobody,
          MaxTokens       \* bound: tokens issued

Owners == Users \cup Shares
Tokens == 1..MaxTokens

ASSUME OwnersAssumption == Users \cap Shares = {} /\ Nobody \notin Owners
ASSUME TokensAssumption == MaxTokens \in Nat

VARIABLES
  owners,     \* users: active or not; shares: within their dates or not; or gone
  sessions,   \* rows of directus_sessions
  issued,     \* the latest token
  calls,      \* each request, see Call
  handed,     \* history: tokens returned to callers
  presented,  \* history: tokens given to refresh or logout
  contested,  \* history: tokens given to two requests at once
  lapsed,     \* history: tokens whose session expired or whose owner went
  from,       \* history: the token each token replaced, if any, and the login's
  ended       \* history: tokens whose session a logout found and deleted

sessionVars == <<owners, sessions, issued, calls, handed, presented, contested, lapsed, from, ended>>
tokenHistory == <<handed, presented, contested, lapsed, from, ended>>

Session(token, owner) == [token |-> token, owner |-> owner, expired |-> FALSE]
LoginOf(s) == from[s.token].login

\* at: "idle", or what the request does next with its token.
Call(at, token, owner) == [at |-> at, token |-> token, owner |-> owner]
Goes(r, at, token, owner) == calls' = [calls EXCEPT ![r] = Call(at, token, owner)]
Ends(r) == Goes(r, "idle", 0, Nobody)

SessionsInit ==
  /\ owners \in [Owners -> {"active", "gone"}]
  /\ sessions = {} /\ issued = 0
  /\ calls = [r \in Requests |-> Call("idle", 0, Nobody)]
  /\ handed = {} /\ presented = {} /\ contested = {} /\ lapsed = {} /\ ended = {}
  /\ from = [t \in Tokens |-> [token |-> 0, login |-> 0]]

-----------------------------------------------------------------------------
\* login: of a user, or of a share.

Login(r, o) ==
  /\ calls[r].at = "idle" /\ owners[o] = "active" /\ issued < MaxTokens
  /\ Goes(r, "insert", 0, o)
  /\ UNCHANGED <<owners, sessions, issued, tokenHistory>>

\* The row refers to its owner.
Insert(r) ==
  /\ calls[r].at = "insert" /\ issued < MaxTokens
  /\ owners[calls[r].owner] # "gone"
  /\ issued' = issued + 1
  /\ sessions' = sessions \cup {Session(issued', calls[r].owner)}
  /\ from' = [from EXCEPT ![issued'] = [token |-> 0, login |-> issued']]
  /\ Goes(r, "purge", issued', Nobody)
  /\ UNCHANGED <<owners, handed, presented, contested, lapsed, ended>>

Unexpired_Swapped == {s \in sessions : s.expired}
Unexpired == {s \in sessions : ~s.expired}

\* What follows changes no session, and the caller has the token.
Purge(r) ==
  /\ calls[r].at = "purge"
  /\ sessions' = Unexpired
  /\ handed' = handed \cup {calls[r].token}
  /\ Ends(r)
  /\ UNCHANGED <<owners, issued, presented, contested, lapsed, from, ended>>

\* A statement, the provider or a hook fails.
Fail(r) ==
  /\ calls[r].at # "idle"
  /\ Ends(r)
  /\ UNCHANGED <<owners, sessions, issued, tokenHistory>>

-----------------------------------------------------------------------------
\* refresh and logout, of a token that was handed out.

Present(r, t, at) ==
  /\ calls[r].at = "idle" /\ t \in handed
  /\ Goes(r, at, t, Nobody)
  /\ presented' = presented \cup {t}
  /\ contested' = IF \E q \in Requests : calls[q].token = t THEN contested \cup {t} ELSE contested
  /\ UNCHANGED <<owners, sessions, issued, handed, lapsed, from, ended>>

Refresh(r, t) == Present(r, t, "lookup")
Logout(r, t) == Present(r, t, "find")

\* lookupSession, and what refresh makes of it.
Found(t) == {s \in sessions : s.token = t /\ ~s.expired /\ (s.owner \in Shares => owners[s.owner] = "active")}

Lookup(r) ==
  /\ calls[r].at = "lookup"
  /\ \/ Found(calls[r].token) = {} /\ Ends(r)
     \/ \E s \in Found(calls[r].token) :
          Goes(r, IF owners[s.owner] = "active" THEN "rotate" ELSE "delete", calls[r].token, Nobody)
  /\ UNCHANGED <<owners, sessions, issued, tokenHistory>>

Rotated_Added(t, new) == sessions \cup {Session(new, s.owner) : s \in {u \in sessions : u.token = t}}
Rotated(t, new) == {IF s.token = t THEN Session(new, s.owner) ELSE s : s \in sessions}

\* The answer is the new token, whether or not a row had the old one.
Rotate(r) ==
  /\ calls[r].at = "rotate" /\ issued < MaxTokens
  /\ issued' = issued + 1
  /\ sessions' = Rotated(calls[r].token, issued')
  /\ from' = [from EXCEPT ![issued'] = [token |-> calls[r].token, login |-> from[calls[r].token].login]]
  /\ handed' = handed \cup {issued'}
  /\ Ends(r)
  /\ UNCHANGED <<owners, presented, contested, lapsed, ended>>

\* logout finds sessions of users, expired or not.
Find(r) ==
  /\ calls[r].at = "find"
  /\ IF \E s \in sessions : s.token = calls[r].token /\ s.owner \in Users
       THEN Goes(r, "end", calls[r].token, Nobody) ELSE Ends(r)
  /\ UNCHANGED <<owners, sessions, issued, tokenHistory>>

With(t) == {s \in sessions : s.token = t}
Without_Expired(t) == {s \in sessions : s.token = t => ~s.expired}
Without(t) == sessions \ With(t)

\* By a logout, or by a refresh for a user who is not active.
Delete(r) ==
  /\ calls[r].at \in {"end", "delete"}
  /\ sessions' = Without(calls[r].token)
  /\ ended' = IF calls[r].at = "end" THEN ended \cup {calls[r].token} ELSE ended
  /\ Ends(r)
  /\ UNCHANGED <<owners, issued, handed, presented, contested, lapsed, from>>

-----------------------------------------------------------------------------
\* Time and administration.

Expire(s) ==
  /\ ~s.expired
  /\ sessions' = (sessions \ {s}) \cup {[s EXCEPT !.expired = TRUE]}
  /\ lapsed' = lapsed \cup {s.token}
  /\ UNCHANGED <<owners, issued, calls, handed, presented, contested, from, ended>>

ChangeOwner(o, status) ==
  /\ owners[o] \notin {status, "gone"}
  /\ owners' = [owners EXCEPT ![o] = status]
  /\ UNCHANGED <<sessions, issued, calls, tokenHistory>>

\* Its sessions go with it.
DeleteOwner(o) ==
  /\ owners[o] # "gone"
  /\ owners' = [owners EXCEPT ![o] = "gone"]
  /\ sessions' = {s \in sessions : s.owner # o}
  /\ lapsed' = lapsed \cup {s.token : s \in sessions \ sessions'}
  /\ UNCHANGED <<issued, calls, handed, presented, contested, from, ended>>

SessionsNext ==
  \/ \E r \in Requests : \/ \E o \in Owners : Login(r, o)
                         \/ \E t \in Tokens : Refresh(r, t) \/ Logout(r, t)
                         \/ Insert(r) \/ Purge(r) \/ Fail(r)
                         \/ Lookup(r) \/ Rotate(r) \/ Find(r) \/ Delete(r)
  \/ \E s \in sessions : Expire(s)
  \/ \E o \in Owners : (\E status \in {"active", "inactive"} : ChangeOwner(o, status)) \/ DeleteOwner(o)
-----------------------------------------------------------------------------
\* Types of the sessions.
SessionsTypeOK ==
  /\ owners \in [Owners -> {"active", "inactive", "gone"}]
  /\ sessions \subseteq [token : 1..issued, owner : Owners, expired : BOOLEAN]
  /\ issued \in 0..MaxTokens
  /\ calls \in [Requests -> [at : {"idle", "insert", "purge", "lookup", "rotate", "find", "delete", "end"},
                             token : 0..issued, owner : Owners \cup {Nobody}]]
  /\ handed \subseteq 1..issued /\ presented \subseteq handed /\ contested \subseteq presented /\ lapsed \subseteq 1..issued
  /\ from \in [Tokens -> [token : 0..issued, login : 0..issued]]
  /\ ended \subseteq presented

\* A token is that of one session, and a session is that of one login.
OneSession == \A s, u \in sessions : s.token = u.token \/ LoginOf(s) = LoginOf(u) => s = u

\* A token that a caller holds and has not used is honoured, unless the session
\* lapsed, or the token it replaced was lapsing or in use by another request when it
\* was refreshed.
Honoured ==
  \A t \in handed \ presented : With(t) # {} \/ t \in lapsed \/ from[t].token \in lapsed \cup contested

\* A token that was logged out is no session's; its login has none at all, unless
\* another request used the token meanwhile.
LoggedOut ==
  \A t \in ended : /\ With(t) = {}
                   /\ t \in contested \/ \A s \in sessions : LoginOf(s) # from[t].login

\* Concurrent logins, refreshes and logouts keep the sessions of their callers
\* apart, keep their tokens good, and end what was logged out.
SessionRules == OneSession /\ Honoured /\ LoggedOut
=============================================================================
