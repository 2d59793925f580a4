--------------------------- MODULE BrokerSession ----------------------------
(* One user's session with the broker as bullex-service keeps it            *)
(* (SessionManager): the session in memory, the token on disk, the socket   *)
(* each client holds, the probe marks that answer for a broker nobody asks, *)
(* and the account snapshot shown while the session is away.                *)
(* Whatever holds the user's lock runs alone and is one action, except a    *)
(* login, which waits for the broker with the lock held: it is two actions, *)
(* and what takes no lock (the socket, the clock, the end of GET /account)  *)
(* falls between them. Clock marks are booleans that an action turns off.   *)
EXTENDS Naturals

CONSTANTS Client,     \* client objects (numbers), each with at most one socket
          Email,      \* the broker accounts the user logs in with
          None,
          MaxFault    \* failures of the broker or of the network

ASSUME SessAssumption ==
    /\ Client \subseteq Nat /\ None \notin Client /\ None \notin Email
    /\ MaxFault \in Nat

VARIABLES mem,        \* the ManagedSession in memory; client None when absent
          token,      \* e-mail whose SSID is on disk, None when null
          open,       \* clients whose socket is open
          call,       \* the login that holds the user's lock
          offline,    \* offline_until is in the future
          backoff,    \* next_retry_at is in the future
          status,     \* a fresh answer of /sessions/status is cached
          account,    \* e-mail of last_account_cache
          cooldown,   \* _restore_retry_at is in the future
          fetched,    \* e-mail a GET /account has read and not yet stored
          faults,
          asksCode,   \* the broker account asks for a code at login
          \* history: the account of the last login that completed; the user
          \* left on purpose; sockets a failed reconnection left; the account
          \* was stored late; the broker refused the stored token
          wanted, left, leaked, late, refused

sessVars == <<mem, token, open, call, offline, backoff, status, account,
              cooldown, fetched, faults, asksCode, wanted, left, leaked, late,
              refused>>

Absent == [client |-> None, email |-> None, twofa |-> FALSE, real |-> FALSE]
Idle == [op |-> "idle", client |-> None, email |-> None]

SessTypeOK ==
    /\ mem \in [client: Client \cup {None}, email: Email \cup {None},
                twofa: BOOLEAN, real: BOOLEAN]
    /\ token \in Email \cup {None}
    /\ open \subseteq Client
    /\ call \in [op: {"idle", "login", "code", "reconnect", "restore"},
                 client: Client \cup {None}, email: Email \cup {None}]
    /\ offline \in BOOLEAN /\ backoff \in BOOLEAN /\ status \in BOOLEAN
    /\ cooldown \in BOOLEAN /\ late \in BOOLEAN /\ refused \in BOOLEAN
    /\ account \in Email \cup {None}
    /\ fetched \in Email \cup {None}
    /\ faults \in 0..MaxFault
    /\ wanted \in Email \cup {None}
    /\ leaked \subseteq Client
    /\ asksCode \in BOOLEAN /\ left \in BOOLEAN

SessInit ==
    /\ mem = Absent /\ token = None /\ open = {} /\ call = Idle
    /\ offline = FALSE /\ backoff = FALSE /\ status = FALSE
    /\ account = None /\ cooldown = FALSE /\ fetched = None
    /\ faults = 0
    /\ asksCode \in BOOLEAN
    /\ wanted = None /\ left = FALSE /\ leaked = {} /\ late = FALSE
    /\ refused = FALSE

Free == call = Idle
Present == mem.client # None
Alive == Present /\ mem.client \in open

\* A client object nobody holds. The garbage of earlier ones is reused, and
\* which one is taken tells nothing: the first.
Unheld == Client \ (open \cup {mem.client, call.client})
Fresh(c) == c \in Unheld /\ \A d \in Unheld : c <= d

Fault == faults < MaxFault /\ faults' = faults + 1

\* What only a few operations touch.
Quiet == UNCHANGED <<asksCode, leaked, fetched>>
SameMarks == UNCHANGED <<offline, backoff, status>>
SameLogin == UNCHANGED <<wanted, left, refused>>
SameSnapshot == UNCHANGED <<account, late>>

\* Mutant: the marks go, the snapshot of the earlier login stays.
ClearMarksOnly ==
    /\ offline' = FALSE /\ backoff' = FALSE /\ status' = FALSE
    /\ UNCHANGED <<account, late>>

\* clear_user_runtime_cache: marks and snapshots of the earlier login go.
ClearRuntimeCache ==
    /\ offline' = FALSE /\ backoff' = FALSE /\ status' = FALSE
    /\ account' = None /\ late' = FALSE

\* _mark_probe_success on /sessions/status.
ProbeSucceeds == offline' = FALSE /\ backoff' = FALSE /\ status' = TRUE

\* _persist_connected: nothing is written while the code is awaited or before
\* the REAL mode is confirmed.
Persisted(s) == IF s.twofa \/ ~s.real THEN token ELSE s.email

\* ensure_session_alive asks the socket only when no cached answer is at hand.
Asks == ~status /\ ~backoff
Usable == Alive \/ mem.twofa \/ ~Asks

----------------------------------------------------------------------------
(* POST /sessions/connect *)

SameLive(e) == Alive /\ ~mem.twofa /\ mem.email = e

\* A live session of the same e-mail is kept; when its REAL mode was lost it
\* is confirmed and persisted again.
ConnectReuse(e) ==
    /\ Free /\ SameLive(e)
    /\ mem' = [mem EXCEPT !.real = TRUE]
    /\ token' = IF mem.real THEN token ELSE e
    /\ offline' = FALSE /\ backoff' = FALSE /\ status' = TRUE
    /\ account' = None /\ late' = FALSE
    /\ wanted' = e /\ left' = FALSE /\ refused' = FALSE
    /\ UNCHANGED <<open, call, cooldown, faults>> /\ Quiet

\* Anything else closes the old session and revokes its token before the new
\* client exists; the new session is in memory before the broker answers. A
\* live session of the same e-mail comes here only when confirming REAL fails.
ConnectBegin(e, c) ==
    /\ Free /\ Fresh(c)
    /\ IF SameLive(e) THEN ~mem.real /\ Fault ELSE UNCHANGED faults
    /\ mem' = [client |-> c, email |-> e, twofa |-> FALSE, real |-> FALSE]
    /\ token' = None
    /\ open' = open \ {mem.client}
    /\ call' = [op |-> "login", client |-> c, email |-> e]
    /\ ClearRuntimeCache
    /\ wanted' = None /\ left' = FALSE /\ refused' = FALSE
    /\ UNCHANGED cooldown /\ Quiet

\* connect_new_session: logged in, REAL confirmed, token saved.
LoginOk ==
    /\ call.op = "login"
    /\ mem' = [mem EXCEPT !.real = TRUE]
    /\ open' = open \cup {call.client}
    /\ token' = Persisted(mem')
    /\ call' = Idle
    /\ ProbeSucceeds
    /\ wanted' = call.email
    /\ UNCHANGED <<cooldown, faults, left, refused>> /\ SameSnapshot /\ Quiet

\* The broker wants a code: no socket yet, nothing persisted.
LoginAsksCode ==
    /\ call.op = "login" /\ asksCode
    /\ mem' = [mem EXCEPT !.twofa = TRUE]
    /\ call' = Idle
    /\ ProbeSucceeds
    /\ UNCHANGED <<token, open, cooldown, faults>>
    /\ SameLogin /\ SameSnapshot /\ Quiet

\* Mutant: a login that failed leaves its session in memory.
LoginFailsHalfway ==
    /\ call.op = "login" /\ Fault
    /\ open' = open \ {call.client}
    /\ call' = Idle
    /\ UNCHANGED <<mem, token, cooldown>>
    /\ SameMarks /\ SameLogin /\ SameSnapshot /\ Quiet

\* Every attempt that fails closes its own client and leaves no session; the
\* last one gives up.
LoginFails ==
    /\ call.op = "login" /\ Fault
    /\ mem' = Absent
    /\ open' = open \ {call.client}
    /\ call' = Idle
    /\ UNCHANGED <<token, cooldown>>
    /\ SameMarks /\ SameLogin /\ SameSnapshot /\ Quiet

\* Mutant: the attempt that timed out keeps its socket.
LoginRetriesBeside(c) ==
    /\ call.op = "login" /\ Fault /\ Fresh(c)
    /\ mem' = [mem EXCEPT !.client = c]
    /\ call' = [call EXCEPT !.client = c]
    /\ UNCHANGED <<token, open, cooldown>>
    /\ SameMarks /\ SameLogin /\ SameSnapshot /\ Quiet

\* A timeout: the attempt's socket, if it came up, is closed, and a new client
\* takes its place in memory.
LoginRetries(c) ==
    /\ call.op = "login" /\ Fault /\ Fresh(c)
    /\ mem' = [mem EXCEPT !.client = c]
    /\ open' = open \ {call.client}
    /\ call' = [call EXCEPT !.client = c]
    /\ UNCHANGED <<token, cooldown>>
    /\ SameMarks /\ SameLogin /\ SameSnapshot /\ Quiet

\* The socket of a login comes up before the profile and the REAL mode do.
LoginOpensSocket ==
    /\ call.op \in {"login", "restore"} /\ call.client \notin open
    /\ open' = open \cup {call.client}
    /\ UNCHANGED <<mem, token, call, cooldown, faults>>
    /\ SameMarks /\ SameLogin /\ SameSnapshot /\ Quiet

\* The code arrives: it is tried on the session that waits in memory.
CodeBegin ==
    /\ Free /\ Present /\ asksCode
    /\ mem.twofa \/ ~Alive
    /\ call' = [op |-> "code", client |-> mem.client, email |-> mem.email]
    /\ ClearRuntimeCache
    /\ UNCHANGED <<mem, token, open, cooldown, faults>> /\ SameLogin /\ Quiet

CodeOk ==
    /\ call.op = "code"
    /\ mem' = [mem EXCEPT !.twofa = FALSE, !.real = TRUE]
    /\ open' = open \cup {call.client}
    /\ token' = Persisted(mem')
    /\ call' = Idle
    /\ ProbeSucceeds
    /\ wanted' = call.email
    /\ UNCHANGED <<cooldown, faults, left, refused>> /\ SameSnapshot /\ Quiet

\* connect_existing_2fa has no clean-up: a wrong code leaves the session in
\* memory without its socket, a REAL mode the broker denies leaves it alive.
CodeFails ==
    /\ call.op = "code" /\ Fault
    /\ \/ mem' = [mem EXCEPT !.twofa = FALSE] /\ UNCHANGED open
       \/ /\ mem' = [mem EXCEPT !.twofa = FALSE, !.real = FALSE]
          /\ open' = open \cup {call.client}
    /\ call' = Idle
    /\ UNCHANGED <<token, cooldown>>
    /\ SameMarks /\ SameLogin /\ SameSnapshot /\ Quiet

----------------------------------------------------------------------------
(* POST /sessions/disconnect *)

\* Mutant: the token of the session the user left stays on disk.
DisconnectKeepsToken ==
    /\ Free
    /\ mem' = Absent
    /\ open' = open \ {mem.client}
    /\ offline' = TRUE /\ backoff' = TRUE /\ status' = FALSE
    /\ wanted' = None /\ left' = TRUE
    /\ UNCHANGED <<token, call, cooldown, faults, refused>>
    /\ SameSnapshot /\ Quiet

Disconnect ==
    /\ Free
    /\ mem' = Absent
    /\ open' = open \ {mem.client}
    /\ token' = None
    /\ offline' = TRUE /\ backoff' = TRUE /\ status' = FALSE
    /\ wanted' = None /\ left' = TRUE
    /\ UNCHANGED <<call, cooldown, faults, refused>> /\ SameSnapshot /\ Quiet

----------------------------------------------------------------------------
(* Reconnection of a session in memory: the button, or an operation that     *)
(* finds the socket dead.                                                    *)

ReconnectBegin(c) ==
    /\ Free /\ Present /\ Fresh(c)
    /\ open' = open \ {mem.client}
    /\ call' = [op |-> "reconnect", client |-> c, email |-> mem.email]
    /\ UNCHANGED <<mem, token, offline, status, cooldown, faults>>
    /\ SameLogin /\ SameSnapshot /\ Quiet

ReconnectByUser(c) == ReconnectBegin(c) /\ UNCHANGED backoff

ReconnectDead(c) ==
    /\ ~Alive /\ ~mem.twofa /\ Asks
    /\ ReconnectBegin(c)
    /\ backoff' = TRUE

ReconnectOk ==
    /\ call.op = "reconnect"
    /\ mem' = [client |-> call.client, email |-> call.email,
               twofa |-> FALSE, real |-> TRUE]
    /\ open' = open \cup {call.client}
    /\ token' = Persisted(mem')
    /\ call' = Idle
    /\ offline' = FALSE /\ backoff' = FALSE /\ status' = FALSE
    /\ wanted' = call.email
    /\ UNCHANGED <<cooldown, faults, left, refused>> /\ SameSnapshot /\ Quiet

\* Without an SSID the password is sent again, and a code asked again.
ReconnectAsksCode ==
    /\ call.op = "reconnect" /\ asksCode /\ token = None
    /\ mem' = [client |-> call.client, email |-> call.email,
               twofa |-> TRUE, real |-> FALSE]
    /\ call' = Idle
    /\ offline' = FALSE /\ backoff' = FALSE /\ status' = FALSE
    /\ UNCHANGED <<token, open, cooldown, faults>>
    /\ SameLogin /\ SameSnapshot /\ Quiet

\* _mark_disconnected closes the session in memory, whose socket is gone
\* already; the new client may hold one and nobody closes it.
ReconnectFails ==
    /\ call.op = "reconnect" /\ Fault
    /\ mem' = Absent
    /\ \/ UNCHANGED <<open, leaked>>
       \/ /\ open' = open \cup {call.client}
          /\ leaked' = leaked \cup {call.client}
    /\ call' = Idle
    /\ offline' = TRUE /\ backoff' = TRUE
    /\ UNCHANGED <<token, status, cooldown, asksCode, fetched>>
    /\ SameLogin /\ SameSnapshot

----------------------------------------------------------------------------
(* restore_on_demand: the session of an earlier process, or one that fell    *)

RestoreBegin(c) ==
    /\ Free /\ ~Present /\ token # None /\ Fresh(c)
    /\ call' = [op |-> "restore", client |-> c, email |-> token]
    /\ UNCHANGED <<mem, token, open, cooldown, faults>>
    /\ SameMarks /\ SameLogin /\ SameSnapshot /\ Quiet

\* The status poll respects the cooldown, the button does not.
RestoreByPoll(c) == ~cooldown /\ RestoreBegin(c)
RestoreByUser(c) == RestoreBegin(c)

RestoreOk ==
    /\ call.op = "restore"
    /\ mem' = [client |-> call.client, email |-> call.email,
               twofa |-> FALSE, real |-> TRUE]
    /\ open' = open \cup {call.client}
    /\ token' = Persisted(mem')
    /\ call' = Idle
    /\ cooldown' = FALSE
    /\ offline' = FALSE /\ backoff' = FALSE
    /\ UNCHANGED <<status, faults>> /\ SameLogin /\ SameSnapshot /\ Quiet

\* Mutant: any failure of a restore revokes the token.
RestoreFailsForgets(rejected) ==
    /\ call.op = "restore" /\ Fault
    /\ mem' = Absent
    /\ open' = open \ {call.client}
    /\ token' = None
    /\ call' = Idle
    /\ cooldown' = TRUE
    /\ ClearRuntimeCache
    /\ refused' = (refused \/ rejected)
    /\ UNCHANGED <<wanted, left>> /\ Quiet

\* Only a token the broker refused is revoked; the poll that failed clears the
\* marks so that a login is not answered "offline".
RestoreFails(rejected) ==
    /\ call.op = "restore" /\ Fault
    /\ mem' = Absent
    /\ open' = open \ {call.client}
    /\ token' = IF rejected THEN None ELSE token
    /\ call' = Idle
    /\ cooldown' = TRUE
    /\ ClearRuntimeCache
    /\ refused' = (refused \/ rejected)
    /\ UNCHANGED <<wanted, left>> /\ Quiet

\* The status poll that may restore and cannot.
RestoreDenied ==
    /\ Free /\ ~Present
    /\ cooldown \/ token = None
    /\ ClearRuntimeCache
    /\ UNCHANGED <<mem, token, open, call, cooldown, faults>>
    /\ SameLogin /\ Quiet

----------------------------------------------------------------------------
(* run: operations on the session, under the lock *)

\* The operation ends well.
RunOk ==
    /\ Free /\ Present /\ Usable
    /\ IF Alive /\ ~mem.twofa /\ Asks THEN ProbeSucceeds ELSE SameMarks
    /\ UNCHANGED <<mem, token, open, call, cooldown, faults>>
    /\ SameLogin /\ SameSnapshot /\ Quiet

\* The REAL mode is lost and cannot be obtained again: the operation fails,
\* the session stays (force_real_mode).
RunLosesReal ==
    /\ Free /\ Alive /\ ~mem.twofa /\ Fault
    /\ mem' = [mem EXCEPT !.real = FALSE]
    /\ UNCHANGED <<token, open, call, cooldown>>
    /\ SameMarks /\ SameLogin /\ SameSnapshot /\ Quiet

\* The operation times out: its socket is closed, and the session forgotten
\* when the route says so.
RunTimesOut(forget) ==
    /\ Free /\ Present /\ Usable /\ Fault
    /\ open' = open \ {mem.client}
    /\ mem' = IF forget THEN Absent ELSE mem
    /\ backoff' = TRUE
    /\ UNCHANGED <<token, call, offline, status, cooldown>>
    /\ SameLogin /\ SameSnapshot /\ Quiet

\* A socket error in the operation: _mark_disconnected.
RunBreaks ==
    /\ Free /\ Present /\ Usable /\ Fault
    /\ mem' = Absent
    /\ open' = open \ {mem.client}
    /\ offline' = TRUE /\ backoff' = TRUE
    /\ UNCHANGED <<token, call, status, cooldown>>
    /\ SameLogin /\ SameSnapshot /\ Quiet

\* The status poll without a session and without a restore: 404, offline.
StatusNotFound ==
    /\ Free /\ ~Present /\ ~offline /\ Asks
    /\ offline' = TRUE /\ backoff' = TRUE
    /\ UNCHANGED <<mem, token, open, call, status, cooldown, faults>>
    /\ SameLogin /\ SameSnapshot /\ Quiet

----------------------------------------------------------------------------
(* GET /account reads under the lock and stores the snapshot after it *)

AccountReads ==
    /\ Free /\ Alive /\ mem.real /\ fetched = None
    /\ fetched' = mem.email
    /\ UNCHANGED <<mem, token, open, call, cooldown, faults, asksCode, leaked>>
    /\ SameMarks /\ SameLogin /\ SameSnapshot

AccountStores ==
    /\ fetched # None
    /\ account' = fetched
    /\ fetched' = None
    /\ offline' = FALSE /\ backoff' = FALSE
    /\ late' = (fetched # mem.email)
    /\ UNCHANGED <<mem, token, open, call, status, cooldown, faults, asksCode,
                   leaked>>
    /\ SameLogin

\* get_cached_probe: a mark older than the session is dropped.
ProbeDropsMark ==
    /\ offline /\ Present
    /\ offline' = FALSE /\ backoff' = FALSE
    /\ UNCHANGED <<mem, token, open, call, status, cooldown, faults>>
    /\ SameLogin /\ SameSnapshot /\ Quiet

----------------------------------------------------------------------------
(* The broker, the clock, a restart of the service *)

SocketFalls ==
    /\ Alive /\ call.client # mem.client /\ Fault
    /\ open' = open \ {mem.client}
    /\ UNCHANGED <<mem, token, call, cooldown>>
    /\ SameMarks /\ SameLogin /\ SameSnapshot /\ Quiet

OfflineExpires == offline /\ offline' = FALSE /\ UNCHANGED <<backoff, status, cooldown>>
BackoffExpires == backoff /\ backoff' = FALSE /\ UNCHANGED <<offline, status, cooldown>>
StatusExpires == status /\ status' = FALSE /\ UNCHANGED <<offline, backoff, cooldown>>
\* Mutant: a restore that failed once is never tried again by the poll.
CooldownStays == FALSE /\ UNCHANGED <<offline, backoff, status, cooldown>>

CooldownExpires == cooldown /\ cooldown' = FALSE /\ UNCHANGED <<offline, backoff, status>>

TimePasses(Mark) ==
    /\ Mark
    /\ UNCHANGED <<mem, token, open, call, faults>>
    /\ SameLogin /\ SameSnapshot /\ Quiet

ServiceRestarts ==
    /\ Fault
    /\ mem' = Absent /\ open' = {} /\ call' = Idle
    /\ offline' = FALSE /\ backoff' = FALSE /\ status' = FALSE
    /\ account' = None /\ late' = FALSE
    /\ cooldown' = FALSE /\ fetched' = None /\ leaked' = {}
    /\ UNCHANGED <<token, asksCode>> /\ SameLogin

CallEnds == \/ LoginOk \/ LoginAsksCode \/ LoginFails
            \/ CodeOk \/ CodeFails
            \/ ReconnectOk \/ ReconnectAsksCode \/ ReconnectFails
            \/ RestoreOk \/ \E rejected \in BOOLEAN : RestoreFails(rejected)

SessNext ==
    \/ CallEnds
    \/ \E e \in Email : ConnectReuse(e) \/ \E c \in Client : ConnectBegin(e, c)
    \/ \E c \in Client : LoginRetries(c)
    \/ LoginOpensSocket \/ CodeBegin
    \/ Disconnect
    \/ \E c \in Client : ReconnectByUser(c) \/ ReconnectDead(c)
    \/ \E c \in Client : RestoreByPoll(c) \/ RestoreByUser(c)
    \/ RestoreDenied
    \/ RunOk \/ RunLosesReal \/ \E forget \in BOOLEAN : RunTimesOut(forget)
    \/ RunBreaks \/ StatusNotFound
    \/ AccountReads \/ AccountStores \/ ProbeDropsMark
    \/ SocketFalls \/ ServiceRestarts
    \/ TimePasses(OfflineExpires) \/ TimePasses(BackoffExpires)
    \/ TimePasses(StatusExpires) \/ TimePasses(CooldownExpires)

SessSpec == SessInit /\ [][SessNext]_sessVars

\* The lock is released, marks expire, the gateway polls the status and the
\* worker runs operations while a robot is on.
SessFairness ==
    /\ WF_sessVars(CallEnds)
    /\ WF_sessVars(TimePasses(BackoffExpires))
    /\ WF_sessVars(TimePasses(StatusExpires))
    /\ WF_sessVars(TimePasses(CooldownExpires))
    /\ WF_sessVars(\E c \in Client : RestoreByPoll(c))
    /\ WF_sessVars(\E c \in Client : ReconnectDead(c))

SessFairSpec == SessSpec /\ SessFairness

----------------------------------------------------------------------------
(* Properties *)

\* A deliberate exit lasts: until the user logs in again no session is in
\* memory, no socket is held for it and no token is left to restore one from.
StaysOut == left => mem = Absent /\ token = None /\ call = Idle

\* Once a login has completed its token stays on disk through every fall of
\* the socket, failed reconnection, failed restore and restart, until the user
\* leaves or logs in elsewhere or the broker refuses it: a transient failure
\* never costs a password login.
TokenSurvives == wanted # None => token = wanted \/ refused

\* Between operations a session in memory is either waiting for its code or
\* one whose login completed and was persisted, on an account without codes.
NoHalfSession ==
    ~asksCode /\ Free /\ Present => token = mem.email /\ wanted = mem.email

\* Every open socket belongs to the session in memory or to the login under
\* way, save those of failed reconnections.
SocketsAccounted == open \subseteq {mem.client, call.client} \cup leaked

\* The account snapshot kept beside a session is of the account it is logged
\* in to, unless a slower GET /account stored one across the login.
AccountOfThisLogin ==
    Present /\ account \notin {None, mem.email} => late

\* A user whose login completed is logged in again whatever falls, unless he
\* leaves, logs in anew or the broker refuses the token.
Recovers == wanted # None ~> (Alive /\ Free) \/ wanted = None \/ refused
=============================================================================
