--------------------------- MODULE WalletSession ----------------------------
(***************************************************************************)
(* The wallet session of the desktop application                           *)
(* (crates/scp-ui/src-tauri/src/lib.rs): the keystore that is open, the    *)
(* time of the last action, the task that closes it after an idle time,    *)
(* and the window (crates/scp-ui/src/App.tsx), which asks for the          *)
(* governance state again and again while it shows the unlocked view.      *)
(*                                                                         *)
(* The commands of the window run one at a time; the checking task runs    *)
(* beside them.  Time is counted in ticks; timers are on time.             *)
(***************************************************************************)
EXTENDS Naturals

CONSTANTS
    Timeout,        \* check_timeout(300)
    CheckPeriod,    \* the sleep of the checking task, 30 s
    PollPeriod      \* setInterval of App.tsx, 5 s

ASSUME SessionAssumption ==
    /\ Timeout \in Nat /\ CheckPeriod \in Nat \ {0} /\ PollPeriod \in Nat \ {0}
    /\ PollPeriod <= Timeout

VARIABLES
    keystore,       \* AppState.keystore: "none" or "some"
    idle,           \* ticks since last_action (no longer counted past LongIdle)
    unlocking,      \* unlock_wallet is between touch() and its end
    checker,        \* "asleep", or "expired": it has found last_action too old
    sinceCheck,     \* ticks since the checking task went to sleep
    view,           \* the window: "unlock", "main", "hidden" (main, its timers stopped)
    sincePoll,      \* ticks since the main view last asked, or came up
    asked,          \* history: the main view has asked since it came up
    touched         \* history: last_action was set since the checker read it

sessionVars == <<keystore, idle, unlocking, checker, sinceCheck, view, sincePoll,
                 asked, touched>>

LongIdle == Timeout + CheckPeriod + 1

\* Type invariant of the session.
SessionTypeOK ==
    /\ keystore \in {"none", "some"} /\ idle \in 0 .. LongIdle
    /\ unlocking \in BOOLEAN
    /\ checker \in {"asleep", "expired"} /\ sinceCheck \in 0 .. CheckPeriod
    /\ view \in {"unlock", "main", "hidden"} /\ sincePoll \in 0 .. PollPeriod
    /\ asked \in BOOLEAN /\ touched \in BOOLEAN

\* AppState::new; the first view is the unlock screen (locked = true).
SessionInit ==
    /\ keystore = "none" /\ idle = 0 /\ unlocking = FALSE
    /\ checker = "asleep" /\ sinceCheck = 0
    /\ view = "unlock" /\ sincePoll = 0
    /\ asked = FALSE /\ touched = FALSE

Touch == idle' = 0 /\ touched' = TRUE

\* A command of the window: the main thread is not busy with another one.
Command == ~unlocking /\ view # "hidden"

-----------------------------------------------------------------------------
(* Commands.                                                               *)

\* The unlock screen asks once, when it appears.
IsWalletInitialized ==
    /\ Command /\ view = "unlock"
    /\ Touch
    /\ UNCHANGED <<keystore, unlocking, checker, sinceCheck, view, sincePoll, asked>>

BeginUnlock ==
    /\ Command /\ view = "unlock"
    /\ Touch
    /\ unlocking' = TRUE
    /\ UNCHANGED <<keystore, checker, sinceCheck, view, sincePoll, asked>>

\* JsonKeystore::new opened the file, or created it; the window changes its view.
UnlockWallet ==
    /\ unlocking /\ unlocking' = FALSE
    /\ keystore' = "some"
    /\ view' = "main" /\ sincePoll' = 0 /\ asked' = FALSE
    /\ UNCHANGED <<idle, checker, sinceCheck, touched>>

\* A wrong password, or a file that cannot be read: what was open stays open.
UnlockRefused ==
    /\ unlocking /\ unlocking' = FALSE
    /\ UNCHANGED <<keystore, idle, checker, sinceCheck, view, sincePoll, asked, touched>>

LockWallet ==
    /\ Command
    /\ keystore' = "none"
    /\ UNCHANGED <<idle, unlocking, checker, sinceCheck, view, sincePoll, asked, touched>>

Asked(touching) ==
    /\ Command /\ view = "main"
    /\ touching
    /\ sincePoll' = 0 /\ asked' = TRUE
    /\ UNCHANGED <<keystore, unlocking, checker, sinceCheck, view>>

\* Variant: the question counts as no action.
GovernanceStateUntouched == Asked(UNCHANGED <<idle, touched>>)

\* get_governance_state, by the timer or after stake and claim, which themselves
\* neither touch nor look at the keystore.
GetGovernanceState == Asked(Touch)

-----------------------------------------------------------------------------
(* The window.                                                             *)

\* Reloaded: is_wallet_locked decides on the view.
CheckLock ==
    /\ ~unlocking /\ view' = IF keystore = "some" THEN "main" ELSE "unlock"
    /\ sincePoll' = 0 /\ asked' = FALSE
    /\ UNCHANGED <<keystore, idle, unlocking, checker, sinceCheck, touched>>

\* The system stops the timers of a window it does not show, and wakes them up.
Suspend ==
    /\ view = "main" /\ view' = "hidden"
    /\ UNCHANGED <<keystore, idle, unlocking, checker, sinceCheck, sincePoll, asked, touched>>

Resume ==
    /\ view = "hidden" /\ view' = "main"
    /\ sincePoll' = 0 /\ asked' = FALSE
    /\ UNCHANGED <<keystore, idle, unlocking, checker, sinceCheck, touched>>

-----------------------------------------------------------------------------
(* The checking task: last_action is read, then the keystore replaced.     *)

CheckedAgainst(expired) ==
    /\ checker = "asleep" /\ sinceCheck = CheckPeriod
    /\ IF expired
       THEN checker' = "expired" /\ touched' = FALSE /\ UNCHANGED sinceCheck
       ELSE sinceCheck' = 0 /\ UNCHANGED <<checker, touched>>
    /\ UNCHANGED <<keystore, idle, unlocking, view, sincePoll, asked>>

\* Variant: the keystore expires when the idle time *is* the timeout.
CheckTimeoutExact == CheckedAgainst(idle = Timeout)

CheckTimeout == CheckedAgainst(idle > Timeout)

LockExpired ==
    /\ checker = "expired" /\ checker' = "asleep"
    /\ sinceCheck' = 0
    /\ keystore' = "none"
    /\ UNCHANGED <<idle, unlocking, view, sincePoll, asked, touched>>

\* One tick; nothing that is due is passed over.
SessionTick ==
    /\ ~unlocking /\ checker = "asleep" /\ sinceCheck < CheckPeriod
    /\ view = "main" => sincePoll < PollPeriod
    /\ idle' = IF idle < LongIdle THEN idle + 1 ELSE idle
    /\ sinceCheck' = sinceCheck + 1
    /\ sincePoll' = IF view = "main" THEN sincePoll + 1 ELSE sincePoll
    /\ UNCHANGED <<keystore, unlocking, checker, view, asked, touched>>

SessionNext ==
    \/ IsWalletInitialized \/ BeginUnlock \/ UnlockWallet \/ UnlockRefused
    \/ LockWallet \/ GetGovernanceState
    \/ CheckLock \/ Suspend \/ Resume
    \/ CheckTimeout \/ LockExpired \/ SessionTick

SessionSpec == SessionInit /\ [][SessionNext]_sessionVars

-----------------------------------------------------------------------------
(* Properties.                                                             *)

\* Without an action the keystore is closed within the timeout and one period of
\* the checking task (lib.rs:80-91, 242-247).
IdleCloses == keystore = "some" => idle <= Timeout + CheckPeriod

\* Once the main view has asked, its questions are the actions: the checking task
\* does not close the keystore under it, whatever the user does, unless it had
\* found it expired before the question (lib.rs:157, App.tsx:59-61).
ShownStaysOpen ==
    [][LockExpired /\ keystore = "some" /\ view = "main" /\ asked => touched]_sessionVars
=============================================================================
