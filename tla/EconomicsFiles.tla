--------------------------- MODULE EconomicsFiles ---------------------------
(***************************************************************************)
(* The files of the token economics and the front ends that use them: the  *)
(* command line (cli/src/main.rs), which loads the three files, runs one   *)
(* command and saves what it changed, and the desktop application          *)
(* (crates/scp-ui/src-tauri/src/lib.rs), which loads them once and saves   *)
(* all three after each command.  A save truncates the file and writes it  *)
(* anew.  Nothing locks the directory.                                     *)
(*                                                                         *)
(* What a command does to the three parts is reduced to one holder and     *)
(* done in one step: a process runs one command at a time.  Economics has  *)
(* the operations themselves, and the u64 sums that wrap; here amounts are *)
(* those whose sums do not, and rewards are exact.                         *)
(***************************************************************************)
EXTENDS Naturals, Sequences

CONSTANTS
    Processes,
    Desktops,           \* those that are the desktop application
    FileAmounts,        \* amounts of tokens and of satoshis
    FileMinStake,       \* StakingConfig.min_stake
    FileMaxSupply,      \* 1_000_000_000
    Gift,               \* stake() of the desktop mints this much more, 100
    MaxCommands,        \* bound: commands run
    MaxMetCommands,     \* bound: the same, once two processes have met
    MaxFileStops        \* bound: crashes and failing saves

ASSUME FilesAssumption ==
    /\ Desktops \subseteq Processes
    /\ FileAmounts \subseteq Nat \ {0} /\ FileMinStake \in Nat
    /\ FileMaxSupply \in Nat /\ Gift \in Nat
    /\ MaxCommands \in Nat /\ MaxMetCommands \in 0 .. MaxCommands /\ MaxFileStops \in Nat

VARIABLES
    disk,           \* per part, the text of its file and what it says
    process,
    commands, stops,
    ledger,         \* history: the memory of the last command reported as done
    paidOut,        \* history: rewards reported as paid
    met,            \* history: two processes were alive at once
    cut,            \* history: the commands a crash or a failing save cut short
    skipped         \* history: the desktop went on after a save that failed

filesVars == <<disk, process, commands, stops, ledger, paidOut, met, cut, skipped>>

Parts == {"token", "pool", "fees"}

\* CtdlToken, StakingPool and FeeDistributor, with one holder.
Memory == [token: [supply: Nat, free: Nat, staked: Nat],
           pool: [amount: Nat, credited: Nat, owed: Nat],
           fees: [pending: Nat, collected: Nat, distributed: Nat]]

Fresh == [token |-> [supply |-> 0, free |-> 0, staked |-> 0],
          pool |-> [amount |-> 0, credited |-> 0, owed |-> 0],
          fees |-> [pending |-> 0, collected |-> 0, distributed |-> 0]]

Verbs == {"none", "mint", "transfer", "stake", "unstake", "claim", "distribute", "collect"}

\* left: the files still to be saved; open: the first of them is truncated.
Process == [pc: {"out", "ready", "save"}, memory: Memory, verb: Verbs,
            left: Seq(Parts), open: BOOLEAN]

Out == [pc |-> "out", memory |-> Fresh, verb |-> "none", left |-> <<>>, open |-> FALSE]

\* Type invariant: the supply on disk and in memory keeps its cap.
FilesTypeOK ==
    /\ DOMAIN disk = Parts
    /\ \A f \in Parts : disk[f].text \in {"absent", "empty", "torn", "whole"}
    /\ [f \in Parts |-> disk[f].says] \in Memory
    /\ process \in [Processes -> Process]
    /\ \A p \in Processes : process[p].memory.token.supply <= FileMaxSupply
    /\ commands \in 0 .. MaxCommands /\ stops \in 0 .. MaxFileStops
    /\ ledger \in Memory /\ paidOut \in Nat
    /\ met \in BOOLEAN /\ cut \subseteq Verbs /\ skipped \in BOOLEAN

FilesInit ==
    /\ disk = [f \in Parts |-> [text |-> "absent", says |-> Fresh[f]]]
    /\ process = [p \in Processes |-> Out]
    /\ commands = 0 /\ stops = 0
    /\ ledger = Fresh /\ paidOut = 0
    /\ met = FALSE /\ cut = {} /\ skipped = FALSE

\* load_or_new: an absent file stands for a fresh part.
OnDisk == [f \in Parts |-> disk[f].says]
Loadable == \A f \in Parts : disk[f].text \in {"absent", "whole"}

-----------------------------------------------------------------------------
(* The three load_or_new() of a front end, in one step.  A file that does  *)
(* not parse makes them panic, so that no command runs any more.           *)

MayRun == commands < IF met THEN MaxMetCommands ELSE MaxCommands

Load(p) ==
    /\ process[p].pc = "out" /\ Loadable /\ MayRun
    /\ process' = [process EXCEPT ![p] = [Out EXCEPT !.pc = "ready", !.memory = OnDisk]]
    /\ met' = (met \/ \E q \in Processes \ {p} : process[q].pc # "out")
    /\ UNCHANGED <<disk, commands, stops, ledger, paidOut, cut, skipped>>

-----------------------------------------------------------------------------
(* The commands, on the memory m of a process.  A refused one ends the     *)
(* process and saves nothing.                                              *)

Minted(m, a) == [m EXCEPT !.token.supply = @ + a, !.token.free = @ + a]
MintFits(m, a) == m.token.supply + a <= FileMaxSupply

Staked(m, a) == [m EXCEPT !.token.free = @ - a, !.token.staked = @ + a, !.pool.amount = @ + a]
StakeFits(m, a) == m.pool.amount + a >= FileMinStake /\ a <= m.token.free

Unstaked(m, a) == [m EXCEPT !.token.free = @ + a, !.token.staked = @ - a, !.pool.amount = @ - a]
UnstakeFits(m, a) == a <= m.pool.amount /\ a <= m.token.staked

Claimed(m) == [m EXCEPT !.pool.owed = 0]

\* With nobody staking the fees are spent and credited to no one.
Distributed(m) ==
    LET credit == IF m.pool.amount = 0 THEN 0 ELSE m.fees.pending IN
    [m EXCEPT !.fees.pending = 0, !.fees.distributed = @ + m.fees.pending,
              !.pool.credited = @ + credit, !.pool.owed = @ + credit]

Collected(m, a) == [m EXCEPT !.fees.pending = @ + a, !.fees.collected = @ + a]

\* Variant: staking first, fees last.
SavedByPoolFirst(verb) ==
    CASE verb \in {"mint", "transfer"} -> <<"token">>
      [] verb \in {"stake", "unstake"} -> <<"pool", "token">>
      [] verb = "claim" -> <<"pool">>
      [] verb = "distribute" -> <<"pool", "fees">>
      [] verb = "collect" -> <<"fees">>

\* Variant: a distribution saves the distributor only.
SavedByOwnerOnly(verb) ==
    CASE verb \in {"mint", "transfer"} -> <<"token">>
      [] verb \in {"stake", "unstake"} -> <<"token", "pool">>
      [] verb = "claim" -> <<"pool">>
      [] verb \in {"distribute", "collect"} -> <<"fees">>

\* The files a command of the CLI saves, in order.
SavedBy(verb) ==
    CASE verb \in {"mint", "transfer"} -> <<"token">>
      [] verb \in {"stake", "unstake"} -> <<"token", "pool">>
      [] verb = "claim" -> <<"pool">>
      [] verb = "distribute" -> <<"fees", "pool">>
      [] verb = "collect" -> <<"fees">>

\* AppState::save_all.
SaveAll == <<"token", "pool", "fees">>

Run(p, verb, after, files) ==
    /\ process[p].pc = "ready" /\ MayRun
    /\ commands' = commands + 1
    /\ process' = [process EXCEPT ![p] = [pc |-> "save", memory |-> after, verb |-> verb,
                                          left |-> files, open |-> FALSE]]
    /\ paidOut' = paidOut + IF verb = "claim" THEN process[p].memory.pool.owed ELSE 0
    /\ UNCHANGED <<disk, stops, ledger, met, cut, skipped>>

CliRun(p, verb, after) ==
    p \notin Desktops /\ Run(p, verb, after, SavedBy(verb))

CliMint(p, a) ==
    LET m == process[p].memory IN MintFits(m, a) /\ CliRun(p, "mint", Minted(m, a))

CliTransfer(p, a) ==
    LET m == process[p].memory IN
    a <= m.token.free /\ CliRun(p, "transfer", [m EXCEPT !.token.free = @ - a])

CliStake(p, a) ==
    LET m == process[p].memory IN StakeFits(m, a) /\ CliRun(p, "stake", Staked(m, a))

CliUnstake(p, a) ==
    LET m == process[p].memory IN UnstakeFits(m, a) /\ CliRun(p, "unstake", Unstaked(m, a))

CliClaim(p) ==
    LET m == process[p].memory IN m.pool.owed > 0 /\ CliRun(p, "claim", Claimed(m))

CliDistribute(p) == CliRun(p, "distribute", Distributed(process[p].memory))

CliCollect(p, a) == CliRun(p, "collect", Collected(process[p].memory, a))

\* stake() mints first and ignores a refusal; if the stake is refused the mint
\* stays in memory, unsaved.
DesktopStake(p, a) ==
    LET m == process[p].memory
        funded == IF MintFits(m, a + Gift) THEN Minted(m, a + Gift) ELSE m
    IN
    /\ p \in Desktops
    /\ \/ /\ StakeFits(funded, a)
          /\ Run(p, "stake", Staked(funded, a), SaveAll)
       \/ /\ ~StakeFits(funded, a)
          /\ process[p].pc = "ready" /\ MayRun
          /\ commands' = commands + 1
          /\ process' = [process EXCEPT ![p].memory = funded]
          /\ UNCHANGED <<disk, stops, ledger, paidOut, met, cut, skipped>>

DesktopClaim(p) ==
    LET m == process[p].memory IN
    p \in Desktops /\ m.pool.owed > 0 /\ Run(p, "claim", Claimed(m), SaveAll)

-----------------------------------------------------------------------------
(* save(): File::create truncates, to_writer_pretty writes.                *)

Saving(p) == process[p].pc = "save" /\ process[p].left # <<>>

Truncate(p) ==
    /\ Saving(p) /\ ~process[p].open
    /\ process' = [process EXCEPT ![p].open = TRUE]
    /\ disk' = [disk EXCEPT ![Head(process[p].left)].text = "empty"]
    /\ UNCHANGED <<commands, stops, ledger, paidOut, met, cut, skipped>>

\* Over what another process wrote meanwhile, the end of a longer text stays.
WriteFile(p) ==
    LET f == Head(process[p].left) IN
    /\ Saving(p) /\ process[p].open
    /\ \/ disk' = [disk EXCEPT ![f] = [text |-> "whole", says |-> process[p].memory[f]]]
       \/ disk[f].text # "empty" /\ disk' = [disk EXCEPT ![f].text = "torn"]
    /\ process' = [process EXCEPT ![p] = [process[p] EXCEPT !.open = FALSE, !.left = Tail(@)]]
    /\ UNCHANGED <<commands, stops, ledger, paidOut, met, cut, skipped>>

\* All is saved: the CLI ends, the desktop answers the window.
CommandDone(p) ==
    /\ process[p].pc = "save" /\ process[p].left = <<>>
    /\ ledger' = process[p].memory
    /\ process' = [process EXCEPT ![p] = IF p \in Desktops
                     THEN [@ EXCEPT !.pc = "ready", !.verb = "none"] ELSE Out]
    /\ UNCHANGED <<disk, commands, stops, paidOut, met, cut, skipped>>

-----------------------------------------------------------------------------
Stop == stops < MaxFileStops /\ stops' = stops + 1

\* A save that fails ends the CLI (expect) like a crash; the desktop drops the
\* error (ok) and saves the next file.
DesktopSaveFails(p) ==
    LET f == Head(process[p].left) IN
    /\ Stop
    /\ p \in Desktops /\ Saving(p)
    /\ process' = [process EXCEPT ![p] = [process[p] EXCEPT !.open = FALSE, !.left = Tail(@)]]
    /\ skipped' = TRUE
    /\ UNCHANGED <<disk, commands, ledger, paidOut, met, cut>>

Crash(p) ==
    /\ Stop
    /\ process[p].pc = "save"
    /\ process' = [process EXCEPT ![p] = Out]
    /\ cut' = cut \cup {process[p].verb}
    /\ UNCHANGED <<disk, commands, ledger, paidOut, met, skipped>>

\* The desktop is closed: at ExitRequested it asks for a State<AppState> where
\* an Arc<AppState> is managed, and panics instead of saving.  A command of the
\* CLI that is refused, or that only shows something, ends as well.
Leave(p) ==
    /\ process[p].pc = "ready"
    /\ process' = [process EXCEPT ![p] = Out]
    /\ UNCHANGED <<disk, commands, stops, ledger, paidOut, met, cut, skipped>>

-----------------------------------------------------------------------------
FilesNext ==
    \E p \in Processes :
        \/ Load(p) \/ Truncate(p) \/ WriteFile(p) \/ CommandDone(p)
        \/ DesktopSaveFails(p) \/ Crash(p) \/ Leave(p)
        \/ CliClaim(p) \/ CliDistribute(p) \/ DesktopClaim(p)
        \/ \E a \in FileAmounts :
             \/ CliMint(p, a) \/ CliTransfer(p, a) \/ CliStake(p, a) \/ CliUnstake(p, a)
             \/ CliCollect(p, a) \/ DesktopStake(p, a)

FilesSpec == FilesInit /\ [][FilesNext]_filesVars

-----------------------------------------------------------------------------
(* Properties.                                                             *)

Quiet == \A p \in Processes : process[p].pc # "save"

\* The next process finds what the last command reported as done left in memory
\* (main.rs:279-357, lib.rs:93-98): no command changes a part it does not save.
\* Unless two processes were alive at once, one was cut short, or the desktop
\* went on after a failing save.
DoneIsOnDisk ==
    Quiet /\ ~met /\ cut = {} /\ ~skipped => Loadable /\ OnDisk = ledger

\* Crashes between the saves of a command lose, but never give: what the stakers
\* are credited was taken from the fees; a stake is locked, unless an unstake was
\* cut short; what was paid and is still owed was credited, unless a claim was.
CrashesNeverOverpay ==
    Quiet /\ Loadable /\ ~met /\ ~skipped =>
        /\ OnDisk.pool.credited <= OnDisk.fees.distributed
        /\ "unstake" \in cut \/ OnDisk.pool.amount <= OnDisk.token.staked
        /\ "claim" \in cut \/ paidOut + OnDisk.pool.owed <= OnDisk.pool.credited
=============================================================================
