---------------------------------- MODULE Atm ----------------------------------
(***************************************************************************)
(* The cash machines of hw06-07: racks of cells with banknotes of one type  *)
(* each, the deposit, withdrawal and restore commands on a rack, and the    *)
(* department that restores all its machines.  The program is sequential:   *)
(* what makes it hard is a withdrawal that goes through the nominals twice, *)
(* once to see whether the sum comes out and once to take the notes, that   *)
(* the rack may refuse in the middle of the second pass, and that a machine *)
(* may throw in the middle of the department's round.                       *)
(***************************************************************************)
EXTENDS Integers, Sequences, FiniteSets, Functions

CONSTANTS
  Atms,
  Currencies,
  Notes,        \* the banknote types, numbers
  Nominal,      \* [Notes -> Nat \ {0}]
  CurrencyOf,   \* [Notes -> Currencies]
  Cells,        \* the cells of all racks, numbers: the order they were added in
  CellAtm,      \* [Cells -> Atms]
  CellNote,     \* [Cells -> Notes]
  CellInitial,  \* [Cells -> Nat], the memento of each cell
  Packs,        \* packs that are brought: a count for each type, 0 for none
  Sums,         \* sums that are asked for
  Broken,       \* machines whose restore may throw
  MaxNotes      \* bound: a deposit that could fill a cell further is not made

ASSUME FinitenessAssumption ==
  IsFiniteSet(Currencies) /\ IsFiniteSet(Notes) /\ IsFiniteSet(Cells)
ASSUME NotesAssumption ==
  /\ Nominal \in [Notes -> Nat \ {0}] /\ CurrencyOf \in [Notes -> Currencies]
  /\ \A b, d \in Notes :
       CurrencyOf[b] = CurrencyOf[d] /\ Nominal[b] = Nominal[d] => b = d
ASSUME CellsAssumption ==
  /\ Cells \subseteq Nat
  /\ CellAtm \in [Cells -> Atms] /\ CellNote \in [Cells -> Notes]
  /\ CellInitial \in [Cells -> Nat]
ASSUME InputsAssumption ==
  /\ Packs \subseteq [Notes -> Nat] /\ Sums \subseteq Int
  /\ Broken \subseteq Atms /\ MaxNotes \in Nat

VARIABLES
  banknoteCount,  \* Cell.banknoteCount
  atms,           \* NamedATMDepartment.atms
  restoring,      \* the department's round: the place in atms that is next, 0
                  \* when there is no round, and failedATMRestore
  answer,         \* what the last command answered
  ledger,         \* history: what was brought minus the sums that were paid,
                  \* since the last restore; not kept for the short ones
  short           \* history: machines a refused withdrawal has taken notes from

vars == <<banknoteCount, atms, restoring, answer, ledger, short>>

NoNotes == [b \in Notes |-> 0]
NothingBooked == [cur \in Currencies |-> 0]
NoAnswer == [to |-> "none", outcome |-> "ok", sum |-> 0, pack |-> NoNotes,
             failed |-> {}]

NoRound == [next |-> 0, failed |-> {}]

TypeOK ==
  /\ banknoteCount \in [Cells -> Nat]
  /\ atms \in Seq(Atms)
  /\ restoring \in [next : Nat, failed : SUBSET Atms]
  /\ answer.to \in {"none", "deposit", "withdraw", "restore", "restoreAll"}
  /\ answer.outcome \in {"ok", "illegalArgument", "unableToWithdraw", "undoFailed"}
  /\ answer.sum \in Sums \cup {0} /\ answer.pack \in [Notes -> Nat]
  /\ answer.failed \subseteq Atms
  /\ ledger \in [Atms -> [Currencies -> Int]]
  /\ short \subseteq Atms

Init ==
  /\ banknoteCount = CellInitial
  /\ atms = <<>>
  /\ restoring = NoRound
  /\ answer = NoAnswer
  /\ ledger = [a \in Atms |-> NothingBooked]
  /\ short = {}

-----------------------------------------------------------------------------
(* The rack. *)

CellsOf(a, b) == {c \in Cells : CellAtm[c] = a /\ CellNote[c] = b}
NotesOf(a) == {CellNote[c] : c \in {d \in Cells : CellAtm[d] = a}}

(* getBanknoteCountByType *)
countOf(a, b) == SumFunctionOnSet(banknoteCount, CellsOf(a, b))

worth(pack, cur) ==
  SumFunctionOnSet([b \in Notes |-> Nominal[b] * pack[b]], {b \in Notes : CurrencyOf[b] = cur})

(* getBalance, and the department's: each machine of its list. *)
balance(a, cur) == worth([b \in Notes |-> countOf(a, b)], cur)

(* The cell with the fewest notes, the first of those with equally few. *)
fewest(a, b) ==
  CHOOSE c \in CellsOf(a, b) : \A d \in CellsOf(a, b) :
    \/ banknoteCount[c] < banknoteCount[d]
    \/ banknoteCount[c] = banknoteCount[d] /\ c <= d

(* Mutant: the emptiest cells first. *)
ahead_emptiest(c) ==
  {d \in CellsOf(CellAtm[c], CellNote[c]) :
     \/ banknoteCount[d] < banknoteCount[c]
     \/ banknoteCount[d] = banknoteCount[c] /\ d < c}

(* get goes through the cells of a type from the fullest on. *)
ahead(c) ==
  {d \in CellsOf(CellAtm[c], CellNote[c]) :
     \/ banknoteCount[d] > banknoteCount[c]
     \/ banknoteCount[d] = banknoteCount[c] /\ d < c}

smaller(m, n) == IF m < n THEN m ELSE n

(* Mutant: each cell is asked for the whole count. *)
ejected_whole(c, n) == smaller(banknoteCount[c], n)

(* Mutant: a cell is not asked whether it has that many. *)
ejected_uncapped(c, n) ==
  LET before == SumFunctionOnSet(banknoteCount, ahead(c))
  IN IF before < n THEN n - before ELSE 0

(* What one cell gives when n notes of its type are wanted.  There are more    *)
(* than n of them, so that the loop is over before it comes to an empty cell.  *)
ejected(c, n) ==
  LET before == SumFunctionOnSet(banknoteCount, ahead(c))
  IN smaller(banknoteCount[c], IF before < n THEN n - before ELSE 0)

(* The count has to be more than what is asked for. *)
rackGives(a, b, n) == countOf(a, b) > n

-----------------------------------------------------------------------------
(* WithdrawCommand. *)

(* The types in stock, and those a greedy pass goes through before b. *)
stock(a, cur) == {b \in NotesOf(a) : CurrencyOf[b] = cur /\ countOf(a, b) > 0}
dearer(S, b) == {d \in S : Nominal[d] > Nominal[b]}
cheapest(S) == CHOOSE b \in S : \A d \in S : Nominal[b] <= Nominal[d]

(* withdrawCalc: as many notes of each type as fit into what is left, from the *)
(* greatest nominal down; the remainder is what the cheapest type leaves.       *)
withdrawCalc(a, cur, sum) ==
  LET S == stock(a, cur)
      pass[b \in S] ==
        LET left == IF dearer(S, b) = {} THEN sum
                    ELSE pass[cheapest(dearer(S, b))].left
            n == smaller(left \div Nominal[b], countOf(a, b))
        IN [taken |-> n, left |-> left - n * Nominal[b]]
  IN [taken |-> [b \in Notes |-> IF b \in S THEN pass[b].taken ELSE 0],
      left |-> IF S = {} THEN sum ELSE pass[cheapest(S)].left]

(* The notes the second pass takes from the rack: all of them, or those of the *)
(* types before the first one the rack refuses.                                *)
paidOut(a, cur, taken) ==
  [b \in Notes |->
     IF \A d \in dearer(stock(a, cur), b) \cup {b} :
          taken[d] > 0 => rackGives(a, d, taken[d])
       THEN taken[b] ELSE 0]

answerTo(op, outcome, sum, pack) ==
  answer' = [to |-> op, outcome |-> outcome, sum |-> sum, pack |-> pack,
             failed |-> {}]

book(a, sums) ==
  ledger' = IF a \in short THEN ledger
            ELSE [ledger EXCEPT ![a] =
                    [cur \in Currencies |-> @[cur] + sums[cur]]]

(* checkParams; a currency the machine has no notes of has a sum of 0. *)
WithdrawRefused(a, cur, sum) ==
  /\ ~(sum > 0 /\ sum <= balance(a, cur))
  /\ answerTo("withdraw", "illegalArgument", sum, NoNotes)
  /\ UNCHANGED <<banknoteCount, atms, ledger, short>>

WithdrawUnable(a, cur, sum) ==
  /\ sum > 0 /\ sum <= balance(a, cur)
  /\ withdrawCalc(a, cur, sum).left # 0
  /\ answerTo("withdraw", "unableToWithdraw", sum, NoNotes)
  /\ UNCHANGED <<banknoteCount, atms, ledger, short>>

(* The pack is handed out only when the whole pass went through. *)
Withdraw(a, cur, sum) ==
  LET calc == withdrawCalc(a, cur, sum)
      pack == paidOut(a, cur, calc.taken)
      paid == pack = calc.taken
  IN
  /\ sum > 0 /\ sum <= balance(a, cur)
  /\ calc.left = 0
  /\ banknoteCount' =
       [c \in Cells |-> IF CellAtm[c] = a
                          THEN banknoteCount[c] - ejected(c, pack[CellNote[c]])
                          ELSE banknoteCount[c]]
  /\ IF paid
       THEN /\ answerTo("withdraw", "ok", sum, pack)
            /\ book(a, [x \in Currencies |-> IF x = cur THEN -sum ELSE 0])
            /\ UNCHANGED short
       ELSE /\ answerTo("withdraw", "illegalArgument", sum, NoNotes)
            /\ short' = IF pack = NoNotes THEN short ELSE short \cup {a}
            /\ ledger' = IF pack = NoNotes THEN ledger
                         ELSE [ledger EXCEPT ![a] = NothingBooked]
  /\ UNCHANGED atms

-----------------------------------------------------------------------------
(* DepositCommand: a pack with a type the machine has no cell for is refused   *)
(* before anything is put.                                                     *)

typesIn(pack) == {b \in Notes : pack[b] > 0}

(* Mutant: what there are cells for is put before the refusal. *)
DepositRefused_late(a, pack) ==
  /\ ~(typesIn(pack) \subseteq NotesOf(a))
  /\ banknoteCount' =
       [c \in Cells |->
          IF CellAtm[c] = a /\ c = fewest(a, CellNote[c])
            THEN banknoteCount[c] + pack[CellNote[c]] ELSE banknoteCount[c]]
  /\ \A c \in Cells : banknoteCount'[c] <= MaxNotes
  /\ answerTo("deposit", "illegalArgument", 0, NoNotes)
  /\ UNCHANGED <<atms, ledger, short>>

DepositRefused(a, pack) ==
  /\ ~(typesIn(pack) \subseteq NotesOf(a))
  /\ answerTo("deposit", "illegalArgument", 0, NoNotes)
  /\ UNCHANGED <<banknoteCount, atms, ledger, short>>

Deposit(a, pack) ==
  /\ typesIn(pack) \subseteq NotesOf(a)
  /\ banknoteCount' =
       [c \in Cells |->
          IF CellAtm[c] = a /\ c = fewest(a, CellNote[c])
            THEN banknoteCount[c] + pack[CellNote[c]] ELSE banknoteCount[c]]
  /\ \A c \in Cells : banknoteCount'[c] <= MaxNotes
  /\ book(a, [cur \in Currencies |-> worth(pack, cur)])
  /\ answerTo("deposit", "ok", 0, NoNotes)
  /\ UNCHANGED <<atms, short>>

-----------------------------------------------------------------------------
(* The restore of one machine and of the department's. *)

restored(A) ==
  /\ banknoteCount' = [c \in Cells |-> IF CellAtm[c] \in A THEN CellInitial[c]
                                       ELSE banknoteCount[c]]
  /\ ledger' = [a \in Atms |-> IF a \in A THEN NothingBooked ELSE ledger[a]]
  /\ short' = short \ A

Restore(a) ==
  /\ restored({a})
  /\ answerTo("restore", "ok", 0, NoNotes)
  /\ UNCHANGED atms

(* restoreAllToDefaultState begins: forEach over the list. *)
RestoreAll ==
  /\ restoring = NoRound
  /\ restoring' = [next |-> 1, failed |-> {}]
  /\ answer' = NoAnswer
  /\ UNCHANGED <<banknoteCount, atms, ledger, short>>

InRound == restoring.next \in 1..Len(atms)

(* One turn of the loop: the machine is restored. *)
RestoreMember ==
  /\ InRound
  /\ restored({atms[restoring.next]})
  /\ restoring' = [next |-> restoring.next + 1, failed |-> restoring.failed]
  /\ answer' = NoAnswer
  /\ UNCHANGED atms

(* Mutant: a machine that throws ends the round. *)
MemberFails_stop ==
  /\ InRound /\ atms[restoring.next] \in Broken
  /\ restoring' = [next |-> Len(atms) + 1,
                   failed |-> restoring.failed \cup {atms[restoring.next]}]
  /\ answer' = NoAnswer
  /\ UNCHANGED <<banknoteCount, atms, ledger, short>>

(* ... or it throws, which the turn catches: the loop goes on. *)
MemberFails ==
  /\ InRound /\ atms[restoring.next] \in Broken
  /\ restoring' = [next |-> restoring.next + 1,
                   failed |-> restoring.failed \cup {atms[restoring.next]}]
  /\ answer' = NoAnswer
  /\ UNCHANGED <<banknoteCount, atms, ledger, short>>

(* After the loop: the machines that threw are named. *)
RoundEnds ==
  /\ restoring.next = Len(atms) + 1
  /\ restoring' = NoRound
  /\ answer' = [NoAnswer EXCEPT
                  !.to = "restoreAll", !.failed = restoring.failed,
                  !.outcome = IF restoring.failed = {} THEN "ok" ELSE "undoFailed"]
  /\ UNCHANGED <<banknoteCount, atms, ledger, short>>

members == {atms[i] : i \in 1..Len(atms)}

(* addATM; a machine may be in the list more than once, here not twice. *)
AddATM(a) ==
  /\ a \notin members
  /\ atms' = Append(atms, a)
  /\ answer' = NoAnswer
  /\ UNCHANGED <<banknoteCount, ledger, short>>

-----------------------------------------------------------------------------

(* The commands that are carried out in one go. *)
Command ==
  \E a \in Atms :
    \/ Restore(a) \/ AddATM(a)
    \/ \E pack \in Packs : Deposit(a, pack) \/ DepositRefused(a, pack)
    \/ \E cur \in Currencies, sum \in Sums :
         \/ Withdraw(a, cur, sum) \/ WithdrawRefused(a, cur, sum)
         \/ WithdrawUnable(a, cur, sum)

Next ==
  \/ RestoreAll \/ RestoreMember \/ MemberFails \/ RoundEnds
  \/ restoring = NoRound /\ Command /\ UNCHANGED restoring

Spec == Init /\ [][Next]_vars

-----------------------------------------------------------------------------
(* Properties. *)

(* Through any sequence of deposits and withdrawals a machine holds what it    *)
(* began with, plus what was brought, minus the sums that were asked for and    *)
(* paid - unless a withdrawal was refused half way.                             *)
BooksBalance ==
  \A a \in Atms \ short, cur \in Currencies :
    balance(a, cur) =
      worth([b \in Notes |-> SumFunctionOnSet(CellInitial, CellsOf(a, b))], cur) + ledger[a][cur]

(* A withdrawal that succeeds hands out notes worth its sum, and none takes     *)
(* more than its sum from a machine, or takes from two.                         *)
PaidInFull ==
  [][answer'.to = "withdraw" =>
       LET handed == SumFunction([x \in Currencies |-> worth(answer'.pack, x)])
           missing(a) == SumFunction([x \in Currencies |-> balance(a, x) - balance(a, x)'])
       IN /\ answer'.outcome = "ok" => handed = answer'.sum
          /\ \A a \in Atms : missing(a) # 0 =>
               /\ missing(a) \in handed..answer'.sum
               /\ \A e \in Atms \ {a} : missing(e) = 0]_vars

(* CellManagement.get: notes come from the fullest cell of their type, and      *)
(* from the next only when that one is empty.                                   *)
FullerCellsFirst ==
  [][answer'.to = "withdraw" =>
       \A c, d \in Cells :
         /\ CellAtm[c] = CellAtm[d] /\ CellNote[c] = CellNote[d]
         /\ banknoteCount[c] > banknoteCount[d]
         /\ banknoteCount'[d] # banknoteCount[d]
         => banknoteCount'[c] = 0]_vars

(* ATMDepartment.restoreAllToDefaultState: when the round is over every machine *)
(* of the list has been restored or is among those it says have failed, which   *)
(* are some that can, whoever threw before it came to that machine.             *)
RestoredIndependently ==
  [][answer'.to = "restoreAll" =>
       /\ answer'.failed \subseteq Broken \cap members
       /\ \A c \in Cells : CellAtm[c] \in members \ answer'.failed =>
                             banknoteCount'[c] = CellInitial[c]]_vars

(* BusinessScenarioTest: a withdrawal that fails leaves the balances.           *)
FailureLeavesBalance ==
  [][answer'.to = "withdraw" /\ answer'.outcome # "ok" =>
       UNCHANGED banknoteCount]_vars

(* The state is well formed, and the cells account for what was brought and paid. *)
BooksInOrder == TypeOK /\ BooksBalance
=============================================================================
