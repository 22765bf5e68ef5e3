------------------------------ MODULE Traffic -------------------------------
(***************************************************************************)
(* Traffic accounting of one node: what its agent reads from the kernel    *)
(* (agent/src/collect.rs), how the Hub folds it into the total, the month  *)
(* and the day (server/src/db/mod.rs, accumulate_on), how the panel        *)
(* corrects the figures (set_traffic) and what it is shown (all_traffic).  *)
(*                                                                         *)
(* One direction stands for both, which are treated alike and come         *)
(* together or not at all.  Reports of a node are processed one at a time  *)
(* and in order (see AgentSession), in the writer's transaction, so a      *)
(* report is one step; one that does not arrive is no step.  Dates are day *)
(* numbers of a calendar whose months have any lengths.                    *)
(***************************************************************************)
EXTENDS Integers, Sequences, FiniteSetsExt

CONSTANTS
  Ifaces,          (* network interfaces                                   *)
  MonthLengths,    (* the days of each month of the calendar               *)
  FirstDay, MaxDay,(* bound: the days the Hub runs                         *)
  ResetDays,       (* the reset days the panel sets                        *)
  Corrections,     (* the figures the panel sets                           *)
  MAX,             (* i64::MAX                                             *)
  MaxBytes,        (* bound: bytes that cross the interfaces               *)
  MaxUpheavals     (* bound: reboots and changes of the interfaces         *)

(* The last day of each month, and the month of a day.                      *)
LastOf == [m \in 0..Len(MonthLengths) |-> SumFunctionOnSet(MonthLengths, 1..m)]
MonthOf(d) == CHOOSE m \in DOMAIN MonthLengths : LastOf[m - 1] < d /\ d <= LastOf[m]

ASSUME TrafficAssumption ==
  /\ IsFiniteSet(Ifaces)
  /\ MonthLengths \in Seq(Nat \ {0})
  /\ FirstDay \in Nat /\ MaxDay \in Nat /\ FirstDay <= MaxDay
  /\ MonthLengths # <<>> /\ MonthLengths[1] < FirstDay /\ MaxDay <= LastOf[Len(MonthLengths)]
  /\ ResetDays \subseteq Nat \ {0} /\ ResetDays # {}
  /\ MAX \in Nat /\ Corrections \subseteq 0..MAX /\ MaxBytes \in Nat /\ MaxUpheavals \in Nat

Days == FirstDay..MaxDay
NoDate == 0

VARIABLES
  today,
  reset_day,    (* node.traffic_reset_day                                  *)
  edited,       (* history: the reset day was edited                       *)
  (* The machine. *)
  boot,         (* the kernel's boot id                                    *)
  counted,      (* the interfaces that count                               *)
  count,        (* the lifetime counter of each interface                  *)
  bytes,        (* history: the bytes that ever crossed the interfaces     *)
  upheavals,    (* history: reboots and changes of the interfaces          *)
  (* The Hub. *)
  row           (* the node's row in traffic, with a history of its own    *)

machine == <<boot, counted, count, bytes, upheavals>>
traffic_vars == <<today, reset_day, edited, machine, row>>

(* What the agent sends: the boot with the set of interfaces, and the sum.  *)
Epoch == <<boot, counted>>
Reading == SumFunctionOnSet(count, counted)

NoEpoch == <<0, {}>>

(* The row, and what is remembered about it: the bytes and the upheavals    *)
(* before the report it comes from, and what was booked on each day, to the *)
(* day's figure and to the month's.                                         *)
Rows ==
  [boot_id : ({NoEpoch} \cup (1..MaxUpheavals + 1) \X SUBSET Ifaces),
   last : 0..MAX, total : 0..MAX, month : 0..MAX, month_start : 0..MaxDay,
   day : 0..MAX, day_start : 0..MaxDay,
   at : 0..MaxBytes, upheavals : 0..MaxUpheavals,
   daily : [Days -> Nat], monthly : [Days -> Nat]]

Fresh ==
  [boot_id |-> NoEpoch, last |-> 0, total |-> 0, month |-> 0, month_start |-> NoDate,
   day |-> 0, day_start |-> NoDate, at |-> 0, upheavals |-> 0,
   daily |-> [d \in Days |-> 0], monthly |-> [d \in Days |-> 0]]

TrafficTypeOK ==
  /\ today \in Days /\ reset_day \in ResetDays /\ edited \in BOOLEAN
  /\ boot \in 1..MaxUpheavals + 1 /\ counted \subseteq Ifaces
  /\ count \in [Ifaces -> 0..MaxBytes] /\ bytes \in 0..MaxBytes
  /\ upheavals \in 0..MaxUpheavals
  /\ row \in Rows

TrafficInit ==
  /\ today = FirstDay /\ reset_day \in ResetDays /\ edited = FALSE
  /\ boot = 1 /\ counted \in SUBSET Ifaces /\ count = [i \in Ifaces |-> 0]
  /\ bytes = 0 /\ upheavals = 0
  /\ row = Fresh

-----------------------------------------------------------------------------
(* The machine.                                                             *)

(* A byte crosses an interface, counted or not.                             *)
Cross(i) ==
  /\ bytes < MaxBytes
  /\ bytes' = bytes + 1
  /\ count' = [count EXCEPT ![i] = @ + 1]
  /\ UNCHANGED <<today, reset_day, edited, boot, counted, upheavals, row>>

(* It reboots; an interface is made anew; one joins or leaves those that    *)
(* count.                                                                   *)
Upheaval ==
  /\ upheavals < MaxUpheavals
  /\ upheavals' = upheavals + 1
  /\ \/ /\ boot' = boot + 1
        /\ count' = [i \in Ifaces |-> 0]
        /\ UNCHANGED counted
     \/ /\ \E i \in Ifaces : count' = [count EXCEPT ![i] = 0]
        /\ UNCHANGED <<boot, counted>>
     \/ /\ \E i \in Ifaces : counted' = SymDiff(counted, {i})
        /\ UNCHANGED <<boot, count>>
  /\ UNCHANGED <<today, reset_day, edited, bytes, row>>

-----------------------------------------------------------------------------
(* The calendar.                                                            *)

NewDay ==
  /\ today < MaxDay
  /\ today' = today + 1
  /\ UNCHANGED <<reset_day, edited, machine, row>>

SetResetDay ==
  /\ reset_day' \in ResetDays \ {reset_day}
  /\ edited' = TRUE
  /\ UNCHANGED <<today, machine, row>>

(* The reset day in month m; the last day of a shorter month.               *)
ResetIn(m, reset) ==
  LastOf[m - 1] + (IF reset < MonthLengths[m] THEN reset ELSE MonthLengths[m])

(* The start of the billing period a day is in.                             *)
period_start(d, reset) ==
  LET m == MonthOf(d) IN IF d >= ResetIn(m, reset) THEN ResetIn(m, reset) ELSE ResetIn(m - 1, reset)

Period == period_start(today, reset_day)

-----------------------------------------------------------------------------
(* The Hub.                                                                 *)

SaturatingAdd(a, b) == IF a + b > MAX THEN MAX ELSE a + b

(* Mutant: the first report of a day only sets the baseline.                *)
DeltaWithinDay(epoch, reading) ==
  IF row.boot_id = epoch /\ row.day_start = today /\ reading > row.last
  THEN reading - row.last ELSE 0

(* What a reading adds: nothing under another boot than the row's, and      *)
(* nothing when it shrank.                                                  *)
Delta(epoch, reading) ==
  IF row.boot_id = epoch /\ reading > row.last THEN reading - row.last ELSE 0

(* A figure of a period: it restarts with the period.                       *)
Folded(figure, start, current, delta) ==
  IF start = current THEN SaturatingAdd(figure, delta) ELSE delta

Booked(ledger, delta) == [ledger EXCEPT ![today] = @ + delta]

(* Mutant: a missing reading counts as zero.                                *)
ReportZero ==
  /\ row' = [row EXCEPT !.boot_id = Epoch, !.last = 0, !.at = bytes, !.upheavals = upheavals]
  /\ UNCHANGED <<today, reset_day, edited, machine>>

(* A report with no reading that fits i64: the row stays as it is.          *)
ReportUnread ==
  /\ UNCHANGED traffic_vars

(* A report with a reading: accumulate_on.                                  *)
Report ==
  LET delta == Delta(Epoch, Reading) IN
  /\ Reading <= MAX
  /\ row' = [boot_id |-> Epoch, last |-> Reading,
             total |-> SaturatingAdd(row.total, delta),
             month |-> Folded(row.month, row.month_start, Period, delta), month_start |-> Period,
             day |-> Folded(row.day, row.day_start, today, delta), day_start |-> today,
             at |-> bytes, upheavals |-> upheavals,
             daily |-> Booked(row.daily, delta), monthly |-> Booked(row.monthly, delta)]
  /\ UNCHANGED <<today, reset_day, edited, machine>>

(* Mutant: the corrected month keeps the period the row has.                *)
set_traffic_unstamped ==
  /\ \E m \in Corrections :
       row' = [row EXCEPT !.month = m, !.monthly = [[d \in Days |-> 0] EXCEPT ![today] = m]]
  /\ UNCHANGED <<today, reset_day, edited, machine>>

(* The panel gives the total or the month a value, and the month is stamped *)
(* with the current period.                                                 *)
set_traffic ==
  /\ \/ \E t \in Corrections :
          row' = [row EXCEPT !.total = t, !.month = IF row.month_start = Period THEN @ ELSE 0,
                             !.month_start = Period]
     \/ \E m \in Corrections :
          row' = [row EXCEPT !.month = m, !.month_start = Period,
                             !.monthly = [[d \in Days |-> 0] EXCEPT ![today] = m]]
  /\ UNCHANGED <<today, reset_day, edited, machine>>

(* all_traffic: a figure of a period that has passed reads as zero.         *)
Shown(figure, start, current) == IF start = current THEN figure ELSE 0

TrafficNext ==
  \/ \E i \in Ifaces : Cross(i)
  \/ Upheaval
  \/ NewDay \/ SetResetDay
  \/ ReportUnread \/ Report \/ set_traffic

TrafficSpec == TrafficInit /\ [][TrafficNext]_traffic_vars
-----------------------------------------------------------------------------
(* Properties.                                                              *)

(* Only bytes the Hub saw a counter climb through are booked, and none      *)
(* twice: whatever reboots, interfaces that come, go or start over, missing *)
(* readings and lost reports lie between two reports, the second adds at    *)
(* most what crossed the interfaces since the one in the row, a first one   *)
(* nothing, and none takes away (accumulate_on, epoch).                     *)
BooksOnlyWhatCrossed ==
  [][Report => /\ row'.total >= row.total
               /\ row'.total - row.total <= IF row.boot_id = NoEpoch THEN 0 ELSE bytes - row.at]_traffic_vars

(* Every byte is booked that can be: while the machine stays as it is and   *)
(* all its interfaces count, a report adds all that crossed them since the  *)
(* report in the row, however many reports were lost or had no reading      *)
(* meanwhile, until the figure is full (accumulate_on).                     *)
BooksAllThatCrossed ==
  [][Report /\ row.boot_id # NoEpoch /\ row.upheavals = upheavals /\ counted = Ifaces =>
       row'.total = SaturatingAdd(row.total, bytes - row.at)]_traffic_vars

(* What was booked to a ledger in a range of days, as far as a figure goes. *)
Ledger(ledger, from) ==
  SaturatingAdd(0, SumFunctionOnSet(ledger, {d \in Days : from <= d /\ d <= today}))

(* The month and the day on the panel are those of the calendar: the month  *)
(* shows what was booked since its period began, after the last correction, *)
(* the day what was booked today, across month ends shorter than the reset  *)
(* day, and days without reports.  An edit of the reset day may             *)
(* only make the month show less (accumulate_on, set_traffic, all_traffic). *)
FiguresMatchCalendar ==
  LET month == Shown(row.month, row.month_start, Period)
      due == Ledger(row.monthly, Period)
  IN  /\ month <= due /\ (~edited => month = due)
      /\ Shown(row.day, row.day_start, today) = Ledger(row.daily, today)
=============================================================================
