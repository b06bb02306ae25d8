------------------------------- MODULE Samples -------------------------------
(***************************************************************************)
(* What the polling modules make of the files of the kernel: the times of  *)
(* the CPUs, the amounts of memory, the path of a sensor.                  *)
(*                                                                         *)
(* A line is a record of its parts, a time a record of what is busy and    *)
(* what is idle; numbers do not overflow.                                  *)
(***************************************************************************)
EXTENDS Lists

Failed == [ok |-> FALSE]

-----------------------------------------------------------------------------
(* CPU: /proc/stat begins with the total (cpu 0 here) and a line for every
   CPU that is online, numbered from 1 as in the code. *)
Time(busy, idle) == [busy |-> busy, idle |-> idle]
Times == [busy : Nat, idle : Nat]
NoTime == Time(0, 0)

(* getCPUTime: the lines up to the first that is not of a CPU. *)
CpuTimes(lines) ==
    LET end == First({i \in DOMAIN lines : lines[i].key # "cpu"})
        cpus == IF end = 0 THEN lines ELSE SubSeq(lines, 1, end - 1)
    IN  IF Len(cpus) < 2 \/ \E i \in DOMAIN cpus : cpus[i].n # i - 1 THEN Failed
        ELSE [ok |-> TRUE, total |-> cpus[1].time, each |-> [i \in 1 .. Len(cpus) - 1 |-> cpus[i + 1].time]]

Add(t, o) == Time(t.busy + o.busy, t.idle + o.idle)
Sum(each) == Fold([p \in Times \X Times |-> Add(p[1], p[2])], NoTime, each)

(* Mutant: a CPU without a group is counted in the first. *)
GroupedWithRest(each, group, g) ==
    Sum([i \in 1 .. Len(each) |->
        IF (i <= Len(group) /\ group[i] = g) \/ (i > Len(group) /\ g = 1) THEN each[i] ELSE NoTime])

(* The sum of a group; a CPU of group 0, or beyond the list, is in none. *)
Grouped(each, group, g) ==
    Sum([i \in 1 .. Len(each) |-> IF i <= Len(group) /\ group[i] = g THEN each[i] ELSE NoTime])

(* Usage: a fraction, 0/0 when no time has passed. *)
Usage(t, p) ==
    LET all == (t.busy + t.idle) - (p.busy + p.idle)
    IN  [n |-> all - (t.idle - p.idle), d |-> all]

-----------------------------------------------------------------------------
(* Memory: /proc/meminfo.  A line whose number does not parse leaves what was
   there before, times 1024 if it has the unit. *)
Amounts == {"MemTotal", "MemFree", "Buffers", "Cached"}
NoNumber == -1

Lines == [key : STRING, val : Nat \cup {NoNumber}, kB : BOOLEAN]

WithLine(info, l) ==
    IF l.key \notin Amounts THEN info
    ELSE LET n == IF l.val = NoNumber THEN info[l.key] ELSE l.val
         IN  [info EXCEPT ![l.key] = IF l.kB THEN n * 1024 ELSE n]

MemInfo(lines) ==
    Fold([p \in [Amounts -> Nat] \X Lines |-> WithLine(p[1], p[2])], [k \in Amounts |-> 0], lines)

Used(info) == info["MemTotal"] - info["MemFree"] - info["Buffers"] - info["Cached"]
Low(info, threshold) == Used(info) + threshold >= info["MemTotal"]

-----------------------------------------------------------------------------
(* Temperature: the first input, of the first directory of the chip that has
   one, that is called or labelled like the sensor; any if none is asked for.
   The result is a directory and an input, 0 for none. *)
Matches(input, sensor) == sensor = "" \/ sensor \in {input.name, input.label}

FindSensor(dirs, chip, sensor) ==
    LET input(d) == First({i \in DOMAIN d.inputs : d.chip = chip /\ Matches(d.inputs[i], sensor)})
        dir == First({i \in DOMAIN dirs : input(dirs[i]) # 0})
    IN  <<dir, IF dir = 0 THEN 0 ELSE input(dirs[dir])>>

-----------------------------------------------------------------------------
(* Two samples of CPUs whose counters only grow: a usage is between 0 and 1,
   the groups and the CPUs that are beyond the list have the usage of the total
   between them, so that no CPU counts twice. *)
Proper(u) == 0 <= u.n /\ u.n <= u.d

Beyond(each, group) == Sum([i \in 1 .. Len(each) |-> IF i <= Len(group) THEN NoTime ELSE each[i]])

UsageIsProper(before, after, group) ==
    LET of(g) == Usage(Grouped(after, group, g), Grouped(before, group, g))
    IN  /\ \A i \in DOMAIN after : Proper(Usage(after[i], before[i]))
        /\ Proper(of(1)) /\ Proper(of(2)) /\ Proper(Usage(Sum(after), Sum(before)))
        /\ of(0).n + of(1).n + of(2).n + Usage(Beyond(after, group), Beyond(before, group)).n
           = Usage(Sum(after), Sum(before)).n

(* External: the lines of a kernel whose CPUs with these numbers are online. *)
CpuLine(n, time) == [key |-> "cpu", n |-> n, time |-> time]
StatOf(cpus, total, each) ==
    [i \in 1 .. Len(cpus) + 2 |->
        IF i = 1 THEN CpuLine(0, total)
        ELSE IF i <= Len(cpus) + 1 THEN CpuLine(cpus[i - 1], each[i - 1])
        ELSE [key |-> "intr", n |-> 0, time |-> NoTime]]

(* A machine with every CPU online is understood, each with its time; with one
   offline that is not the last, it is not. *)
CpusAreRead(cpus, total, each) ==
    LET online == {cpus[i] : i \in DOMAIN cpus}
        times == CpuTimes(StatOf(cpus, total, each))
    IN  /\ times.ok <=> (online # {} /\ \A n \in online : n = 1 \/ n - 1 \in online)
        /\ times.ok => times.total = total /\ times.each = each

(* The order of the lines, and lines that nobody asked about, do not count. *)
Orders(lines) ==
    {p \in [DOMAIN lines -> DOMAIN lines] : \A n \in DOMAIN lines : \E i \in DOMAIN lines : p[i] = n}

OrderIsFree(lines, extra) ==
    /\ \A p \in Orders(lines) : MemInfo([i \in 1 .. Len(lines) |-> lines[p[i]]]) = MemInfo(lines)
    /\ MemInfo(<<extra>> \o lines) = MemInfo(lines)
    /\ MemInfo(Append(lines, extra)) = MemInfo(lines)

(* A sensor is found when there is one, and it is of the chip. *)
SensorIsFound(dirs, chip, sensor) ==
    LET f == FindSensor(dirs, chip, sensor)
        is(d, i) == d.chip = chip /\ Matches(d.inputs[i], sensor)
    IN  IF f[1] = 0 THEN \A n \in DOMAIN dirs : \A i \in DOMAIN dirs[n].inputs : ~is(dirs[n], i)
        ELSE f[1] \in DOMAIN dirs /\ f[2] \in DOMAIN dirs[f[1]].inputs /\ is(dirs[f[1]], f[2])
=============================================================================
