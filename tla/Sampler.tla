--------------------------------- MODULE Sampler -------------------------------
(***************************************************************************)
(* metrics_collect as the collect loop calls it (src/metrics.c): gauges    *)
(* that must be there, then the CPU shares and the network and swap rates, *)
(* each from the difference between two readings of cumulative counters.   *)
(* The earlier readings are statics and the metrics_t is run_serve's, so   *)
(* both outlive the cycle; the kernel moves its counters between any two   *)
(* reads.                                                                  *)
(*                                                                         *)
(* The gauges (load, memory, disk, uptime, temperature) carry no state     *)
(* from one cycle to the next; of them only whether there is swap matters  *)
(* here.  A rate is kept as the bytes and the time it is the quotient of,  *)
(* a CPU percentage as the ticks and the total.                            *)
(***************************************************************************)
EXTENDS Integers, FiniteSetsExt

CONSTANTS
    Ifaces,     \* the network interfaces but the loopback
    Modulus,    \* the CPU counters are unsigned: 2^64
    CpuStart,   \* values the CPU counters may start at
    MaxEvents,  \* bound: times the kernel moves one of its counters
    MaxTime     \* bound on the monotonic clock

ASSUME SamplerAssumption ==
    /\ IsFiniteSet(Ifaces)
    /\ Modulus \in Nat \ {0}
    /\ CpuStart \subseteq 0..(Modulus - 1)
    /\ MaxEvents \in Nat /\ MaxTime \in Nat

(* The counters of /proc/stat, in the three groups collect_cpu adds up. *)
Classes == {"user", "system", "idle"}

Ways == {"in", "out"}

VARIABLES
    mono,       \* CLOCK_MONOTONIC
    cpu,        \* /proc/stat
    net,        \* /proc/net/dev
    swap,       \* /proc/vmstat
    swapon,     \* whether SwapTotal is positive
    events,     \* times the kernel has moved a counter
    mpc,        \* where metrics_collect is
    m,          \* the metrics_t
    prev_cpu,   \* s_prev_cpu, with s_prev_cpu_valid
    prev_net,   \* s_prev_net
    prev_swap,  \* s_prev_swap_io
    fresh,      \* ghost: what of m this cycle has worked out
    fallen,     \* ghost: whether the iowait counter ever fell
    moved,      \* ghost: bytes transferred since the first reading
    told        \* ghost: bytes the stored rates account for

svars == <<mono, cpu, net, swap, swapon, events, mpc, m, prev_cpu, prev_net,
           prev_swap, fresh, fallen, moved, told>>

kernel == <<mono, cpu, net, swap, swapon, events>>
ghosts == <<fallen, moved, told>>

None == [valid |-> 0]

SampleInit ==
    /\ mono = 0
    /\ cpu \in [Classes -> CpuStart]
    /\ net = [f \in Ifaces |-> [w \in Ways |-> 0]]
    /\ swap = [w \in Ways |-> 0]
    /\ swapon \in {0, 1}
    /\ events = 0
    /\ mpc = "sleep"
    /\ m = [cpu |-> None, net |-> None, swap_io |-> None, swap |-> 0]
    /\ prev_cpu = None /\ prev_net = None /\ prev_swap = None
    /\ fresh = {}
    /\ fallen = 0
    /\ moved = [w \in Ways |-> 0]
    /\ told = [w \in Ways |-> 0]
--------------------------------------------------------------------------------
(* The kernel *)

Time ==
    /\ mono < MaxTime
    /\ mono' = mono + 1
    /\ UNCHANGED <<cpu, net, swap, swapon, events, mpc, m, prev_cpu, prev_net,
                   prev_swap, fresh, ghosts>>

CpuTick(c) ==
    /\ events < MaxEvents
    /\ events' = events + 1
    /\ cpu' = [cpu EXCEPT ![c] = (@ + 1) % Modulus]
    /\ UNCHANGED <<mono, net, swap, swapon, mpc, m, prev_cpu, prev_net,
                   prev_swap, fresh, ghosts>>

(* The kernel may lower its iowait counter; here by more than idle grew.   *)
IowaitFalls ==
    /\ events < MaxEvents
    /\ events' = events + 1
    /\ cpu' = [cpu EXCEPT !["idle"] = (@ - 1) % Modulus]
    /\ fallen' = 1
    /\ UNCHANGED <<mono, net, swap, swapon, mpc, m, prev_cpu, prev_net,
                   prev_swap, fresh, moved, told>>

Transfer(f, w) ==
    /\ events < MaxEvents
    /\ events' = events + 1
    /\ net' = [net EXCEPT ![f][w] = @ + 1]
    /\ moved' = [moved EXCEPT ![w] = @ + prev_net.valid]
    /\ UNCHANGED <<mono, cpu, swap, swapon, mpc, m, prev_cpu, prev_net,
                   prev_swap, fresh, fallen, told>>

(* An interface goes, or comes back with its counters at zero. *)
Reset(f) ==
    /\ events < MaxEvents
    /\ \E w \in Ways : net[f][w] > 0
    /\ events' = events + 1
    /\ net' = [net EXCEPT ![f] = [w \in Ways |-> 0]]
    /\ UNCHANGED <<mono, cpu, swap, swapon, mpc, m, prev_cpu, prev_net,
                   prev_swap, fresh, ghosts>>

Page(w) ==
    /\ swapon = 1 /\ events < MaxEvents
    /\ events' = events + 1
    /\ swap' = [swap EXCEPT ![w] = @ + 1]
    /\ UNCHANGED <<mono, cpu, net, swapon, mpc, m, prev_cpu, prev_net,
                   prev_swap, fresh, ghosts>>

(* swapon(8), swapoff(8) *)
Swapon ==
    /\ events < MaxEvents
    /\ events' = events + 1
    /\ swapon' = 1 - swapon
    /\ UNCHANGED <<mono, cpu, net, swap, mpc, m, prev_cpu, prev_net,
                   prev_swap, fresh, ghosts>>

Kernel ==
    \/ Time \/ \E c \in Classes : CpuTick(c)
    \/ IowaitFalls \/ \E f \in Ifaces, w \in Ways : Transfer(f, w)
    \/ \E f \in Ifaces : Reset(f)
    \/ \E w \in Ways : Page(w)
    \/ Swapon
--------------------------------------------------------------------------------
(* metrics_collect *)

Part(from, to) == mpc = from /\ mpc' = to

(* collect_load, collect_meminfo, collect_disk and collect_uptime.  *)
Gauges ==
    /\ Part("sleep", "cpu")
    /\ m' = [m EXCEPT !.swap = swapon]
    /\ fresh' = {}
    /\ UNCHANGED <<kernel, prev_cpu, prev_net, prev_swap, ghosts>>

(* One of them failed, before or after the swap was read: no sample. *)
GaugesFail ==
    /\ mpc = "sleep"
    /\ m' = [m EXCEPT !.swap = swapon]
    /\ UNCHANGED <<kernel, mpc, prev_cpu, prev_net, prev_swap, fresh, ghosts>>

(* Mutant: the differences are taken as signed. *)
CpuDelta_Signed == [c \in Classes |-> cpu[c] - prev_cpu.at[c]]

(* The differences, as unsigned as the counters. *)
CpuDelta == [c \in Classes |-> (cpu[c] - prev_cpu.at[c]) % Modulus]

(* collect_cpu *)
CollectCpu ==
    /\ Part("cpu", "net")
    /\ prev_cpu' = [valid |-> 1, at |-> cpu]
    /\ LET d == CpuDelta
           total == (d["user"] + d["system"] + d["idle"]) % Modulus
       IN  IF prev_cpu.valid = 0 \/ total = 0
           THEN /\ m' = [m EXCEPT !.cpu.valid = 0]
                /\ UNCHANGED fresh
           ELSE /\ m' = [m EXCEPT !.cpu = [valid |-> 1, part |-> d, total |-> total]]
                /\ fresh' = fresh \cup {"cpu"}
    /\ UNCHANGED <<kernel, prev_net, prev_swap, ghosts>>

CpuUnreadable ==
    /\ Part("cpu", "net")
    /\ m' = [m EXCEPT !.cpu.valid = 0]
    /\ UNCHANGED <<kernel, prev_cpu, prev_net, prev_swap, fresh, ghosts>>

(* counter_rates: none when no time has passed, or a counter went back. *)
NoRates(prev, cur) ==
    \/ cur.t <= prev.t
    \/ \E w \in Ways : cur.at[w] < prev.at[w]

Rates(prev, cur) ==
    [valid |-> 1, bytes |-> [w \in Ways |-> cur.at[w] - prev.at[w]],
     dt |-> cur.t - prev.t]

(* read_net_raw: the sums over the interfaces. *)
ReadNet ==
    [valid |-> 1, t |-> mono,
     at |-> [w \in Ways |-> MapThenSumSet(LAMBDA f : net[f][w], Ifaces)]]

(* Mutant: the reading is not kept after a gap. *)
CollectNet_KeepsFirst ==
    /\ Part("net", "swap_io")
    /\ prev_net' = IF prev_net.valid = 0 THEN ReadNet ELSE prev_net
    /\ IF prev_net.valid = 0 \/ NoRates(prev_net, ReadNet)
       THEN /\ m' = [m EXCEPT !.net.valid = 0]
            /\ UNCHANGED fresh
       ELSE /\ m' = [m EXCEPT !.net = Rates(prev_net, ReadNet)]
            /\ fresh' = fresh \cup {"net"}
    /\ UNCHANGED <<kernel, prev_cpu, prev_swap, ghosts>>

(* collect_net *)
CollectNet ==
    /\ Part("net", "swap_io")
    /\ prev_net' = ReadNet
    /\ IF prev_net.valid = 0 \/ NoRates(prev_net, ReadNet)
       THEN /\ m' = [m EXCEPT !.net.valid = 0]
            /\ UNCHANGED fresh
       ELSE /\ m' = [m EXCEPT !.net = Rates(prev_net, ReadNet)]
            /\ fresh' = fresh \cup {"net"}
    /\ UNCHANGED <<kernel, prev_cpu, prev_swap, ghosts>>

(* Mutant: the flag is left as it was. *)
NetUnreadable_KeepsFlag ==
    /\ Part("net", "swap_io")
    /\ UNCHANGED <<kernel, m, prev_cpu, prev_net, prev_swap, fresh, ghosts>>

(* The file could not be read: a gap, and the next rate spans it. *)
NetUnreadable ==
    /\ Part("net", "swap_io")
    /\ m' = [m EXCEPT !.net.valid = 0]
    /\ UNCHANGED <<kernel, prev_cpu, prev_net, prev_swap, fresh, ghosts>>

ReadSwap == [valid |-> 1, t |-> mono, at |-> swap]

(* sample_swap_io: the reading counts from now on, swap or no swap. *)
CollectSwapIo ==
    /\ Part("swap_io", "store")
    /\ prev_swap' = ReadSwap
    /\ IF prev_swap.valid = 0 \/ m.swap = 0 \/ NoRates(prev_swap, ReadSwap)
       THEN /\ m' = [m EXCEPT !.swap_io.valid = 0]
            /\ UNCHANGED fresh
       ELSE /\ m' = [m EXCEPT !.swap_io = Rates(prev_swap, ReadSwap)]
            /\ fresh' = fresh \cup {"swap_io"}
    /\ UNCHANGED <<kernel, prev_cpu, prev_net, ghosts>>

(* Unlike the network's, an unreadable sample is not bridged. *)
SwapIoUnreadable ==
    /\ Part("swap_io", "store")
    /\ m' = [m EXCEPT !.swap_io.valid = 0]
    /\ prev_swap' = [prev_swap EXCEPT !.valid = 0]
    /\ UNCHANGED <<kernel, prev_cpu, prev_net, fresh, ghosts>>

(* db_insert binds the valid fields, and NULL for the others. *)
Store ==
    /\ Part("store", "sleep")
    /\ told' = IF m.net.valid = 1
               THEN [w \in Ways |-> told[w] + m.net.bytes[w]] ELSE told
    /\ UNCHANGED <<kernel, m, prev_cpu, prev_net, prev_swap, fresh, fallen, moved>>

Collector ==
    \/ Gauges \/ GaugesFail \/ CollectCpu \/ CpuUnreadable
    \/ CollectNet \/ NetUnreadable \/ CollectSwapIo \/ SwapIoUnreadable \/ Store

SampleNext == Kernel \/ Collector

SampleSpec == SampleInit /\ [][SampleNext]_svars
--------------------------------------------------------------------------------
(* Properties *)

(* No byte is told of twice: whatever was unreadable, reset or skipped,    *)
(* the rates stored account for no more than was transferred since the     *)
(* first reading.                                                          *)
NoByteTwice == \A w \in Ways : told[w] <= moved[w]

(* The metrics_t is the last cycle's when a cycle starts: nothing of an    *)
(* earlier cycle is stored as valid.                                       *)
StaleNeverStored ==
    mpc = "store" => \A part \in {"cpu", "net", "swap_io"} :
                       m[part].valid = 1 => part \in fresh

(* The three shares are shares: none is more than the whole, and they make *)
(* it up, wherever the unsigned counters stand, as long as none fell.      *)
CpuShares ==
    mpc = "store" /\ m.cpu.valid = 1 /\ fallen = 0 =>
       LET p == m.cpu.part
       IN  /\ \A c \in Classes : p[c] <= m.cpu.total
           /\ p["user"] + p["system"] + p["idle"] = m.cpu.total
================================================================================
