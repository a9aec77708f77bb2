-------------------------- MODULE ValkeyNodeProofs --------------------------
(* Proofs about ValkeyNode, for any buffer, line and token sizes and any      *)
(* replies: the SLOT.STATS loop stays in its buffer and the gate guards.      *)
EXTENDS ValkeyNode, WellFoundedInduction, TLAPS

USE SizesAssumption

\* The node's own slot tokens, and the ones the loop still has to copy, are
\* tokens, and the node answers as Valkey does: what the proofs need to know of
\* the data.
TokensOK ==
    /\ Plausible(node)
    /\ \A i \in DOMAIN node.nodes : node.nodes[i].slots \in Seq(Tokens)
    /\ rest \in Seq(Tokens)

\* The position at which OnLoad returns.
LEMMA LastPosValue == LastPos = 11
BY DEF LastPos, COMMANDS

LEMMA SawType == \A n : Saw(n) \in 0 .. 1
BY DEF Saw

\* Whatever the sizes, a token of at least one byte leaves buf[written] in buf.
LEMMA CopiedFits ==
    ASSUME written \in 0 .. SLOTS_BUF_SIZE - 1, NEW len \in Nat
    PROVE  written + Separator + Copied(len) \in 0 .. SLOTS_BUF_SIZE - 1
<1>1. Separator \in 0 .. 1 /\ written + Separator \in 0 .. SLOTS_BUF_SIZE - 1
  BY DEF Separator
<1>2. CASE written + Separator + len >= SLOTS_BUF_SIZE
  BY <1>1, <1>2 DEF Copied
<1>3. CASE ~(written + Separator + len >= SLOTS_BUF_SIZE)
  BY <1>1, <1>3 DEF Copied
<1> QED
  BY <1>2, <1>3

\* A line that has a "myself" line has it among its lines.
LEMMA MyLineTokens ==
    ASSUME TokensOK, MyLines(node) # {}
    PROVE  MyLine(node).slots \in Seq(Tokens)
<1> DEFINE i == CHOOSE i \in MyLines(node) : TRUE
<1>1. i \in MyLines(node)
  OBVIOUS
<1>2. i \in DOMAIN node.nodes
  BY <1>1 DEF MyLines
<1> QED
  BY <1>2 DEF MyLine, TokensOK

\* Every step keeps the tokens.
LEMMA TokensStep == TokensOK /\ [Next]_vars => TokensOK'
<1> SUFFICES ASSUME TokensOK, [Next]_vars PROVE TokensOK'
  OBVIOUS
<1>0. ASSUME NEW r, Plausible(r), node'.info = r.info, node'.cluster = r.cluster,
             node'.nodes = r.nodes
      PROVE  Plausible(node)'
  BY <1>0 DEF Plausible, ClusterState
<1>1. node' = node /\ rest' = rest => TokensOK'
  BY DEF TokensOK, Plausible, ClusterState
<1>2. ASSUME node'.info = node.info, node'.cluster = node.cluster,
             node'.nodes = node.nodes, rest' = rest
      PROVE  TokensOK'
  BY <1>0, <1>2 DEF TokensOK
<1>3. CASE Start
  BY <1>3, <1>2 DEF Start, scanVars
<1>4. CASE Loaded
  BY <1>4, <1>2 DEF Loaded, scanVars
<1>5. CASE ScanSlots
  <2>1. rest' = MyLine(node).slots /\ MyLines(node) # {} /\ node' = node
    BY <1>5 DEF ScanSlots
  <2> QED
    BY <1>0, <2>1, MyLineTokens DEF TokensOK
<1>6. CASE CopyToken
  <2>1. rest # << >> /\ rest' = Tail(rest) /\ node' = node
    BY <1>6 DEF CopyToken
  <2> QED
    BY <1>0, <2>1 DEF TokensOK
<1>7. CASE ClusterChanges
  <2>1. PICK r \in Replies : Says(r, node.acl, node.failed)
    BY <1>7 DEF ClusterChanges
  <2>2. /\ node'.info = r.info /\ node'.cluster = r.cluster /\ node'.nodes = r.nodes
        /\ rest' = rest
    BY <2>1 DEF Says, scanVars
  <2>3. Plausible(node)'
    BY <1>0, <2>2, RepliesAssumption
  <2> QED
    BY <2>2, <2>3 DEF TokensOK
<1>8. CASE UsersChange \/ CallsFail
  BY <1>8, <1>2 DEF UsersChange, CallsFail, Says, scanVars
<1>9. CASE HotReload \/ ModuleInit \/ GateInit \/ FailoverInit \/ CreateCommand \/ LoadFails
  BY <1>9, <1>1 DEF HotReload, ModuleInit, GateInit, FailoverInit, CreateCommand,
                    LoadFails, Advance, scanVars
<1>10. CASE AclPollTimer \/ EndScan \/ Stop
  BY <1>10, <1>1 DEF AclPollTimer, EndScan, Stop, scanVars
<1>11. CASE UNCHANGED vars
  BY <1>11, <1>1 DEF vars, scanVars
<1> QED
  BY <1>3, <1>4, <1>5, <1>6, <1>7, <1>8, <1>9, <1>10, <1>11 DEF Next

-----------------------------------------------------------------------------
LEMMA InitType == Init => TypeOK /\ TokensOK
<1> SUFFICES ASSUME Init PROVE TypeOK /\ TokensOK
  OBVIOUS
<1>1. TypeOK
  BY LastPosValue DEF Init, TypeOK
<1>2. rest \in Seq(Tokens)
  BY DEF Init
<1>3. PICK r \in Replies : node.info = r.info /\ node.cluster = r.cluster /\ node.nodes = r.nodes
  BY DEF Init
<1>4. Plausible(node)
  BY <1>3, RepliesAssumption DEF Plausible, ClusterState
<1> QED
  BY <1>1, <1>2, <1>3, <1>4 DEF TokensOK

\* The type invariant with the bound on the buffer is kept by every step.
LEMMA TypeStep == TypeOK /\ TokensOK /\ [Next]_vars => TypeOK'
<1> SUFFICES ASSUME TypeOK, TokensOK, [Next]_vars PROVE TypeOK'
  OBVIOUS
<1> USE LastPosValue, SawType DEF TypeOK, scanVars
<1>1. CASE Start \/ HotReload
  <2>1. /\ server' = "loading" /\ boot' \in 0 .. 1 /\ pos' = 0 /\ timer' = 0
        /\ seen' \in 0 .. 1 /\ flag' \in {0, flag}
        /\ UNCHANGED <<busy, rest, col, written, out>>
    BY <1>1 DEF Start, HotReload
  <2> QED
    BY <2>1
<1>2. CASE ModuleInit \/ FailoverInit \/ CreateCommand
  <2>1. /\ pos < LastPos /\ pos' = pos + 1 /\ UNCHANGED <<flag, timer>>
        /\ UNCHANGED <<server, boot, node, seen, busy, rest, col, written, out>>
    BY <1>2 DEF ModuleInit, FailoverInit, CreateCommand, Advance
  <2> QED
    BY <2>1
<1>3. CASE GateInit
  <2>1. Saw(node) \in 0 .. 1
    OBVIOUS
  <2> QED
    BY <1>3, <2>1 DEF GateInit, Advance
<1>4. CASE LoadFails \/ Loaded
  BY <1>4 DEF LoadFails, Loaded
<1>5. CASE AclPollTimer
  <2>1. Saw(node) \in 0 .. 1
    OBVIOUS
  <2> QED
    BY <1>5, <2>1 DEF AclPollTimer
<1>6. CASE ScanSlots
  BY <1>6 DEF ScanSlots
<1>7. CASE CopyToken
  <2> DEFINE t == Head(rest)
  <2>1. rest # << >> /\ rest \in Seq(Tokens)
    BY <1>7 DEF CopyToken, TokensOK
  <2>2. t \in Tokens
    BY <2>1
  <2>3. t.len \in Nat \ {0}
    BY <2>2
  <2>4. Visible(t) \in Nat
    BY <2>3 DEF Visible, AtLeastZero
  <2>5. written + Separator + Copied(Visible(t)) \in 0 .. SLOTS_BUF_SIZE - 1
    BY <2>4, CopiedFits
  <2>6. /\ written' = written \/ written' = written + Separator + Copied(Visible(t))
        /\ col' = col + t.len + 1
        /\ UNCHANGED <<server, boot, pos, node, flag, timer, seen, busy>>
    BY <1>7 DEF CopyToken
  <2> QED
    BY <2>3, <2>5, <2>6
<1>8. CASE EndScan
  BY <1>8 DEF EndScan
<1>9. CASE ClusterChanges \/ UsersChange \/ CallsFail
  BY SMTT(30), <1>9 DEF ClusterChanges, UsersChange, CallsFail, Says
<1>10. CASE Stop
  BY <1>10 DEF Stop
<1>11. CASE UNCHANGED vars
  BY <1>11 DEF vars
<1> QED
  BY <1>1, <1>2, <1>3, <1>4, <1>5, <1>6, <1>7, <1>8, <1>9, <1>10, <1>11 DEF Next

\* For every buffer size, line size and list of slot tokens, the loop of
\* extract_myself_slots never writes past its buffer.
THEOREM BufferBound == Spec => []TypeOK
<1>1. TypeOK /\ TokensOK /\ [Next]_vars => (TypeOK /\ TokensOK)'
  BY TypeStep, TokensStep
<1> QED
  BY InitType, <1>1, PTL DEF Spec

-----------------------------------------------------------------------------
\* From Gate_Init on an open gate means that a user was seen; while the module is
\* loading or loaded, a user that is active now was seen; and the timer is armed
\* for as long as the flag is set.
GateInv ==
    /\ server = "up" \/ (server = "loading" /\ pos >= 2) =>
          (flag = 0 => seen = 1) /\ (flag = 1 => timer = 1)
    /\ server \in {"up", "loading"} /\ AppUserActive(node) => seen = 1

\* ACL LIST says the same of two nodes with the same users and failing calls.
LEMMA SawOne == \A n : (Saw(n) = 1 <=> AppUserActive(n)) /\ (Saw(n) = 0 <=> ~AppUserActive(n))
BY DEF Saw

\* Every step keeps GateInv.
LEMMA GateStep == TypeOK /\ GateInv /\ [Next]_vars => GateInv'
<1> SUFFICES ASSUME TypeOK, GateInv, [Next]_vars PROVE GateInv'
  OBVIOUS
<1>0. AppUserActive(node)' <=> AppUserActive(node')
  BY DEF AppUserActive, Works
<1>1. CASE Start
  <2>1. node'.acl = {<<"default", "on">>}
    BY <1>1 DEF Start
  <2>2. ~AppUserActive(node')
    BY <2>1 DEF AppUserActive
  <2>3. server' = "loading" /\ pos' = 0
    BY <1>1 DEF Start
  <2> QED
    BY <1>0, <2>2, <2>3 DEF GateInv
<1>2. CASE HotReload
  <2>1. server' = "loading" /\ pos' = 0 /\ seen' = Saw(node) /\ node' = node
    BY <1>2 DEF HotReload
  <2> QED
    BY <1>0, <2>1, SawOne DEF GateInv
<1>3. CASE ModuleInit
  <2>1. server = "loading" /\ pos = 0 /\ pos' = 1 /\ UNCHANGED <<server, node, seen>>
    BY <1>3 DEF ModuleInit, Advance
  <2> QED
    BY <1>0, <2>1 DEF GateInv
<1>4. CASE GateInit
  <2>1. /\ server = "loading" /\ UNCHANGED <<server, node, seen>>
        /\ flag' = 1 - Saw(node) /\ timer' = 1 - Saw(node)
    BY <1>4 DEF GateInit, Advance
  <2>2. Saw(node) \in 0 .. 1 /\ (Saw(node) = 1 <=> AppUserActive(node))
    BY SawType, SawOne
  <2> QED
    BY <1>0, <2>1, <2>2 DEF GateInv
<1>5. CASE FailoverInit \/ CreateCommand
  <2>1. server = "loading" /\ pos >= 2 /\ UNCHANGED <<server, node, seen, flag, timer>>
    BY <1>5 DEF FailoverInit, CreateCommand, Advance
  <2> QED
    BY <1>0, <2>1 DEF GateInv
<1>6. CASE LoadFails
  BY <1>6 DEF LoadFails, GateInv
<1>7. CASE Loaded
  <2>1. server = "loading" /\ pos = 11 /\ UNCHANGED <<flag, timer>>
    BY <1>7, LastPosValue DEF Loaded
  <2>2. seen' = IF Saw(node') = 1 THEN 1 ELSE seen
    BY <1>7 DEF Loaded
  <2> QED
    BY <1>0, <2>1, <2>2, SawOne DEF GateInv
<1>8. CASE AclPollTimer
  <2>1. /\ server = "up" /\ UNCHANGED <<server, node, seen>>
        /\ timer' = 1 - Saw(node)
        /\ flag' = IF AppUserActive(node) THEN 0 ELSE flag
    BY <1>8 DEF AclPollTimer
  <2>2. Saw(node) \in 0 .. 1 /\ (Saw(node) = 1 <=> AppUserActive(node))
    BY SawType, SawOne
  <2> QED
    BY <1>0, <2>1, <2>2 DEF GateInv
<1>9. CASE ScanSlots \/ CopyToken \/ EndScan
  <2>1. UNCHANGED <<server, pos, node, seen, flag, timer>>
    BY <1>9 DEF ScanSlots, CopyToken, EndScan
  <2> QED
    BY <1>0, <2>1 DEF GateInv
<1>10. ASSUME NEW r, NEW a, NEW f, Says(r, a, f) PROVE GateInv'
  <2>1. /\ UNCHANGED <<server, pos, flag, timer>>
        /\ seen' = IF Saw(node') = 1 THEN 1 ELSE seen
        /\ server \in {"up", "bare"}
    BY <1>10 DEF Says
  <2> QED
    BY <1>0, <2>1, SawOne DEF GateInv
<1>11. CASE ClusterChanges \/ UsersChange \/ CallsFail
  BY <1>10, <1>11 DEF ClusterChanges, UsersChange, CallsFail
<1>12. CASE Stop
  BY <1>12 DEF Stop, GateInv
<1>13. CASE UNCHANGED vars
  BY <1>0, <1>13 DEF vars, GateInv
<1> QED
  BY <1>1, <1>2, <1>3, <1>4, <1>5, <1>6, <1>7, <1>8, <1>9, <1>11, <1>12, <1>13 DEF Next

LEMMA GateInvariant == Spec => []GateInv
<1>1. Init => GateInv
  BY DEF Init, GateInv
<1> QED
  BY <1>1, GateStep, BufferBound, PTL DEF Spec

\* A loaded module never lets a node redirect clients before an application user
\* was active, whatever the order of loads, polls, user changes and failed calls.
THEOREM GateSafe == Spec => []GateGuards
<1>1. TypeOK /\ GateInv => GateGuards
  <2> SUFFICES ASSUME TypeOK, GateInv PROVE GateGuards
    OBVIOUS
  <2>1. ASSUME Registered # {} PROVE pos >= 2
    <3>1. PICK j \in DOMAIN COMMANDS : j <= pos - 3
      BY <2>1 DEF Registered
    <3>2. j >= 1
      BY DEF COMMANDS
    <3> QED
      BY <3>1, <3>2 DEF COMMANDS, TypeOK
  <2> QED
    BY <2>1 DEF GateInv, GateGuards
<1> QED
  BY <1>1, GateInvariant, BufferBound, PTL

\* The timer is never lost while the gate is closed on a loaded node.
TimerArmed == server = "up" /\ flag = 1 => timer = 1

\* The safety half of GateOpens: acl_poll_timer_cb re-arms itself until it has
\* opened the gate, so no state of a loaded node waits for a timer that is gone.
THEOREM GateArmed == Spec => []TimerArmed
<1>1. GateInv => TimerArmed
  BY DEF GateInv, TimerArmed
<1> QED
  BY <1>1, GateInvariant, PTL

-----------------------------------------------------------------------------
\* A nonempty set of naturals has a least element.
LEMMA LeastNat ==
    ASSUME NEW T, T \subseteq Nat, T # {}
    PROVE  \E x \in T : \A y \in T : x <= y
<1>1. PICK x \in T : \A y \in T : ~ (<<y, x>> \in OpToRel(<, Nat))
  BY Zenon, NatLessThanWellFounded, WFMin
<1>2. \A y \in T : ~ (y < x)
  BY Zenon, <1>1 DEF OpToRel
<1> QED BY <1>2

\* Running totals exist: there is a least length for which they would not.
LEMMA TotalsExist ==
    ASSUME NEW w \in Seq(Int)
    PROVE  \A n \in 0 .. Len(w) : \E f \in [0 .. n -> Int] :
              \A i \in 0 .. n : f[i] = IF i = 0 THEN 0 ELSE f[i - 1] + w[i]
<1> DEFINE Sums(n, f) == \A i \in 0 .. n : f[i] = IF i = 0 THEN 0 ELSE f[i - 1] + w[i]
           Bad == {n \in 0 .. Len(w) : ~\E f \in [0 .. n -> Int] : Sums(n, f)}
<1>1. SUFFICES ASSUME Bad # {} PROVE FALSE
  BY Zenon
<1>2. PICK n \in Bad : \A m \in Bad : n <= m
  <2>1. Bad \subseteq Nat
    OBVIOUS
  <2> HIDE DEF Bad
  <2> QED
    BY <1>1, <2>1, LeastNat, Zenon
<1>3. n # 0
  <2>1. [i \in 0 .. 0 |-> 0] \in [0 .. 0 -> Int] /\ Sums(0, [i \in 0 .. 0 |-> 0])
    OBVIOUS
  <2> QED
    BY <2>1
<1>4. n - 1 \in 0 .. Len(w) /\ n - 1 \notin Bad /\ n \in 1 .. Len(w)
  <2>1. Len(w) \in Nat /\ n \in 0 .. Len(w)
    OBVIOUS
  <2>2. n - 1 \in 0 .. Len(w) /\ n \in 1 .. Len(w)
    BY <1>3, <2>1
  <2> HIDE DEF Bad
  <2>3. n - 1 \notin Bad
    BY <1>2, <2>1
  <2> QED
    BY <2>2, <2>3
<1>5. PICK f \in [0 .. n - 1 -> Int] : Sums(n - 1, f)
  BY <1>4
<1> DEFINE g == [i \in 0 .. n |-> IF i = n THEN f[n - 1] + w[n] ELSE f[i]]
<1>6. w[n] \in Int /\ f[n - 1] \in Int
  BY <1>4
<1>7. g \in [0 .. n -> Int]
  BY <1>4, <1>6
<1>8. Sums(n, g)
  <2> SUFFICES ASSUME NEW i \in 0 .. n PROVE g[i] = IF i = 0 THEN 0 ELSE g[i - 1] + w[i]
    OBVIOUS
  <2>1. CASE i = n
    BY <1>4, <2>1
  <2>2. CASE i # n
    <3>1. i \in 0 .. n - 1 /\ g[i] = f[i] /\ (i # 0 => i - 1 \in 0 .. n /\ i - 1 # n)
      BY <1>4, <2>2
    <3> QED
      BY <1>5, <3>1
  <2> QED
    BY <2>1, <2>2
<1> QED
  BY <1>4, <1>7, <1>8

\* Totals(w) satisfies its recursion.
LEMMA TotalsStep ==
    ASSUME NEW w \in Seq(Int)
    PROVE  /\ Totals(w)[0] = 0
           /\ \A i \in 1 .. Len(w) : Totals(w)[i] = Totals(w)[i - 1] + w[i]
           /\ \A i \in 0 .. Len(w) : Totals(w)[i] \in Int
<1> DEFINE Def(g) == [i \in 0 .. Len(w) |-> IF i = 0 THEN 0 ELSE g[i - 1] + w[i]]
<1>1. PICK f \in [0 .. Len(w) -> Int] :
         \A i \in 0 .. Len(w) : f[i] = IF i = 0 THEN 0 ELSE f[i - 1] + w[i]
  <2>1. Len(w) \in 0 .. Len(w)
    OBVIOUS
  <2> QED
    BY <2>1, TotalsExist, Zenon
<1>2. f = Def(f)
  BY <1>1
<1>3. Totals(w) = CHOOSE g : g = Def(g)
  BY DEF Totals
<1> HIDE DEF Def
<1>4. Totals(w) = Def(Totals(w))
  BY <1>2, <1>3
<1>5. /\ Totals(w)[0] = 0
      /\ \A i \in 1 .. Len(w) : Totals(w)[i] = Totals(w)[i - 1] + w[i]
  <2>1. \A h : \A i \in 0 .. Len(w) : Def(h)[i] = IF i = 0 THEN 0 ELSE h[i - 1] + w[i]
    BY DEF Def
  <2>2. \A i \in 0 .. Len(w) : Totals(w)[i] = IF i = 0 THEN 0 ELSE Totals(w)[i - 1] + w[i]
    BY <1>4, <2>1, Zenon
  <2>3. 0 \in 0 .. Len(w) /\ \A i \in 1 .. Len(w) : i \in 0 .. Len(w) /\ i # 0
    OBVIOUS
  <2> QED
    BY <2>2, <2>3
<1> DEFINE Bad == {i \in 0 .. Len(w) : Totals(w)[i] \notin Int}
<1>6. SUFFICES ASSUME Bad # {} PROVE FALSE
  BY <1>5
<1>7. PICK i \in Bad : \A j \in Bad : i <= j
  <2>1. Bad \subseteq Nat
    OBVIOUS
  <2> HIDE DEF Bad
  <2> QED
    BY <1>6, <2>1, LeastNat, Zenon
<1>8. i \in 1 .. Len(w) /\ i - 1 \in 0 .. Len(w) /\ i - 1 \notin Bad
  <2>1. i \in 0 .. Len(w) /\ i # 0 /\ Len(w) \in Nat
    BY <1>5
  <2> HIDE DEF Bad
  <2> QED
    BY <1>7, <2>1
<1> QED
  BY <1>5, <1>8

\* The loop's invariant: Done tokens of the node's own line are read.
Done == Len(Slots) - Len(rest)

\* What the loop has read is the front of the line, col is where it stands in
\* it, and the entries written so far belong to the ranges read, in order: all
\* of them while the line lasts.
Reading ==
    /\ MyLines(node) # {}
    /\ Done \in 0 .. Len(Slots)
    /\ \A i \in DOMAIN rest : rest[i] = Slots[Done + i]
    /\ col = LineBytes[Done]
    /\ out \in Seq([range : {t.range : t \in Tokens}, len : Nat])
    /\ Nth[Done] \in Nat
    /\ \A k \in Own : k <= Done => Nth[k] \in 1 .. Nth[Done]
    /\ Len(out) <= Nth[Done]
    /\ col <= LINE_ROOM + 1 => Len(out) = Nth[Done]
    /\ out # << >> <=> Done >= 1 /\ 1 \in Own

\* No range is cut while line and buffer last; as long as the ranges fit, the
\* buffer holds exactly them; and behind a cut range nothing is written.
Copying ==
    /\ col <= LINE_ROOM + 1 /\ written < SLOTS_BUF_SIZE - 1
         => \A k \in Own : k <= Done => Whole(k)
    /\ col <= LINE_ROOM + 1 /\ OwnBytes[Done] - 1 < SLOTS_BUF_SIZE
         => /\ \A k \in Own : k <= Done => Whole(k)
            /\ \/ OwnBytes[Done] = 0 /\ written = 0
               \/ OwnBytes[Done] > 1 /\ written = OwnBytes[Done] - 1
    /\ \A k \in Own, j \in DOMAIN out :
          k <= Done /\ Nth[k] < j /\ out[j].len > 0 => Whole(k)

\* The loop runs only in a loaded server.
ScanInv == busy = 1 => server = "up" /\ Reading /\ Copying

\* The running totals of a line, one token further.
LEMMA LineTotals ==
    ASSUME Slots \in Seq(Tokens)
    PROVE  /\ Nth[0] = 0 /\ LineBytes[0] = 0 /\ OwnBytes[0] = 0
           /\ \A k \in 0 .. Len(Slots) :
                 Nth[k] \in Int /\ LineBytes[k] \in Int /\ OwnBytes[k] \in Int
           /\ \A k \in 1 .. Len(Slots) :
                 /\ LineBytes[k] = LineBytes[k - 1] + Slots[k].len + 1
                 /\ k \in Own => /\ Nth[k] = Nth[k - 1] + 1
                                 /\ OwnBytes[k] = OwnBytes[k - 1] + Slots[k].len + 1
                 /\ k \notin Own => Nth[k] = Nth[k - 1] /\ OwnBytes[k] = OwnBytes[k - 1]
<1> DEFINE n == Len(Slots)
           wn == [k \in DOMAIN Slots |-> IF k \in Own THEN 1 ELSE 0]
           wl == [k \in DOMAIN Slots |-> Slots[k].len + 1]
           wo == [k \in DOMAIN Slots |-> IF k \in Own THEN Slots[k].len + 1 ELSE 0]
<1>1. n \in Nat /\ DOMAIN Slots = 1 .. n /\ \A k \in 1 .. n : Slots[k].len \in Nat
  OBVIOUS
<1>2. wn \in Seq(Int) /\ wl \in Seq(Int) /\ wo \in Seq(Int)
  <2>1. wn \in [1 .. n -> Int] /\ wl \in [1 .. n -> Int] /\ wo \in [1 .. n -> Int]
    BY <1>1
  <2> QED
    BY <1>1, <2>1
<1>3. Len(wn) = n /\ Len(wl) = n /\ Len(wo) = n
  BY <1>1
<1>4. Nth = Totals(wn) /\ LineBytes = Totals(wl) /\ OwnBytes = Totals(wo)
  BY DEF Nth, LineBytes, OwnBytes
<1>5. \A k \in 1 .. n : /\ wl[k] = Slots[k].len + 1
                        /\ k \in Own => wn[k] = 1 /\ wo[k] = Slots[k].len + 1
                        /\ k \notin Own => wn[k] = 0 /\ wo[k] = 0
  BY <1>1
<1> HIDE DEF wn, wl, wo
<1>6. /\ Nth[0] = 0 /\ LineBytes[0] = 0 /\ OwnBytes[0] = 0
      /\ \A k \in 1 .. n : /\ Nth[k] = Nth[k - 1] + wn[k]
                           /\ LineBytes[k] = LineBytes[k - 1] + wl[k]
                           /\ OwnBytes[k] = OwnBytes[k - 1] + wo[k]
      /\ \A k \in 0 .. n : Nth[k] \in Int /\ LineBytes[k] \in Int /\ OwnBytes[k] \in Int
  BY Zenon, <1>2, <1>3, <1>4, TotalsStep
<1>7. ASSUME NEW k \in 1 .. n
      PROVE  /\ LineBytes[k] = LineBytes[k - 1] + Slots[k].len + 1
             /\ k \in Own => /\ Nth[k] = Nth[k - 1] + 1
                             /\ OwnBytes[k] = OwnBytes[k - 1] + Slots[k].len + 1
             /\ k \notin Own => Nth[k] = Nth[k - 1] /\ OwnBytes[k] = OwnBytes[k - 1]
  <2>1. k - 1 \in 0 .. n /\ Slots[k].len \in Nat
    BY <1>1
  <2>2. Nth[k - 1] \in Int /\ LineBytes[k - 1] \in Int /\ OwnBytes[k - 1] \in Int
    BY Zenon, <1>6, <2>1
  <2>3. LineBytes[k] = LineBytes[k - 1] + wl[k] /\ wl[k] = Slots[k].len + 1
    BY <1>5, <1>6
  <2>4. LineBytes[k] = LineBytes[k - 1] + Slots[k].len + 1
    BY <2>1, <2>2, <2>3
  <2>5. ASSUME k \in Own
        PROVE  Nth[k] = Nth[k - 1] + 1 /\ OwnBytes[k] = OwnBytes[k - 1] + Slots[k].len + 1
    <3>1. /\ Nth[k] = Nth[k - 1] + wn[k] /\ wn[k] = 1
          /\ OwnBytes[k] = OwnBytes[k - 1] + wo[k] /\ wo[k] = Slots[k].len + 1
      BY <1>5, <1>6, <2>5
    <3> QED
      BY SMTT(30), <2>1, <2>2, <3>1
  <2>6. ASSUME k \notin Own
        PROVE  Nth[k] = Nth[k - 1] /\ OwnBytes[k] = OwnBytes[k - 1]
    <3>1. /\ Nth[k] = Nth[k - 1] + wn[k] /\ wn[k] = 0
          /\ OwnBytes[k] = OwnBytes[k - 1] + wo[k] /\ wo[k] = 0
      BY <1>5, <1>6, <2>6
    <3> QED
      BY <2>2, <3>1
  <2> QED
    BY <2>4, <2>5, <2>6
<1> QED
  BY <1>6, <1>7

\* A node that does not change keeps its line and its totals.
LEMMA LineKept ==
    ASSUME node' = node
    PROVE  /\ Slots' = Slots /\ Own' = Own /\ Nth' = Nth
           /\ LineBytes' = LineBytes /\ OwnBytes' = OwnBytes
<1>1. Slots' = Slots
  BY DEF Slots, MyLine, MyLines, Works
<1>2. Own' = Own
  BY <1>1 DEF Own
<1> QED
  BY <1>1, <1>2 DEF Nth, LineBytes, OwnBytes, Totals

\* One round of the loop reads token k = Done + 1 of the line.
LEMMA RoundFacts ==
    ASSUME TypeOK, TokensOK, Reading, CopyToken,
           NEW k, k = Done + 1
    PROVE  /\ k \in 1 .. Len(Slots) /\ Done = k - 1 /\ Done' = k
           /\ Head(rest) = Slots[k] /\ Slots[k] \in Tokens
           /\ \A i \in DOMAIN rest' : rest'[i] = Slots[k + i]
           /\ k \in Own <=> ~Slots[k].marker
           /\ col' = col + Slots[k].len + 1
           /\ LineBytes[k - 1] \in Int /\ OwnBytes[k - 1] \in Int
           /\ LineBytes[k] = LineBytes[k - 1] + Slots[k].len + 1
           /\ k \in Own => /\ Nth[k] = Nth[k - 1] + 1
                           /\ OwnBytes[k] = OwnBytes[k - 1] + Slots[k].len + 1
           /\ k \notin Own => Nth[k] = Nth[k - 1] /\ OwnBytes[k] = OwnBytes[k - 1]
<1>1. /\ rest # << >> /\ rest' = Tail(rest) /\ node' = node /\ rest \in Seq(Tokens)
      /\ col' = col + Head(rest).len + 1
  BY DEF CopyToken, TokensOK
<1>2. Slots \in Seq(Tokens) /\ Slots' = Slots
  BY <1>1, MyLineTokens, LineKept DEF Reading, Slots
<1>3. Len(rest) \in Nat \ {0} /\ Len(rest') = Len(rest) - 1 /\ Len(Slots) \in Nat
  BY <1>1, <1>2
<1>4. Done \in 0 .. Len(Slots) /\ Done = Len(Slots) - Len(rest)
  BY DEF Reading, Done
<1>5. k \in 1 .. Len(Slots) /\ Done = k - 1
  BY <1>3, <1>4
<1>6. Done' = k
  BY <1>2, <1>3, <1>4 DEF Done
<1>7. Head(rest) = Slots[k]
  <2>1. 1 \in DOMAIN rest /\ Head(rest) = rest[1]
    BY <1>1, <1>3
  <2> QED
    BY <2>1 DEF Reading
<1>8. ASSUME NEW i \in DOMAIN rest' PROVE rest'[i] = Slots[k + i]
  <2>1. i \in Nat /\ i + 1 \in DOMAIN rest /\ rest'[i] = rest[i + 1]
    BY <1>1, <1>3
  <2>2. rest[i + 1] = Slots[Done + (i + 1)]
    BY <2>1 DEF Reading
  <2>3. Done + (i + 1) = k + i
    BY <1>4, <2>1
  <2> QED
    BY <2>1, <2>2, <2>3
<1>9. Slots[k] \in Tokens /\ (k \in Own <=> ~Slots[k].marker)
  BY <1>2, <1>5 DEF Own
<1>10. k - 1 \in 0 .. Len(Slots)
  BY <1>3, <1>5
<1>11. /\ LineBytes[k - 1] \in Int /\ OwnBytes[k - 1] \in Int
       /\ LineBytes[k] = LineBytes[k - 1] + Slots[k].len + 1
       /\ k \in Own => /\ Nth[k] = Nth[k - 1] + 1
                       /\ OwnBytes[k] = OwnBytes[k - 1] + Slots[k].len + 1
       /\ k \notin Own => Nth[k] = Nth[k - 1] /\ OwnBytes[k] = OwnBytes[k - 1]
  BY <1>2, <1>5, <1>10, LineTotals, Zenon
<1> QED
  BY <1>1, <1>5, <1>6, <1>7, <1>8, <1>9, <1>11, Zenon

\* What one round does to the buffer: a range that the line still shows is
\* appended, cut by the line or by the buffer; anything else is passed over.
LEMMA RoundWrites ==
    ASSUME TypeOK, TokensOK, Reading, CopyToken,
           NEW k, k = Done + 1,
           NEW len, len = Slots[k].len
    PROVE  /\ len \in Nat \ {0}
           /\ \/ /\ k \notin Own \/ col >= LINE_ROOM
                 /\ UNCHANGED <<written, out>>
              \/ /\ k \in Own /\ col < LINE_ROOM
                 /\ \E shown, put \in Nat :
                       /\ shown = Visible(Slots[k]) /\ shown \in 1 .. len
                       /\ col + len <= LINE_ROOM => shown = len
                       /\ put = Copied(shown)
                       /\ out' = Append(out, [range |-> Slots[k].range, len |-> put])
                       /\ written' = written + Separator + put
<1> DEFINE t == Slots[k]  v == Visible(t)
<1>1. Head(rest) = t /\ t \in Tokens /\ (k \in Own <=> ~t.marker)
  BY RoundFacts
<1>2. len \in Nat \ {0} /\ t.len = len
  BY <1>1
<1>3. col \in Nat /\ written \in 0 .. SLOTS_BUF_SIZE - 1
  BY DEF TypeOK
<1>4. /\ v \in 0 .. len
      /\ v = 0 <=> col >= LINE_ROOM
      /\ col + len <= LINE_ROOM => v = len
  BY <1>2, <1>3 DEF Visible, AtLeastZero
<1>5. IF t.marker \/ v = 0
      THEN UNCHANGED <<written, out>>
      ELSE /\ written' = written + Separator + Copied(v)
           /\ out' = Append(out, [range |-> t.range, len |-> Copied(v)])
  BY <1>1 DEF CopyToken
<1>6. CASE t.marker \/ v = 0
  BY <1>1, <1>2, <1>4, <1>5, <1>6
<1>7. CASE ~t.marker /\ v # 0
  <2>1. Separator \in 0 .. 1 /\ written + Separator \in 0 .. SLOTS_BUF_SIZE - 1
    BY <1>3 DEF Separator
  <2>2. v \in Nat /\ v \in 1 .. len /\ col < LINE_ROOM
    BY <1>2, <1>3, <1>4, <1>7
  <2>3. Copied(v) \in Nat
    BY <2>1, <2>2 DEF Copied
  <2>4. /\ written' = written + Separator + Copied(v)
        /\ out' = Append(out, [range |-> t.range, len |-> Copied(v)])
    BY <1>5, <1>7
  <2> QED
    BY Zenon, <1>1, <1>2, <1>4, <1>7, <2>2, <2>3, <2>4
<1> QED
  BY <1>6, <1>7

\* Appending an entry keeps the others.
LEMMA Appended ==
    ASSUME NEW S, NEW s \in Seq(S), NEW e \in S
    PROVE  /\ Append(s, e) \in Seq(S) /\ Len(Append(s, e)) = Len(s) + 1
           /\ Len(s) \in Nat /\ DOMAIN Append(s, e) = 1 .. Len(s) + 1
           /\ Append(s, e)[Len(s) + 1] = e
           /\ \A i \in 1 .. Len(s) : Append(s, e)[i] = s[i]
  OBVIOUS

\* A line with a range starts with one: markers come last.
LEMMA RangesFirst ==
    ASSUME TokensOK, MyLines(node) # {}, NEW x \in Own
    PROVE  1 \in Own
<1> DEFINE i == CHOOSE i \in MyLines(node) : TRUE
<1>1. i \in DOMAIN node.nodes /\ Slots = node.nodes[i].slots
  BY Zenon DEF MyLines, MyLine, Slots
<1> HIDE DEF i
<1>2. \A k \in DOMAIN Slots : \A j \in 1 .. k : Slots[j].marker => Slots[k].marker
  BY <1>1 DEF TokensOK, Plausible
<1>3. Slots \in Seq(Tokens)
  BY MyLineTokens DEF Slots
<1>4. x \in DOMAIN Slots /\ ~Slots[x].marker /\ 1 \in 1 .. x /\ 1 \in DOMAIN Slots
  BY <1>3 DEF Own
<1> QED
  BY <1>2, <1>4 DEF Own

\* One round keeps the reading half of the invariant.
LEMMA ReadingStep ==
    ASSUME TypeOK, TokensOK, Reading, CopyToken
    PROVE  Reading'
<1> DEFINE k == Done + 1  len == Slots[k].len
           Entry == [range : {t.range : t \in Tokens}, len : Nat]
<1>1. node' = node
  BY DEF CopyToken
<1>2. MyLines(node)' # {}
  BY Zenon, <1>1 DEF Reading, MyLines, Works
<1>3. Slots' = Slots /\ Own' = Own /\ Nth' = Nth /\ LineBytes' = LineBytes
  BY <1>1, LineKept
<1>4. /\ k \in 1 .. Len(Slots) /\ Done = k - 1 /\ Done' = k /\ Slots[k] \in Tokens
      /\ \A i \in DOMAIN rest' : rest'[i] = Slots[k + i]
      /\ col' = col + len + 1 /\ LineBytes[k - 1] \in Int
      /\ LineBytes[k] = LineBytes[k - 1] + len + 1
      /\ k \in Own => Nth[k] = Nth[k - 1] + 1
      /\ k \notin Own => Nth[k] = Nth[k - 1]
  BY RoundFacts
<1>5. /\ col = LineBytes[k - 1] /\ out \in Seq(Entry) /\ Nth[k - 1] \in Nat
      /\ \A x \in Own : x <= k - 1 => Nth[x] \in 1 .. Nth[k - 1]
      /\ Len(out) <= Nth[k - 1]
      /\ col <= LINE_ROOM + 1 => Len(out) = Nth[k - 1]
      /\ out # << >> <=> k - 1 >= 1 /\ 1 \in Own
  BY <1>4 DEF Reading
<1>6. /\ len \in Nat \ {0}
      /\ \/ /\ k \notin Own \/ col >= LINE_ROOM
            /\ out' = out
         \/ /\ k \in Own /\ col < LINE_ROOM
            /\ \E put \in Nat : out' = Append(out, [range |-> Slots[k].range, len |-> put])
  BY Zenon, RoundWrites
<1>7. col \in Nat /\ k \in Nat /\ k >= 1
  BY <1>4 DEF TypeOK
<1> HIDE DEF k, len, Entry
<1>8. Nth[k] \in Nat /\ Nth[k] >= Nth[k - 1] /\ (k \in Own => Nth[k] \in 1 .. Nth[k])
  BY SMTT(30), <1>4, <1>5
<1>9. ASSUME NEW x \in Own, x <= k PROVE Nth[x] \in 1 .. Nth[k]
  <2>1. x \in Nat
    <3>1. Slots \in Seq(Tokens)
      BY MyLineTokens DEF Reading, Slots
    <3> QED
      BY <3>1 DEF Own
  <2>2. CASE x = k
    BY <1>8, <2>2
  <2>3. CASE x # k
    <3>1. Nth[x] \in 1 .. Nth[k - 1]
      BY <1>5, <1>7, <1>9, <2>1, <2>3
    <3> QED
      BY <1>5, <1>8, <3>1
  <2> QED
    BY <2>2, <2>3
<1>10. /\ out' \in Seq(Entry) /\ Len(out') <= Nth[k]
       /\ col' <= LINE_ROOM + 1 => Len(out') = Nth[k]
       /\ out' # << >> <=> 1 \in Own
  <2>1. CASE (k \notin Own \/ col >= LINE_ROOM) /\ out' = out
    <3>1. Len(out) \in Nat
      BY <1>5
    <3>2. Len(out') <= Nth[k] /\ (col' <= LINE_ROOM + 1 => Len(out') = Nth[k])
      <4>1. CASE k \notin Own
        BY SMTT(30), <1>4, <1>5, <1>6, <1>7, <2>1, <4>1
      <4>2. CASE k \in Own /\ col >= LINE_ROOM
        <5>1. col' > LINE_ROOM + 1
          BY <1>4, <1>6, <1>7, <4>2
        <5>2. Len(out') <= Nth[k]
          BY <1>5, <1>8, <2>1, <3>1
        <5>3. col' \in Nat
          BY <1>4, <1>6, <1>7
        <5> QED
          BY <5>1, <5>2, <5>3
      <4> QED
        BY <2>1, <4>1, <4>2
    <3>3. k = 1 => LineBytes[k - 1] = 0
      <4>1. Slots \in Seq(Tokens)
        BY MyLineTokens DEF Reading, Slots
      <4> QED
        BY <4>1, LineTotals
    <3>4. k = 1 => col < LINE_ROOM
      BY <1>5, <3>3
    <3>5. out' # << >> <=> 1 \in Own
      BY <1>5, <1>7, <2>1, <3>4
    <3> QED
      BY <1>5, <2>1, <3>2, <3>5
  <2>2. CASE /\ k \in Own /\ col < LINE_ROOM
             /\ \E put \in Nat : out' = Append(out, [range |-> Slots[k].range, len |-> put])
    <3>1. PICK put \in Nat : out' = Append(out, [range |-> Slots[k].range, len |-> put])
      BY <2>2
    <3>2. [range |-> Slots[k].range, len |-> put] \in Entry
      BY <1>4 DEF Entry
    <3>3. out' \in Seq(Entry) /\ Len(out') = Len(out) + 1 /\ Len(out) \in Nat
      BY <1>5, <3>1, <3>2, Appended
    <3>4. out' # << >>
      BY <3>3
    <3>5. 1 \in Own
      BY <2>2, RangesFirst DEF Reading
    <3> QED
      BY SMTT(30), <1>4, <1>5, <1>7, <1>8, <2>2, <3>3, <3>4, <3>5
  <2> QED
    BY <1>6, <2>1, <2>2
<1>11. col' = LineBytes[k] /\ k \in 0 .. Len(Slots)
  BY <1>4, <1>5
<1> QED
  BY SMTT(30), <1>2, <1>3, <1>4, <1>7, <1>8, <1>9, <1>10, <1>11 DEF Reading, Entry

\* A range is cut only at the end of the line or of the buffer, and what a full
\* buffer is given has no bytes.
LEMMA CopiedFacts ==
    ASSUME TypeOK, NEW shown \in Nat \ {0}
    PROVE  /\ Copied(shown) = shown \/ written + Separator + Copied(shown) = SLOTS_BUF_SIZE - 1
           /\ written + Separator + shown <= SLOTS_BUF_SIZE - 1 => Copied(shown) = shown
           /\ Copied(shown) > 0 => written < SLOTS_BUF_SIZE - 1
           /\ written + Separator + Copied(shown) < SLOTS_BUF_SIZE - 1
                => written < SLOTS_BUF_SIZE - 1
           /\ written = 0 => Separator = 0
           /\ written > 0 /\ written < SLOTS_BUF_SIZE - 1 => Separator = 1
<1>1. written \in 0 .. SLOTS_BUF_SIZE - 1
  BY DEF TypeOK
<1>2. CASE written > 0 /\ written < SLOTS_BUF_SIZE - 1
  <2>1. Separator = 1
    BY <1>2 DEF Separator
  <2> QED
    BY <1>1, <1>2, <2>1 DEF Copied
<1>3. CASE ~(written > 0 /\ written < SLOTS_BUF_SIZE - 1)
  <2>1. Separator = 0
    BY <1>3 DEF Separator
  <2> QED
    BY <1>1, <1>3, <2>1 DEF Copied
<1> QED
  BY <1>2, <1>3

\* One round keeps the copying half of the invariant.
LEMMA CopyingStep ==
    ASSUME TypeOK, TokensOK, Reading, Copying, CopyToken
    PROVE  Copying'
<1>0. PICK k : k = Done + 1
  OBVIOUS
<1> DEFINE len == Slots[k].len
           Room == LINE_ROOM + 1  Full == SLOTS_BUF_SIZE - 1
           Entry == [range : {t.range : t \in Tokens}, len : Nat]
<1>1. node' = node
  BY DEF CopyToken
<1>2. Slots' = Slots /\ Own' = Own /\ Nth' = Nth /\ OwnBytes' = OwnBytes
  BY <1>1, LineKept
<1>3. /\ k \in 1 .. Len(Slots) /\ Done = k - 1 /\ Done' = k /\ Slots[k] \in Tokens
      /\ col' = col + len + 1 /\ OwnBytes[k - 1] \in Int
      /\ k \in Own => Nth[k] = Nth[k - 1] + 1 /\ OwnBytes[k] = OwnBytes[k - 1] + len + 1
      /\ k \notin Own => Nth[k] = Nth[k - 1] /\ OwnBytes[k] = OwnBytes[k - 1]
  BY <1>0, RoundFacts
<1>4. /\ out \in Seq(Entry) /\ Nth[k - 1] \in Nat
      /\ \A x \in Own : x <= k - 1 => Nth[x] \in 1 .. Nth[k - 1]
      /\ Len(out) <= Nth[k - 1] /\ Len(out) \in Nat /\ DOMAIN out = 1 .. Len(out)
      /\ col <= Room => Len(out) = Nth[k - 1]
  BY SMTT(30), <1>3 DEF Reading
<1>5. \A x \in Own : x \in Nat
  <2>1. Slots \in Seq(Tokens)
    BY MyLineTokens DEF Reading, Slots
  <2> QED
    BY <2>1 DEF Own
<1>6. /\ col <= Room /\ written < Full => \A x \in Own : x <= k - 1 => Whole(x)
      /\ col <= Room /\ OwnBytes[k - 1] <= Full + 1
           => /\ \A x \in Own : x <= k - 1 => Whole(x)
              /\ \/ OwnBytes[k - 1] = 0 /\ written = 0
                 \/ OwnBytes[k - 1] > 1 /\ written = OwnBytes[k - 1] - 1
      /\ \A x \in Own, j \in DOMAIN out :
            x <= k - 1 /\ Nth[x] < j /\ out[j].len > 0 => Whole(x)
  BY <1>3 DEF Copying
<1>7. col \in Nat /\ written \in 0 .. Full /\ k \in Nat /\ Full \in Nat /\ Room \in Nat
  BY <1>3 DEF TypeOK
<1> HIDE DEF len, Room, Full, Entry
<1> DEFINE Goal == /\ col' <= Room /\ written' < Full
                        => \A x \in Own : x <= k => Whole(x)'
                   /\ col' <= Room /\ OwnBytes[k] <= Full + 1
                        => /\ \A x \in Own : x <= k => Whole(x)'
                           /\ \/ OwnBytes[k] = 0 /\ written' = 0
                              \/ OwnBytes[k] > 1 /\ written' = OwnBytes[k] - 1
                   /\ \A x \in Own, j \in DOMAIN out' :
                         x <= k /\ Nth[x] < j /\ out'[j].len > 0 => Whole(x)'
<1>8. ASSUME k \notin Own \/ col >= LINE_ROOM, UNCHANGED <<written, out>>, len \in Nat \ {0}
      PROVE  Goal
  <2>1. \A x \in Own : Whole(x)' <=> Whole(x)
    BY <1>2, <1>8 DEF Whole
  <2>2. CASE k \notin Own
    <3>1. \A x \in Own : x <= k => x <= k - 1
      BY <1>5, <1>7, <2>2
    <3>2. OwnBytes[k] = OwnBytes[k - 1] /\ (col' <= Room => col <= Room)
      BY <1>3, <1>7, <1>8, <2>2
    <3> QED
      BY <1>6, <1>8, <2>1, <3>1, <3>2
  <2>3. CASE k \in Own /\ col >= LINE_ROOM
    <3>1. ~(col' <= Room)
      BY <1>3, <1>7, <1>8, <2>3 DEF Room
    <3>2. ASSUME NEW x \in Own, NEW j \in DOMAIN out, x <= k, Nth[x] < j PROVE x <= k - 1
      <4>1. x # k
        BY <1>3, <1>4, <2>3, <3>2
      <4> QED
        BY <1>5, <1>7, <3>2, <4>1
    <3> QED
      BY <1>6, <1>8, <2>1, <3>1, <3>2
  <2> QED
    BY <1>8, <2>2, <2>3
<1>9. ASSUME k \in Own, col < LINE_ROOM, len \in Nat \ {0}, NEW shown \in 1 .. len, NEW put \in Nat,
             col + len <= LINE_ROOM => shown = len,
             put = Copied(shown),
             out' = Append(out, [range |-> Slots[k].range, len |-> put]),
             written' = written + Separator + put
      PROVE  Goal
  <2> DEFINE e == [range |-> Slots[k].range, len |-> put]
  <2>1. e \in Entry
    BY <1>3 DEF Entry
  <2>2. /\ Len(out') = Len(out) + 1 /\ DOMAIN out' = 1 .. Len(out) + 1
        /\ out'[Len(out) + 1] = e
        /\ \A i \in 1 .. Len(out) : out'[i] = out[i]
    BY SMTT(30), <1>4, <1>9, <2>1, Appended
  <2>3. col <= Room /\ Len(out) = Nth[k - 1] /\ Nth[k] = Len(out) + 1
    BY SMTT(30), <1>3, <1>4, <1>7, <1>9 DEF Room
  <2>4. \A x \in Own : x <= k - 1 => Nth[x] \in 1 .. Len(out) /\ (Whole(x)' <=> Whole(x))
    BY SMTT(30), <1>2, <1>4, <2>2, <2>3 DEF Whole
  <2>5. put = len => Whole(k)'
    BY <1>2, <2>2, <2>3 DEF Whole, len
  <2>6. \A x \in Own : x <= k => x = k \/ x <= k - 1
    BY <1>5, <1>7
  <2>7. shown \in Nat \ {0} /\ (col' <= Room => shown = len)
    BY <1>3, <1>7, <1>9 DEF Room
  <2>8. /\ put = shown \/ written' = Full
        /\ written + Separator + shown <= Full => put = shown
        /\ put > 0 => written < Full
        /\ written' < Full => written < Full
        /\ written = 0 => Separator = 0
        /\ written > 0 /\ written < Full => Separator = 1
    BY <1>9, <2>7, CopiedFacts DEF Full
  <2>9. ASSUME col' <= Room, written' < Full, NEW x \in Own, x <= k PROVE Whole(x)'
    <3>1. put = len /\ written < Full
      BY <1>7, <2>7, <2>8, <2>9
    <3> QED
      BY <1>6, <2>3, <2>4, <2>5, <2>6, <2>9, <3>1
  <2>10. ASSUME col' <= Room, OwnBytes[k] <= Full + 1
         PROVE  /\ \A x \in Own : x <= k => Whole(x)'
                /\ OwnBytes[k] > 1 /\ written' = OwnBytes[k] - 1
    <3>1. OwnBytes[k] = OwnBytes[k - 1] + len + 1 /\ OwnBytes[k - 1] \in Int
      BY <1>3, <1>9
    <3>2. OwnBytes[k - 1] <= Full + 1 /\ shown = len
      BY <1>7, <1>9, <2>7, <2>10, <3>1
    <3>3. /\ \A x \in Own : x <= k - 1 => Whole(x)
          /\ \/ OwnBytes[k - 1] = 0 /\ written = 0
             \/ OwnBytes[k - 1] > 1 /\ written = OwnBytes[k - 1] - 1
      BY <1>6, <2>3, <3>2
    <3>4. put = len /\ OwnBytes[k] > 1 /\ written' = OwnBytes[k] - 1
      <4>1. CASE OwnBytes[k - 1] = 0 /\ written = 0
        <5>1. Separator = 0 /\ len <= Full /\ OwnBytes[k] = len + 1
          BY <1>7, <1>9, <2>8, <2>10, <3>1, <4>1
        <5>2. put = len
          BY <1>7, <1>9, <2>8, <3>2, <4>1, <5>1
        <5> QED
          BY <1>9, <4>1, <5>1, <5>2
      <4>2. CASE OwnBytes[k - 1] > 1 /\ written = OwnBytes[k - 1] - 1
        <5>1. written > 0 /\ written + 1 + len <= Full /\ written < Full
          BY SMTT(30), <1>7, <1>9, <2>10, <3>1, <4>2
        <5>2. Separator = 1
          BY <2>8, <5>1
        <5>3. put = len
          BY <2>8, <3>2, <5>1, <5>2
        <5> QED
          BY <1>9, <3>1, <4>2, <5>2, <5>3
      <4> QED
        BY <3>3, <4>1, <4>2
    <3> QED
      BY <2>4, <2>5, <2>6, <3>3, <3>4
  <2>11. ASSUME NEW x \in Own, NEW j \in DOMAIN out', x <= k, Nth[x] < j, out'[j].len > 0
         PROVE  Whole(x)'
    <3>1. x <= k - 1
      <4>1. x # k
        BY <1>4, <2>2, <2>3, <2>11
      <4> QED
        BY <2>6, <2>11, <4>1
    <3>2. CASE j = Len(out) + 1
      <4>1. put > 0
        BY <2>2, <2>11, <3>2
      <4> QED
        BY <1>6, <2>3, <2>4, <2>8, <3>1, <4>1
    <3>3. CASE j \in DOMAIN out
      BY <1>4, <1>6, <2>2, <2>4, <2>11, <3>1, <3>3
    <3> QED
      BY <1>4, <2>2, <3>2, <3>3
  <2> QED
    BY <2>9, <2>10, <2>11
<1>10. Goal
  <2>1. len \in Nat \ {0}
    BY <1>0, RoundWrites DEF len
  <2>2. \/ /\ k \notin Own \/ col >= LINE_ROOM
           /\ UNCHANGED <<written, out>>
        \/ /\ k \in Own /\ col < LINE_ROOM
           /\ \E shown, put \in Nat :
                 /\ shown \in 1 .. len
                 /\ col + len <= LINE_ROOM => shown = len
                 /\ put = Copied(shown)
                 /\ out' = Append(out, [range |-> Slots[k].range, len |-> put])
                 /\ written' = written + Separator + put
    BY <1>0, RoundWrites DEF len
  <2> HIDE DEF Goal
  <2> QED
    BY Zenon, <1>8, <1>9, <2>1, <2>2
<1>11. OwnBytes[k] \in Int /\ (OwnBytes[k] - 1 < SLOTS_BUF_SIZE => OwnBytes[k] <= Full + 1)
  <2>1. len \in Nat
    BY <1>0, RoundWrites DEF len
  <2>2. OwnBytes[k] \in Int
    BY <1>3, <2>1
  <2> QED
    BY <2>2 DEF Full
<1> QED
  BY <1>2, <1>3, <1>10, <1>11 DEF Copying, Room, Full

\* The first state of the loop.
LEMMA ScanStarts ==
    ASSUME TypeOK, TokensOK, ScanSlots
    PROVE  Reading' /\ Copying'
<1>1. /\ MyLines(node) # {} /\ node' = node /\ rest' = Slots
      /\ col' = 0 /\ written' = 0 /\ out' = << >>
  BY DEF ScanSlots, Slots
<1>2. Slots \in Seq(Tokens)
  BY <1>1, MyLineTokens DEF Slots
<1>3. /\ Slots' = Slots /\ Own' = Own /\ Nth' = Nth
      /\ LineBytes' = LineBytes /\ OwnBytes' = OwnBytes
  BY <1>1, LineKept
<1>4. MyLines(node)' # {}
  BY Zenon, <1>1 DEF MyLines, Works
<1>5. Done' = 0 /\ Len(Slots) \in Nat
  BY <1>1, <1>2, <1>3 DEF Done
<1>6. Nth[0] = 0 /\ LineBytes[0] = 0 /\ OwnBytes[0] = 0
  BY <1>2, LineTotals
<1>7. \A k \in Own : ~(k <= 0)
  BY <1>2 DEF Own
<1>8. \A i \in DOMAIN rest' : rest'[i] = Slots[0 + i]
  BY <1>1, <1>2
<1>9. Reading'
  BY <1>1, <1>3, <1>4, <1>5, <1>6, <1>7, <1>8 DEF Reading
<1>10. Copying'
  BY <1>1, <1>3, <1>5, <1>6, <1>7 DEF Copying
<1> QED
  BY <1>9, <1>10

\* Every step keeps the loop's invariant: nothing else runs in the server while
\* the loop does.
LEMMA ScanStep == TypeOK /\ TokensOK /\ ScanInv /\ [Next]_vars => ScanInv'
<1> SUFFICES ASSUME TypeOK, TokensOK, ScanInv, [Next]_vars PROVE ScanInv'
  OBVIOUS
<1> USE DEF scanVars
<1>1. CASE Start \/ Loaded
  <2>1. server # "up" /\ busy' = busy
    BY <1>1 DEF Start, Loaded
  <2> QED
    BY SMTT(30), <2>1 DEF ScanInv
<1>2. CASE ModuleInit \/ GateInit \/ FailoverInit \/ CreateCommand \/ LoadFails
  <2>1. server # "up" /\ busy' = busy
    BY <1>2 DEF ModuleInit, GateInit, FailoverInit, CreateCommand, LoadFails, Advance
  <2> QED
    BY <2>1 DEF ScanInv
<1>3. CASE HotReload \/ AclPollTimer \/ Stop
  BY <1>3 DEF HotReload, AclPollTimer, Stop, ScanInv
<1>4. CASE ScanSlots
  <2>1. server' = "up"
    BY <1>4 DEF ScanSlots
  <2> QED
    BY <1>4, <2>1, ScanStarts DEF ScanInv
<1>5. CASE CopyToken
  <2>1. busy = 1 /\ server' = server
    BY <1>5 DEF CopyToken
  <2> QED
    BY <1>5, <2>1, ReadingStep, CopyingStep DEF ScanInv
<1>6. CASE EndScan
  BY <1>6 DEF EndScan, ScanInv
<1>7. CASE ClusterChanges \/ UsersChange \/ CallsFail
  BY <1>7 DEF ClusterChanges, UsersChange, CallsFail, Says, ScanInv
<1>8. CASE UNCHANGED vars
  <2>1. UNCHANGED <<server, node, busy, rest, col, written, out>>
    BY <1>8 DEF vars
  <2>2. /\ Slots' = Slots /\ Own' = Own /\ Nth' = Nth
        /\ LineBytes' = LineBytes /\ OwnBytes' = OwnBytes
    BY <2>1, LineKept
  <2>3. Done' = Done
    BY <2>1, <2>2 DEF Done
  <2>4. Reading => Reading'
    BY <2>1, <2>2, <2>3 DEF Reading, MyLines, Works
  <2>5. \A k : Whole(k)' <=> Whole(k)
    BY <2>1, <2>2 DEF Whole
  <2>6. Copying => Copying'
    BY <2>1, <2>2, <2>3, <2>5 DEF Copying
  <2> QED
    BY <2>1, <2>4, <2>6 DEF ScanInv
<1> QED
  BY <1>1, <1>2, <1>3, <1>4, <1>5, <1>6, <1>7, <1>8 DEF Next

LEMMA ScanInvariant == Spec => [](TypeOK /\ TokensOK /\ ScanInv)
<1>1. Init => ScanInv
  BY DEF Init, ScanInv
<1>2. TypeOK /\ TokensOK /\ ScanInv /\ [Next]_vars => (TypeOK /\ TokensOK /\ ScanInv)'
  BY TypeStep, TokensStep, ScanStep
<1> QED
  BY <1>1, <1>2, InitType, PTL DEF Spec

\* For every buffer, line and list of slots, SLOT.STATS reports all ranges when
\* they fit, and else cuts only the last one it reports anything of.
THEOREM SlotsComplete == Spec => []SlotsReported
<1>1. TypeOK /\ TokensOK /\ ScanInv => SlotsReported
  <2> SUFFICES ASSUME TypeOK, TokensOK, ScanInv, busy = 1, rest = << >>
               PROVE  SlotsReported
    BY DEF SlotsReported
  <2>1. Reading /\ Copying
    BY DEF ScanInv
  <2>2. Slots \in Seq(Tokens)
    BY <2>1, MyLineTokens DEF Reading, Slots
  <2>3. Done = Len(Slots) /\ \A k \in Own : k <= Done
    BY <2>2 DEF Done, Own
  <2>4. LineBytes[Done] \in Int
    <3>1. Done \in 0 .. Len(Slots)
      BY <2>1 DEF Reading
    <3> QED
      BY <2>2, <3>1, LineTotals
  <2>5. LineBytes[Done] - 1 <= LINE_ROOM => col <= LINE_ROOM + 1
    BY <2>1, <2>4 DEF Reading
  <2>6. /\ LineBytes[Len(Slots)] - 1 <= LINE_ROOM /\ OwnBytes[Len(Slots)] - 1 < SLOTS_BUF_SIZE
           => Len(out) = Nth[Len(Slots)] /\ \A k \in Own : Whole(k)
    BY <2>1, <2>3, <2>5 DEF Reading, Copying
  <2>7. \A k \in Own, j \in DOMAIN out : Nth[k] < j /\ out[j].len > 0 => Whole(k)
    BY SMTT(30), <2>1, <2>3 DEF Copying
  <2> QED
    BY <2>6, <2>7 DEF SlotsReported
<1> QED
  BY <1>1, ScanInvariant, PTL

\* What the commands say of one node follows from the same fields; only the
\* claim about SLOT.STATS needs the loop's invariant.
LEMMA OneNodeAgrees ==
    ASSUME TypeOK, TokensOK, ScanInv
    PROVE  ReportsAgree
<1> DEFINE n == node  h == Health(node)  s == NodeState(node)
           assigned == FieldLL(n.cluster, "cluster_slots_assigned")
<1>1. Plausible(n)
  BY DEF TokensOK
<1>2. /\ assigned \in Int /\ FieldLL(n.cluster, "cluster_slots_ok") \in Int
      /\ FieldLL(n.cluster, "cluster_size") \in Int
      /\ FieldLL(n.info, "connected_slaves") \in Int
      /\ FieldLL(n.info, "master_repl_offset") \in Int
      /\ FieldLL(n.info, "slave_repl_offset") \in Int
  BY Zenon, <1>1 DEF Plausible
<1>3. \A x \in Int : /\ AtLeastZero(x) \in Nat
                     /\ AtLeastZero(x) > 0 <=> x > 0
                     /\ AtLeastZero(x) = 0 <=> x <= 0
  BY DEF AtLeastZero
<1>4. /\ s.role = "primary" => Role(n) = "master"
      /\ s.role = "replica" <=> Role(n) = "slave"
      /\ s.has_slots <=> OwnSlots(n)
  BY DEF NodeState
<1>5. \A d : ClusterState(n, "") = "ok" => ClusterState(n, d) = "ok"
  BY DEF ClusterState, FieldStr
<1>6. ASSUME NodeReady(n), ~Bootstrapping(n), s.role = "primary"
      PROVE  h.cluster_state = "ok" /\ h.slots_ok = h.slots_assigned /\ h.slots_ok > 0
  <2>1. /\ ClusterState(n, "") = "ok"
        /\ AtLeastZero(assigned) = AtLeastZero(FieldLL(n.cluster, "cluster_slots_ok"))
        /\ AtLeastZero(assigned) # 0
    BY Zenon, <1>4, <1>6 DEF NodeReady, PrimaryReady, Bootstrapping
  <2>2. AtLeastZero(assigned) > 0
    <3> HIDE DEF assigned
    <3>1. AtLeastZero(assigned) \in Nat
      BY Zenon, <1>2, <1>3
    <3>2. AtLeastZero(assigned) # 0
      BY Zenon, <2>1
    <3> QED
      BY <3>1, <3>2
  <2> QED
    BY Zenon, <1>5, <2>1, <2>2 DEF Health
<1>7. ASSUME NodeReady(n), ~Bootstrapping(n), s.role = "replica", h.master_link_status = "up"
      PROVE  h.repl_lag_bytes <= 1024
  <2>1. Role(n) = "slave" /\ FieldStr(n.info, "role", "unknown") = "slave"
    BY <1>4, <1>7 DEF Role, FieldStr
  <2>2. LinkUp(n) /\ h.repl_lag_bytes = ReplLag(n)
    BY Zenon, <1>7, <2>1 DEF Health, LinkUp
  <2>3. ~TooFarBehind(n)
    BY ZenonT(30), <1>7, <2>1, <2>2 DEF NodeReady, ReplicaReady
  <2>4. ReplLag(n) <= 1024
    BY <1>2, <2>1, <2>3 DEF ReplLag, TooFarBehind, AtLeastZero
  <2> QED
    BY ZenonT(30), <2>2, <2>4
<1>8. ~(BootstrapReady(n) /\ NodeStateWorks(n) /\ s.has_slots)
  <2> SUFFICES ASSUME BootstrapReady(n), OwnSlots(n) PROVE FALSE
    BY <1>4
  <2>1. PICK i \in DOMAIN n.nodes :
           /\ "myself" \in n.nodes[i].flags
           /\ \E k \in DOMAIN n.nodes[i].slots : ~n.nodes[i].slots[k].marker
    BY Zenon DEF OwnSlots, MyLine, MyLines
  <2>2. assigned > 0
    BY Zenon, <1>1, <2>1 DEF Plausible
  <2>3. assigned <= 0
    BY Zenon DEF BootstrapReady
  <2> HIDE DEF assigned
  <2> QED
    BY <1>2, <2>2, <2>3
<1>9. ASSUME NEW i \in DOMAIN n.nodes, NEW req,
             req = [role |-> "replica", primary |-> n.nodes[i].addr, peers |-> << >>],
             TopologySetOK(n, req)
      PROVE  /\ s.role = "replica" /\ ~Replicates(n, req)
             /\ s.master_addr.ip = req.primary.ip
             /\ OneNodePerIP(n) => s.master_addr = req.primary
  <2>1. IsAlreadyReplicaOf(n, req.primary)
    BY Zenon, <1>9 DEF TopologySetOK
  <2>2. /\ Role(n) = "slave" /\ req.primary.ip # ""
        /\ FieldStr(n.info, "master_host", "") = req.primary.ip
    BY Zenon, <2>1 DEF IsAlreadyReplicaOf
  <2>3. "master_host" \in DOMAIN n.info /\ n.info.master_host = req.primary.ip
    BY Zenon, <2>2 DEF FieldStr
  <2>4. s.master_addr = [ip |-> n.info.master_host, port |-> n.info.master_port]
    BY Zenon, <1>1, <2>3 DEF Plausible, NodeState
  <2>5. s.master_addr.ip = req.primary.ip
    <3> HIDE DEF s
    <3> QED
      BY SMTT(30), <2>3, <2>4
  <2>6. ASSUME OneNodePerIP(n) PROVE s.master_addr = req.primary
    <3>1. req.primary = n.nodes[i].addr
      BY Zenon, <1>9
    <3> QED
      BY Zenon, <2>5, <2>6, <3>1 DEF OneNodePerIP
  <2> QED
    BY Zenon, <1>4, <2>1, <2>2, <2>5, <2>6 DEF Replicates
<1>10. ASSUME server = "up", busy = 1, rest = << >>
       PROVE  (SlotStats(n, out).slots # << >>) <=> s.has_slots
  <2>1. Reading
    BY <1>10 DEF ScanInv
  <2>2. MyLines(n) # {} /\ Slots \in Seq(Tokens)
    BY <2>1, MyLineTokens DEF Reading, Slots
  <2>3. OwnSlots(n) <=> \E k \in Own : TRUE
    BY <2>2 DEF OwnSlots, Own, Slots
  <2>4. (\E k \in Own : TRUE) <=> 1 \in Own
    BY <2>2, RangesFirst
  <2>5. 1 \in Own => Done >= 1
    <3>1. Done = Len(Slots)
      BY <1>10, <2>2 DEF Done
    <3> QED
      BY <2>2, <3>1 DEF Own
  <2>6. out # << >> <=> 1 \in Own
    BY <2>1, <2>5 DEF Reading
  <2>7. SlotStats(n, out).slots = out
    BY DEF SlotStats
  <2> QED
    BY <1>4, <2>3, <2>4, <2>6, <2>7
<1>11. ASSUME ClusterSafe(n), FailoverPrepare(n).ok, HealthWorks(n)
       PROVE  h.gossip_converged /\ (s.role = "replica" \/ h.connected_replicas > 0)
  <2>1. ClusterState(n, "") = "ok"
    BY Zenon, <1>11 DEF ClusterSafe
  <2>2. FieldLL(n.cluster, "cluster_size") > 0
    BY Zenon, <1>1, <2>1 DEF Plausible
  <2>3. h.gossip_converged
    BY Zenon, <1>5, <2>1, <2>2 DEF Health
  <2>4. Role(n) = "slave" \/ FieldLL(n.info, "connected_slaves") > 0
    BY Zenon, <1>11 DEF ClusterSafe
  <2>5. h.connected_replicas = AtLeastZero(FieldLL(n.info, "connected_slaves"))
    BY DEF Health
  <2> QED
    BY <1>2, <1>3, <1>4, <2>3, <2>4, <2>5
<1> HIDE DEF s, h
<1> QED
  BY ZenonT(30), <1>6, <1>7, <1>8, <1>9, <1>10, <1>11 DEF ReportsAgree, s, h

\* Whatever the node's cluster, users and failing calls, its commands agree as
\* ReportsAgree says; the primary's port is promised only where IPs tell nodes
\* apart.
THEOREM ReportsConsistent == Spec => []ReportsAgree
<1>1. TypeOK /\ TokensOK /\ ScanInv => ReportsAgree
  BY OneNodeAgrees
<1> QED
  BY <1>1, ScanInvariant, PTL
=============================================================================
