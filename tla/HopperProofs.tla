---------------------------- MODULE HopperProofs ----------------------------
(***************************************************************************)
(* The list bookkeeping of Hopper, proved for every number of channels,    *)
(* every country table, every regulatory domain and every threshold.       *)
(***************************************************************************)
EXTENDS Hopper, SequenceTheorems, TLAPS

Byte == 0..(ByteMod - 1)

Ascending(s) == \A i, k \in 1..Len(s) : i < k => s[i] < s[k]

\* An index or a counter stays within its width.
LEMMA Wraps ==
    ASSUME NEW n \in Int, NEW m \in Nat \ {0}
    PROVE  n % m \in 0..(m - 1)
OBVIOUS

\* Moving the index either way leaves a byte.
LEMMA IndexWraps ==
    ASSUME NEW i \in 0..(ByteMod - 1)
    PROVE  Prev(i) \in 0..(ByteMod - 1) /\ Succ(i) \in 0..(ByteMod - 1)
<1>1. ByteMod \in Nat \ {0} /\ i - 1 \in Int /\ i + 1 \in Int
  BY WidthAssumption, ChannelAssumption
<1>2. QED
  BY <1>1, Wraps DEF Prev, Succ

\* What retire_channel_at does to one of its arrays.
LEMMA CloseUp ==
    ASSUME NEW S, NEW s \in Seq(S), NEW i \in 1..Len(s)
    PROVE  /\ RemoveAt(s, i) \in Seq(S) /\ Len(RemoveAt(s, i)) = Len(s) - 1
           /\ \A k \in 1..(Len(s) - 1) :
                 RemoveAt(s, i)[k] = IF k < i THEN s[k] ELSE s[k + 1]
<1> DEFINE front == SubSeq(s, 1, i - 1)
           back  == SubSeq(s, i + 1, Len(s))
           joined == front \o back
<1>1. Len(s) \in Nat /\ \A k \in 1..Len(s) : s[k] \in S
  BY LenProperties
<1>2. /\ front \in Seq(S) /\ Len(front) = i - 1
      /\ \A k \in 1..(i - 1) : front[k] = s[k]
  <2>1. /\ 1 \in Int /\ i - 1 \in Int
        /\ \A k \in 1..(i - 1) : s[k] \in S
    BY <1>1
  <2>2. /\ front \in Seq(S) /\ Len(front) = IF 1 <= i - 1 THEN (i - 1) - 1 + 1 ELSE 0
        /\ \A k \in 1..((i - 1) - 1 + 1) : front[k] = s[1 + k - 1]
    BY <2>1, SubSeqProperties
  <2>3. QED
    BY <2>2, <1>1
<1>3. /\ back \in Seq(S) /\ Len(back) = Len(s) - i
      /\ \A k \in 1..(Len(s) - i) : back[k] = s[i + k]
  <2>1. /\ i + 1 \in Int /\ Len(s) \in Int
        /\ \A k \in (i + 1)..Len(s) : s[k] \in S
    BY <1>1
  <2>2. /\ back \in Seq(S)
        /\ Len(back) = IF i + 1 <= Len(s) THEN Len(s) - (i + 1) + 1 ELSE 0
        /\ \A k \in 1..(Len(s) - (i + 1) + 1) : back[k] = s[(i + 1) + k - 1]
    BY <2>1, SubSeqProperties
  <2>3. QED
    BY <2>2, <1>1
<1> HIDE DEF front, back
<1>4. /\ joined \in Seq(S) /\ Len(joined) = Len(front) + Len(back)
      /\ \A k \in 1..(Len(front) + Len(back)) :
            joined[k] = IF k <= Len(front) THEN front[k] ELSE back[k - Len(front)]
  BY <1>2, <1>3, ConcatProperties
<1>5. RemoveAt(s, i) = joined
  BY DEF RemoveAt, front, back
<1> HIDE DEF joined
<1>6. ASSUME NEW k \in 1..(Len(s) - 1)
      PROVE  joined[k] = IF k < i THEN s[k] ELSE s[k + 1]
  <2>1. CASE k < i
    <3>1. k \in 1..(i - 1) /\ k \in 1..(Len(front) + Len(back)) /\ k <= Len(front)
      BY <2>1, <1>1, <1>2, <1>3
    <3>2. QED
      BY <3>1, <2>1, <1>2, <1>4
  <2>2. CASE k >= i
    <3>1. /\ k - Len(front) \in 1..(Len(s) - i) /\ i + (k - Len(front)) = k + 1
          /\ k \in 1..(Len(front) + Len(back)) /\ ~(k <= Len(front)) /\ ~(k < i)
      BY <2>2, <1>1, <1>2, <1>3
    <3>2. joined[k] = back[k - Len(front)]
      BY <3>1, <1>4
    <3>3. back[k - Len(front)] = s[k + 1]
      BY <3>1, <1>3
    <3>4. QED
      BY <3>1, <3>2, <3>3
  <2>3. QED
    BY <2>1, <2>2, <1>1
<1>7. Len(joined) = Len(s) - 1
  BY <1>1, <1>2, <1>3, <1>4
<1>8. QED
  BY <1>4, <1>5, <1>6, <1>7

\* Closing up loses the retired entry and no other, and keeps the order.
LEMMA RetireOne ==
    ASSUME NEW s \in Seq(Channel), NEW i \in 1..Len(s)
    PROVE  /\ Ascending(s) => Ascending(RemoveAt(s, i))
           /\ ToSet(s) \ {s[i]} \subseteq ToSet(RemoveAt(s, i))
<1> DEFINE r == RemoveAt(s, i)
<1>1. /\ r \in Seq(Channel) /\ Len(r) = Len(s) - 1 /\ Len(s) \in Nat
      /\ \A k \in 1..(Len(s) - 1) : r[k] = IF k < i THEN s[k] ELSE s[k + 1]
      /\ DOMAIN r = 1..Len(r) /\ DOMAIN s = 1..Len(s)
  BY CloseUp, LenProperties
<1> HIDE DEF r
<1>2. ASSUME Ascending(s) PROVE Ascending(r)
  BY <1>1, <1>2 DEF Ascending
<1>3. ASSUME NEW x \in ToSet(s), x # s[i] PROVE x \in ToSet(r)
  <2>1. PICK k \in 1..Len(s) : x = s[k]
    BY <1>1 DEF ToSet
  <2>2. CASE k < i
    <3>1. k \in 1..Len(r) /\ r[k] = s[k]
      BY <2>2, <1>1
    <3>2. QED
      BY <3>1, <2>1, <1>1 DEF ToSet
  <2>3. CASE k > i
    <3>1. k - 1 \in 1..Len(r) /\ r[k - 1] = s[k]
      BY <2>3, <1>1
    <3>2. QED
      BY <3>1, <2>1, <1>1 DEF ToSet
  <2>4. QED
    BY <2>1, <2>2, <2>3, <1>1, <1>3
<1>4. QED
  BY <1>2, <1>3 DEF r

\* Every country table yields an ascending list of the hardware's channels.
LEMMA ListBuilt ==
    ASSUME NEW c \in Country
    PROVE  build_channel_list(c) \in Seq(Channel) /\ Ascending(build_channel_list(c))
<1>1. ASSUME NEW m \in Nat \ {0}, NEW n \in Int, n <= HW_MAX
      PROVE  UpTo(m, n) \in Seq(Channel) /\ Ascending(UpTo(m, n))
  <2> DEFINE u == UpTo(m, n)
             len == IF m <= n THEN n - m + 1 ELSE 0
  <2>1. len \in Nat /\ 1..(n - m + 1) = 1..len
    BY <1>1
  <2>2. \A k \in 1..len : m + k - 1 \in Channel
    BY <1>1, ChannelAssumption DEF Channel
  <2>3. u = [k \in 1..len |-> m + k - 1]
    BY <2>1 DEF UpTo
  <2>4. u \in [1..len -> Channel]
    BY <2>2, <2>3
  <2>5. u \in Seq(Channel) /\ Len(u) = len
    BY <2>1, <2>4
  <2>6. Ascending(u)
    BY <2>1, <2>3, <2>5, <1>1 DEF Ascending
  <2>7. QED
    BY <2>5, <2>6
<1>2. CASE c = NoCountry \/ ListFromCountry(c) = <<>>
  BY <1>1, <1>2, ChannelAssumption DEF build_channel_list, Channel
<1>3. CASE c # NoCountry /\ ListFromCountry(c) # <<>>
  <2>1. c.schan \in Nat /\ c.nchan \in Nat
    BY <1>3, CountryAssumption
  <2>2. /\ ListFromCountry(c) = UpTo(c.schan, c.schan + c.nchan - 1)
        /\ c.schan \in Nat \ {0} /\ c.schan + c.nchan - 1 \in Int
        /\ c.schan + c.nchan - 1 <= HW_MAX
    BY <1>3, <2>1, ChannelAssumption DEF ListFromCountry
  <2>3. QED
    BY <1>1, <1>3, <2>2 DEF build_channel_list
<1>4. QED
  BY <1>2, <1>3
-----------------------------------------------------------------------------
(* The inductive invariant *)

\* Where the tasks are: nobody prepares a list while a hopper task lives, and
\* between the call and the report the task knows the channel of the radio.
Places ==
    /\ caller = "creating" \/ ~task_exists => task = Gone
    /\ task.at = "report" => task.ch = radio

HInv ==
    /\ TypeOK /\ streak \in [Channel -> Byte] /\ built \in Seq(Channel)
    /\ Places
    /\ HealthFollowsChannel /\ LegalChannelsKept /\ ReportedIsTuned

\* The index is the place of the current channel in both arrays.
LEMMA IndexInList ==
    ASSUME HInv, Trying
    PROVE  /\ task.i + 1 \in 1..Len(channels) /\ task.i + 1 \in 1..Len(health)
           /\ Current \in Channel /\ Current = channels[task.i + 1]
           /\ health[task.i + 1] \in Byte
<1>1. /\ channels \in Seq(Channel) /\ health \in Seq(Byte)
      /\ Len(health) = Len(channels) /\ task.i \in Byte
  BY DEF HInv, TypeOK, Byte
<1>2. task.i + 1 \in 1..Len(channels)
  BY <1>1, WidthAssumption, LenProperties DEF Trying, Byte
<1>3. QED
  BY <1>1, <1>2, LenProperties DEF Current

\* The verdict tells the class of the failure.
LEMMA VerdictOfClass ==
    ASSUME NEW class \in Class
    PROVE  /\ Verdict(class) = "retire" => Current \notin regulatory
           /\ Verdict(class) \in {"continue", "skip_pass"} => class = "transient"
BY DEF Class, Verdict, hopper_note_failure

\* Before the first start nothing is listed and nobody runs.
LEMMA HInvInit == Init => HInv
<1> SUFFICES ASSUME Init PROVE HInv
  OBVIOUS
<1>1. /\ 0 \in Byte /\ 0 \in 0..HW_MAX /\ 0 \in 0..(CounterMod - 1)
      /\ \A S : <<>> \in Seq(S) /\ Len(<<>>) = 0
  BY ChannelAssumption, WidthAssumption DEF Byte
<1>2. TypeOK
  <2>1. stats \in Stats
    BY <1>1 DEF Init, Stats, ZeroStats
  <2>2. regulatory \subseteq Channel
    BY ChannelAssumption DEF Init
  <2>3. task \in [at : {"gone", "while", "for", "report", "dwell", "exit"},
                  i : 0..(ByteMod - 1), ch : 0..HW_MAX]
    BY <1>1 DEF Init, Gone, Byte
  <2>4. QED
    BY <1>1, <2>1, <2>2, <2>3 DEF Init, TypeOK
<1>3. streak \in [Channel -> Byte] /\ built \in Seq(Channel)
  BY <1>1 DEF Init
<1>4. Places
  BY DEF Init, Places, Gone
<1>5. HealthFollowsChannel
  BY <1>1 DEF Init, HealthFollowsChannel
<1>6. LegalChannelsKept
  BY DEF Init, LegalChannelsKept
<1>7. ReportedIsTuned
  BY DEF Init, ReportedIsTuned, ZeroStats
<1>8. QED
  BY <1>2, <1>3, <1>4, <1>5, <1>6, <1>7 DEF HInv

\* What the steps that touch neither the arrays nor the driver must keep: the
\* places of the tasks, the statistics and the reported channel.
LEMMA ListUntouched ==
    ASSUME HInv, UNCHANGED <<listVars, driverVars, built>>,
           stats' \in Stats, task_exists' \in BOOLEAN, stop_requested' \in BOOLEAN,
           task' \in [at : {"gone", "while", "for", "report", "dwell", "exit"},
                      i : 0..(ByteMod - 1), ch : 0..HW_MAX],
           caller' \in {"idle", "creating", "enabling"},
           Places', ReportedIsTuned'
    PROVE  HInv'
<1>1. /\ channels' = channels /\ health' = health /\ streak' = streak
      /\ regulatory' = regulatory /\ radio' = radio /\ built' = built
  BY DEF listVars, driverVars
<1>2. TypeOK'
  BY <1>1 DEF HInv, TypeOK
<1>3. HealthFollowsChannel' /\ LegalChannelsKept'
  BY <1>1 DEF HInv, HealthFollowsChannel, LegalChannelsKept
<1>4. QED
  BY <1>1, <1>2, <1>3 DEF HInv

\* The steps of the hopper task that leave the list and the driver alone.
LEMMA QuietTaskStep ==
    ASSUME HInv,
           \/ pass_begins \/ pass_ends \/ report_channel
           \/ driver_dead \/ dwell_ends \/ task_disables \/ task_exits
    PROVE  HInv'
<1> USE DEF HInv
<1>0. /\ stats \in Stats /\ task_exists \in BOOLEAN /\ stop_requested \in BOOLEAN
      /\ task \in [at : {"gone", "while", "for", "report", "dwell", "exit"},
                   i : 0..(ByteMod - 1), ch : 0..HW_MAX]
      /\ caller \in {"idle", "creating", "enabling"} /\ radio \in 0..HW_MAX
      /\ 0 \in 0..(ByteMod - 1) /\ 0 \in 0..HW_MAX
  BY WidthAssumption, ChannelAssumption DEF TypeOK
<1>1. CASE pass_begins \/ pass_ends
  <2>1. /\ task' \in [at : {"gone", "while", "for", "report", "dwell", "exit"},
                      i : 0..(ByteMod - 1), ch : 0..HW_MAX]
        /\ task.at \in {"while", "for"} /\ task'.at \in {"while", "for"}
    BY <1>0, <1>1 DEF pass_begins, pass_ends
  <2>2. UNCHANGED <<listVars, driverVars, built, stats, task_exists, stop_requested, caller>>
    BY <1>1 DEF pass_begins, pass_ends
  <2>3. Places' /\ ReportedIsTuned'
    BY <2>1, <2>2 DEF Places, ReportedIsTuned, Gone, driverVars
  <2>4. QED
    BY <1>0, <2>1, <2>2, <2>3, ListUntouched
<1>2. CASE report_channel
  <2> DEFINE n == stats.hop_count + 1
  <2>0. n \in Int /\ CounterMod \in Nat \ {0}
    BY <1>0, WidthAssumption DEF Stats
  <2> HIDE DEF n
  <2>1. n % CounterMod \in 0..(CounterMod - 1)
    BY <2>0, Wraps
  <2> USE DEF n
  <2>2. stats' \in Stats /\ stats'.current_channel = task.ch
    BY <1>0, <1>2, <2>1 DEF report_channel, Stats
  <2>3. QED
    BY <1>0, <1>2, <2>2, ListUntouched
       DEF report_channel, Places, ReportedIsTuned, Gone, driverVars
<1>3. CASE driver_dead
  BY <1>0, <1>3, ListUntouched
     DEF driver_dead, Trying, Places, ReportedIsTuned, Gone, driverVars
<1>4. CASE dwell_ends
  <2>1. Succ(task.i) \in 0..(ByteMod - 1)
    BY <1>0, IndexWraps
  <2>2. /\ task' \in [at : {"gone", "while", "for", "report", "dwell", "exit"},
                      i : 0..(ByteMod - 1), ch : 0..HW_MAX]
        /\ task.at = "dwell" /\ task'.at = "for"
    BY <1>0, <1>4, <2>1 DEF dwell_ends
  <2>3. UNCHANGED <<listVars, driverVars, built, stats, task_exists, stop_requested, caller>>
    BY <1>4 DEF dwell_ends
  <2>4. Places' /\ ReportedIsTuned'
    BY <2>2, <2>3 DEF Places, ReportedIsTuned, Gone, driverVars
  <2>5. QED
    BY <1>0, <2>2, <2>3, <2>4, ListUntouched
<1>5. CASE task_disables
  <2>1. /\ task' \in [at : {"gone", "while", "for", "report", "dwell", "exit"},
                      i : 0..(ByteMod - 1), ch : 0..HW_MAX]
        /\ task.at = "while" /\ task'.at = "exit"
    BY <1>0, <1>5 DEF task_disables
  <2>2. stats' \in Stats /\ stats'.current_channel = stats.current_channel
    BY <1>0, <1>5 DEF task_disables, Stats
  <2>3. UNCHANGED <<listVars, driverVars, built, task_exists, stop_requested, caller>>
    BY <1>5 DEF task_disables
  <2>4. Places' /\ ReportedIsTuned'
    BY <2>1, <2>2, <2>3 DEF Places, ReportedIsTuned, Gone, driverVars
  <2>5. QED
    BY <1>0, <2>1, <2>2, <2>3, <2>4, ListUntouched
<1>6. CASE task_exits
  BY <1>0, <1>6, ListUntouched
     DEF task_exits, Places, ReportedIsTuned, Gone, driverVars
<1>7. QED
  BY <1>1, <1>2, <1>3, <1>4, <1>5, <1>6

\* The steps of the caller that leave the list alone.
LEMMA QuietCallerStep ==
    ASSUME HInv,
           task_created \/ creation_fails \/ start_enables \/ channel_hopper_stop
    PROVE  HInv'
<1> USE DEF HInv
<1>0. /\ stats \in Stats /\ task_exists \in BOOLEAN /\ stop_requested \in BOOLEAN
      /\ task \in [at : {"gone", "while", "for", "report", "dwell", "exit"},
                   i : 0..(ByteMod - 1), ch : 0..HW_MAX]
      /\ caller \in {"idle", "creating", "enabling"} /\ radio \in 0..HW_MAX
      /\ 0 \in 0..(ByteMod - 1) /\ 0 \in 0..HW_MAX
  BY WidthAssumption, ChannelAssumption DEF TypeOK
<1>1. CASE task_created
  BY <1>0, <1>1, ListUntouched
     DEF task_created, Places, ReportedIsTuned, Gone, driverVars
<1>2. CASE creation_fails
  BY <1>0, <1>2, ListUntouched
     DEF creation_fails, Stats, Places, ReportedIsTuned, Gone, driverVars
<1>3. CASE start_enables
  BY <1>0, <1>3, ListUntouched
     DEF start_enables, Stats, Places, ReportedIsTuned, Gone, driverVars
<1>4. CASE channel_hopper_stop
  BY <1>0, <1>4, ListUntouched
     DEF channel_hopper_stop, Places, ReportedIsTuned, Gone, driverVars
<1>5. QED
  BY <1>1, <1>2, <1>3, <1>4

\* No channel is listed twice, so one entry of each array answers for one
\* channel: the two change together or not at all.
LEMMA HealthSet ==
    ASSUME HInv, Trying, NEW n \in Byte,
           channels' = channels,
           health' = [health EXCEPT ![task.i + 1] = n],
           streak' = [streak EXCEPT ![Current] = n]
    PROVE  /\ health' \in Seq(Byte) /\ Len(health') = Len(channels')
           /\ streak' \in [Channel -> Byte]
           /\ HealthFollowsChannel'
<1>0. /\ channels \in Seq(Channel) /\ health \in Seq(Byte)
      /\ Len(health) = Len(channels) /\ Len(channels) \in Nat
      /\ streak \in [Channel -> Byte] /\ HealthFollowsChannel
  BY LenProperties DEF HInv, TypeOK, Byte
<1> DEFINE p == task.i + 1
<1>1. /\ p \in 1..Len(channels) /\ p \in 1..Len(health)
      /\ Current = channels[p] /\ Current \in Channel
  BY IndexInList
<1> HIDE DEF p
<1>2. /\ health' \in Seq(Byte) /\ Len(health') = Len(health)
      /\ \A k \in 1..Len(health) : health'[k] = IF k = p THEN n ELSE health[k]
  BY <1>0, <1>1, ExceptSeq DEF p
<1>3. /\ streak' \in [Channel -> Byte]
      /\ \A ch \in Channel : streak'[ch] = IF ch = Current THEN n ELSE streak[ch]
  BY <1>0, <1>1
<1>4. ASSUME NEW k \in 1..Len(channels)
      PROVE  health'[k] = streak'[channels[k]]
  <2>1. CASE k = p
    BY <2>1, <1>0, <1>1, <1>2, <1>3
  <2>2. CASE k # p
    <3>1. channels[k] # channels[p] /\ channels[k] \in Channel
      <4>1. channels[k] \in Channel /\ channels[p] \in Channel
        BY <1>0, <1>1, LenProperties
      <4>2. k < p => channels[k] < channels[p]
        BY <1>0, <1>1 DEF HealthFollowsChannel
      <4>3. p < k => channels[p] < channels[k]
        BY <1>0, <1>1 DEF HealthFollowsChannel
      <4>4. QED
        BY <4>1, <4>2, <4>3, <2>2, <1>0, <1>1, ChannelAssumption DEF Channel
    <3>2. health'[k] = health[k] /\ health[k] = streak[channels[k]]
      BY <2>2, <1>0, <1>2 DEF HealthFollowsChannel
    <3>3. QED
      BY <3>1, <3>2, <1>1, <1>3
  <2>3. QED
    BY <2>1, <2>2
<1>5. HealthFollowsChannel'
  BY <1>0, <1>4 DEF HealthFollowsChannel
<1>6. QED
  BY <1>0, <1>2, <1>3, <1>5

\* A task that tries a channel is in its inner loop.
LEMMA TryingPlace ==
    ASSUME HInv, Trying
    PROVE  /\ task \in [at : {"gone", "while", "for", "report", "dwell", "exit"},
                        i : 0..(ByteMod - 1), ch : 0..HW_MAX]
           /\ task.at = "for" /\ task # Gone
BY DEF HInv, TypeOK, Trying, Gone

\* The driver accepts the channel: its failure count is cleared.
LEMMA SuccessStep ==
    ASSUME HInv, set_channel_succeeds
    PROVE  HInv'
<1>0. /\ Trying /\ Current \in Channel /\ Current \in 0..HW_MAX
      /\ 0 \in Byte /\ task # Gone
      /\ task \in [at : {"gone", "while", "for", "report", "dwell", "exit"},
                   i : 0..(ByteMod - 1), ch : 0..HW_MAX]
  <2>1. Trying
    BY DEF set_channel_succeeds
  <2>2. Current \in Channel
    BY <2>1, IndexInList
  <2>3. Current \in 0..HW_MAX /\ 0 \in Byte
    BY <2>2, WidthAssumption, ChannelAssumption DEF Channel, Byte
  <2>4. QED
    BY <2>1, <2>2, <2>3, TryingPlace
<1>1. /\ channels' = channels /\ built' = built /\ regulatory' = regulatory
      /\ stats' = stats /\ caller' = caller /\ task_exists' = task_exists
      /\ stop_requested' = stop_requested /\ radio' = Current
      /\ health' = [health EXCEPT ![task.i + 1] = 0]
      /\ streak' = [streak EXCEPT ![Current] = 0]
      /\ task' = [task EXCEPT !.at = "report", !.ch = Current]
  BY DEF set_channel_succeeds
<1>2. /\ health' \in Seq(Byte) /\ Len(health') = Len(channels')
      /\ streak' \in [Channel -> Byte] /\ HealthFollowsChannel'
  BY <1>0, <1>1, HealthSet
<1>3. /\ task' \in [at : {"gone", "while", "for", "report", "dwell", "exit"},
                    i : 0..(ByteMod - 1), ch : 0..HW_MAX]
      /\ task'.at = "report" /\ task'.ch = Current
  BY <1>0, <1>1
<1>4. TypeOK'
  BY <1>0, <1>1, <1>2, <1>3 DEF HInv, TypeOK, Byte
<1>5. Places' /\ ReportedIsTuned'
  BY <1>0, <1>1, <1>3 DEF HInv, Places, ReportedIsTuned
<1>6. LegalChannelsKept'
  BY <1>1 DEF HInv, LegalChannelsKept
<1>7. QED
  BY <1>1, <1>2, <1>4, <1>5, <1>6 DEF HInv

\* A transient failure: the channel stays, its failure count grows.
LEMMA FailureStep ==
    ASSUME HInv, set_channel_fails
    PROVE  HInv'
<1>1. /\ Trying /\ channels' = channels /\ built' = built
      /\ regulatory' = regulatory /\ radio' = radio /\ stats' = stats
      /\ caller' = caller /\ task_exists' = task_exists
      /\ stop_requested' = stop_requested
      /\ task' = [task EXCEPT !.at = "dwell"]
  BY DEF set_channel_fails, driverVars
<1>2. PICK class \in Class :
          /\ Verdict(class) \in {"continue", "skip_pass"}
          /\ health' = [health EXCEPT ![task.i + 1] = Worse(class)]
          /\ streak' = [streak EXCEPT ![Current] = (streak[Current] + 1) % ByteMod]
  BY DEF set_channel_fails
<1>3. /\ task.i + 1 \in 1..Len(channels) /\ Current = channels[task.i + 1]
      /\ health[task.i + 1] \in Byte
  BY <1>1, IndexInList
<1>4. /\ Worse(class) = (health[task.i + 1] + 1) % ByteMod
      /\ health[task.i + 1] = streak[Current]
  BY <1>2, <1>3, VerdictOfClass DEF Worse, HInv, HealthFollowsChannel
<1>5. Worse(class) \in Byte
  <2>1. health[task.i + 1] + 1 \in Int /\ ByteMod \in Nat \ {0}
    BY <1>3, WidthAssumption, ChannelAssumption DEF Byte
  <2>2. QED
    BY <2>1, <1>4, Wraps DEF Byte
<1>6. streak' = [streak EXCEPT ![Current] = Worse(class)]
  BY <1>2, <1>4
<1>7. /\ health' \in Seq(Byte) /\ Len(health') = Len(channels')
      /\ streak' \in [Channel -> Byte] /\ HealthFollowsChannel'
  BY <1>1, <1>2, <1>5, <1>6, HealthSet
<1>8. /\ task \in [at : {"gone", "while", "for", "report", "dwell", "exit"},
                   i : 0..(ByteMod - 1), ch : 0..HW_MAX]
      /\ task.at = "for" /\ task # Gone
  BY <1>1, TryingPlace
<1>9. /\ task' \in [at : {"gone", "while", "for", "report", "dwell", "exit"},
                    i : 0..(ByteMod - 1), ch : 0..HW_MAX]
      /\ task'.at = "dwell"
  BY <1>1, <1>8
<1>10. TypeOK'
  BY <1>1, <1>7, <1>9 DEF HInv, TypeOK, Byte
<1>11. Places' /\ ReportedIsTuned'
  BY <1>1, <1>8, <1>9 DEF HInv, Places, ReportedIsTuned
<1>12. LegalChannelsKept'
  BY <1>1 DEF HInv, LegalChannelsKept
<1>13. QED
  BY <1>1, <1>7, <1>10, <1>11, <1>12 DEF HInv

\* The driver's domain excludes the channel: both arrays close up.
LEMMA RetireStep ==
    ASSUME HInv, set_channel_invalid
    PROVE  HInv'
<1> DEFINE p == task.i + 1
<1>1. /\ Trying /\ built' = built /\ streak' = streak
      /\ regulatory' = regulatory /\ radio' = radio /\ stats' = stats
      /\ caller' = caller /\ task_exists' = task_exists
      /\ stop_requested' = stop_requested
      /\ channels' = RemoveAt(channels, p) /\ health' = RemoveAt(health, p)
      /\ task' = [task EXCEPT !.at = "dwell", !.i = Prev(task.i)]
      /\ \E class \in Class : Verdict(class) = "retire"
  BY DEF set_channel_invalid, driverVars
<1>2. /\ p \in 1..Len(channels) /\ p \in 1..Len(health)
      /\ Current = channels[p] /\ Current \notin regulatory
  BY <1>1, IndexInList, VerdictOfClass
<1> HIDE DEF p
<1>3. /\ channels \in Seq(Channel) /\ health \in Seq(Byte)
      /\ Len(health) = Len(channels) /\ Len(channels) \in Nat
      /\ Ascending(channels)
      /\ \A i \in 1..Len(channels) : health[i] = streak[channels[i]]
  BY LenProperties DEF HInv, TypeOK, HealthFollowsChannel, Ascending, Byte
<1>4. /\ channels' \in Seq(Channel) /\ Len(channels') = Len(channels) - 1
      /\ \A k \in 1..(Len(channels) - 1) :
            channels'[k] = IF k < p THEN channels[k] ELSE channels[k + 1]
  BY <1>1, <1>2, <1>3, CloseUp
<1>5. /\ health' \in Seq(Byte) /\ Len(health') = Len(channels) - 1
      /\ \A k \in 1..(Len(channels) - 1) :
            health'[k] = IF k < p THEN health[k] ELSE health[k + 1]
  BY <1>1, <1>2, <1>3, CloseUp
<1>6. /\ Ascending(channels') /\ ToSet(channels) \ {Current} \subseteq ToSet(channels')
  BY <1>1, <1>2, <1>3, RetireOne
<1>7. HealthFollowsChannel'
  <2>1. ASSUME NEW k \in 1..Len(channels')
        PROVE  health'[k] = streak'[channels'[k]]
    <3>1. k \in 1..(Len(channels) - 1) /\ k \in 1..Len(channels) /\ k + 1 \in 1..Len(channels)
      BY <1>3, <1>4
    <3>2. QED
      BY <3>1, <1>1, <1>3, <1>4, <1>5
  <2>2. QED
    BY <2>1, <1>6 DEF HealthFollowsChannel, Ascending
<1>8. LegalChannelsKept'
  <2>1. ToSet(built) \cap regulatory \subseteq ToSet(channels)
    BY DEF HInv, LegalChannelsKept
  <2>2. ToSet(built) \cap regulatory \subseteq ToSet(channels')
    BY <2>1, <1>2, <1>6
  <2>3. QED
    BY <2>2, <1>1 DEF LegalChannelsKept
<1>9. /\ task \in [at : {"gone", "while", "for", "report", "dwell", "exit"},
                   i : 0..(ByteMod - 1), ch : 0..HW_MAX]
      /\ task.at = "for" /\ task # Gone
  BY <1>1, TryingPlace
<1>10. /\ task' \in [at : {"gone", "while", "for", "report", "dwell", "exit"},
                     i : 0..(ByteMod - 1), ch : 0..HW_MAX]
       /\ task'.at = "dwell"
  <2>1. Prev(task.i) \in 0..(ByteMod - 1)
    BY <1>9, IndexWraps
  <2>2. QED
    BY <2>1, <1>1, <1>9
<1>11. TypeOK'
  BY <1>1, <1>4, <1>5, <1>10 DEF HInv, TypeOK, Byte
<1>12. Places' /\ ReportedIsTuned'
  BY <1>1, <1>9, <1>10 DEF HInv, Places, ReportedIsTuned
<1>13. QED
  BY <1>1, <1>7, <1>8, <1>11, <1>12 DEF HInv

\* A start fills both arrays anew while no task lives.
LEMMA PrepareStep ==
    ASSUME HInv, NEW c \in Country, start_prepares(c)
    PROVE  HInv'
<1>1. /\ channels' = build_channel_list(c) /\ built' = channels'
      /\ stats' = ZeroStats /\ health' = [k \in 1..Len(channels') |-> 0]
      /\ streak' = [ch \in Channel |-> 0] /\ stop_requested' = FALSE
      /\ caller' = "creating" /\ task_exists' = task_exists /\ task' = task
      /\ regulatory' = regulatory /\ radio' = radio /\ ~task_exists
  BY DEF start_prepares, driverVars
<1>2. /\ channels' \in Seq(Channel) /\ Ascending(channels')
      /\ Len(channels') \in Nat /\ DOMAIN channels' = 1..Len(channels')
  BY <1>1, ListBuilt, LenProperties
<1>3. 0 \in Byte /\ 0 \in 0..HW_MAX /\ 0 \in 0..(CounterMod - 1)
  BY ChannelAssumption, WidthAssumption DEF Byte
<1>4. health' \in Seq(Byte) /\ Len(health') = Len(channels')
  <2>1. health' \in [1..Len(channels') -> Byte]
    BY <1>1, <1>3
  <2>2. QED
    BY <2>1, <1>2
<1>5. streak' \in [Channel -> Byte] /\ stats' \in Stats
  BY <1>1, <1>3 DEF Stats, ZeroStats
<1>6. HealthFollowsChannel'
  <2>1. ASSUME NEW k \in 1..Len(channels')
        PROVE  health'[k] = streak'[channels'[k]]
    BY <1>1, <1>2, LenProperties
  <2>2. QED
    BY <2>1, <1>2 DEF HealthFollowsChannel, Ascending
<1>7. TypeOK'
  BY <1>1, <1>2, <1>4, <1>5 DEF HInv, TypeOK, Byte
<1>8. Places' /\ ReportedIsTuned'
  BY <1>1 DEF HInv, Places, ReportedIsTuned, ZeroStats, Gone
<1>9. LegalChannelsKept'
  BY <1>1 DEF LegalChannelsKept
<1>10. QED
  BY <1>1, <1>2, <1>5, <1>6, <1>7, <1>8, <1>9 DEF HInv

\* One case for each action of the two tasks.
LEMMA HInvStep == HInv /\ [Next]_vars => HInv'
<1> SUFFICES ASSUME HInv, [Next]_vars PROVE HInv'
  OBVIOUS
<1>1. CASE \/ pass_begins \/ pass_ends \/ report_channel
           \/ driver_dead \/ dwell_ends \/ task_disables \/ task_exits
  BY <1>1, QuietTaskStep
<1>2. CASE task_created \/ creation_fails \/ start_enables \/ channel_hopper_stop
  BY <1>2, QuietCallerStep
<1>3. CASE set_channel_succeeds
  BY <1>3, SuccessStep
<1>4. CASE set_channel_fails
  BY <1>4, FailureStep
<1>5. CASE set_channel_invalid
  BY <1>5, RetireStep
<1>6. ASSUME NEW c \in Country, start_prepares(c) PROVE HInv'
  BY <1>6, PrepareStep
<1>7. CASE UNCHANGED vars
  <2>1. UNCHANGED <<listVars, driverVars, built, stats, task_exists, stop_requested,
                    task, caller>>
    BY <1>7 DEF vars, listVars, driverVars
  <2>2. Places' /\ ReportedIsTuned'
    BY <2>1 DEF HInv, Places, ReportedIsTuned, driverVars
  <2>3. QED
    BY <2>1, <2>2, ListUntouched DEF HInv, TypeOK
<1>8. QED
  BY <1>1, <1>2, <1>3, <1>4, <1>5, <1>6, <1>7 DEF Next, Task, Caller

\* The invariant in every state of every behaviour.
LEMMA HInvAlways == Spec => []HInv
BY HInvInit, HInvStep, PTL DEF Spec

-----------------------------------------------------------------------------
(* A pass leaves no channel out *)

\* The channels before the one the index is about to reach were tried in this
\* pass.  The index of a pass that retired its first channel is 255 for the
\* length of a dwell; the list is too short for an index to get there otherwise.
TriedUpTo(n) == \A k \in 1..Len(channels) : k <= n => channels[k] \in tried

PassInv ==
    /\ Len(channels) <= HW_MAX
    /\ task.at = "for" => TriedUpTo(task.i)
    /\ task.at \in {"report", "dwell"} => TriedUpTo(Succ(task.i))

\* The index on both sides of a wrap.
LEMMA IndexSteps ==
    ASSUME NEW i \in 0..(ByteMod - 1)
    PROVE  /\ i + 1 < ByteMod => Succ(i) = i + 1
           /\ Succ(Prev(i)) = i
<1>1. ByteMod \in Nat \ {0}
  BY WidthAssumption, ChannelAssumption
<1>2. ASSUME i + 1 < ByteMod PROVE Succ(i) = i + 1
  BY <1>1, <1>2 DEF Succ
<1>3. CASE i = 0
  <2>1. Prev(i) = ByteMod - 1
    BY <1>1, <1>3 DEF Prev
  <2>2. (ByteMod - 1) + 1 = ByteMod /\ ByteMod % ByteMod = 0
    BY <1>1
  <2>3. QED
    BY <2>1, <2>2, <1>2, <1>3 DEF Succ
<1>4. CASE i # 0
  <2>1. Prev(i) = i - 1
    BY <1>1, <1>4 DEF Prev
  <2>2. (i - 1) + 1 = i /\ i % ByteMod = i
    BY <1>1
  <2>3. QED
    BY <2>1, <2>2, <1>2 DEF Succ
<1>5. QED
  BY <1>2, <1>3, <1>4

\* No country table lists more channels than the hardware has.
LEMMA ListFits ==
    ASSUME NEW c \in Country
    PROVE  Len(build_channel_list(c)) <= HW_MAX
<1>1. ASSUME NEW m \in Nat \ {0}, NEW n \in Int, n <= HW_MAX
      PROVE  Len(UpTo(m, n)) <= HW_MAX
  <2> DEFINE len == IF m <= n THEN n - m + 1 ELSE 0
  <2>1. len \in Nat /\ 1..(n - m + 1) = 1..len /\ len <= HW_MAX
    BY <1>1, ChannelAssumption
  <2>2. UpTo(m, n) = [k \in 1..len |-> m + k - 1]
    BY <2>1 DEF UpTo
  <2>3. UpTo(m, n) \in [1..len -> Int]
    BY <2>1, <2>2
  <2>4. QED
    BY <2>1, <2>2, <2>3
<1>2. CASE c = NoCountry \/ ListFromCountry(c) = <<>>
  <2>1. 1 \in Nat \ {0} /\ FALLBACK_LAST \in Int /\ FALLBACK_LAST <= HW_MAX
    BY ChannelAssumption DEF Channel
  <2>2. Len(UpTo(1, FALLBACK_LAST)) <= HW_MAX
    BY <1>1, <2>1
  <2>3. QED
    BY <2>2, <1>2 DEF build_channel_list
<1>3. CASE c # NoCountry /\ ListFromCountry(c) # <<>>
  <2>1. c.schan \in Nat /\ c.nchan \in Nat
    BY <1>3, CountryAssumption
  <2>2. /\ ListFromCountry(c) = UpTo(c.schan, c.schan + c.nchan - 1)
        /\ c.schan \in Nat \ {0} /\ c.schan + c.nchan - 1 \in Int
        /\ c.schan + c.nchan - 1 <= HW_MAX
    BY <1>3, <2>1, ChannelAssumption DEF ListFromCountry
  <2>3. QED
    BY <1>1, <1>3, <2>2 DEF build_channel_list
<1>4. QED
  BY <1>2, <1>3

\* Each action keeps every channel behind the index tried.
LEMMA PassInvStep ==
    ASSUME HInv, PassInv, [Next]_vars
    PROVE  PassInv'
<1>1. /\ channels \in Seq(Channel) /\ Len(channels) \in Nat
      /\ task \in [at : {"gone", "while", "for", "report", "dwell", "exit"},
                   i : 0..(ByteMod - 1), ch : 0..HW_MAX]
      /\ HW_MAX \in Nat /\ ByteMod \in Nat /\ ByteMod > HW_MAX
      /\ caller = "creating" \/ ~task_exists => task = Gone
  BY LenProperties, WidthAssumption, ChannelAssumption DEF HInv, TypeOK, Places
<1>2. CASE pass_begins
  <2>1. /\ channels' = channels /\ task'.at = "for" /\ task'.i = 0
    BY <1>1, <1>2 DEF pass_begins, listVars
  <2>2. QED
    BY <1>1, <2>1 DEF PassInv, TriedUpTo
<1>3. CASE pass_ends \/ driver_dead
  <2>1. channels' = channels /\ tried' = tried /\ task'.at = "while"
    BY <1>1, <1>3 DEF pass_ends, driver_dead, Trying, listVars
  <2>2. QED
    BY <2>1 DEF PassInv
<1>4. CASE set_channel_succeeds \/ set_channel_fails
  <2>1. /\ Trying /\ task.at = "for" /\ task.i + 1 \in 1..Len(channels)
        /\ Current = channels[task.i + 1]
    BY <1>4, IndexInList, TryingPlace DEF set_channel_succeeds, set_channel_fails
  <2>2. /\ channels' = channels /\ tried' = tried \cup {Current}
        /\ task'.at \in {"report", "dwell"} /\ task'.i = task.i
    BY <1>1, <1>4 DEF set_channel_succeeds, set_channel_fails
  <2>3. Succ(task.i) = task.i + 1
    BY <1>1, <2>1, IndexSteps DEF PassInv
  <2>4. TriedUpTo(task.i)
    BY <2>1 DEF PassInv
  <2>5. ASSUME NEW k \in 1..Len(channels), k <= task.i + 1
        PROVE  channels[k] \in tried \cup {Current}
    BY <1>1, <2>1, <2>4, <2>5 DEF TriedUpTo
  <2>6. TriedUpTo(Succ(task.i))'
    BY <2>2, <2>3, <2>5 DEF TriedUpTo, Succ
  <2>7. QED
    BY <2>2, <2>6 DEF PassInv
<1>5. CASE set_channel_invalid
  <2>1. /\ Trying /\ task.at = "for" /\ task.i + 1 \in 1..Len(channels)
    BY <1>5, IndexInList, TryingPlace DEF set_channel_invalid
  <2>2. /\ channels' = RemoveAt(channels, task.i + 1) /\ tried' = tried
        /\ task'.at = "dwell" /\ task'.i = Prev(task.i)
    BY <1>1, <1>5 DEF set_channel_invalid
  <2>3. /\ Len(channels') = Len(channels) - 1
        /\ \A k \in 1..(Len(channels) - 1) :
              channels'[k] = IF k < task.i + 1 THEN channels[k] ELSE channels[k + 1]
    BY <1>1, <2>1, <2>2, CloseUp
  <2>4. Succ(Prev(task.i)) = task.i
    BY <1>1, IndexSteps
  <2>5. TriedUpTo(task.i)
    BY <2>1 DEF PassInv
  <2>6. ASSUME NEW k \in 1..Len(channels'), k <= task.i PROVE channels'[k] \in tried'
    BY <1>1, <2>2, <2>3, <2>5, <2>6 DEF TriedUpTo
  <2>7. TriedUpTo(Succ(task.i))'
    BY <2>2, <2>4, <2>6 DEF TriedUpTo, Succ
  <2>8. QED
    BY <1>1, <2>2, <2>3, <2>7 DEF PassInv
<1>6. CASE report_channel
  <2>1. /\ channels' = channels /\ tried' = tried /\ task.at = "report"
        /\ task'.at = "dwell" /\ task'.i = task.i
    BY <1>1, <1>6 DEF report_channel, listVars
  <2>2. QED
    BY <2>1 DEF PassInv, TriedUpTo, Succ
<1>7. CASE dwell_ends
  <2>1. /\ channels' = channels /\ tried' = tried /\ task.at = "dwell"
        /\ task'.at = "for" /\ task'.i = Succ(task.i)
    BY <1>1, <1>7 DEF dwell_ends, listVars
  <2>2. QED
    BY <2>1 DEF PassInv, TriedUpTo
<1>8. CASE task_disables \/ task_exits \/ task_created
  <2>1. channels' = channels /\ task'.at \in {"exit", "gone", "while"}
    BY <1>1, <1>8 DEF task_disables, task_exits, task_created, Gone, listVars
  <2>2. QED
    BY <2>1 DEF PassInv
<1>9. ASSUME NEW c \in Country, start_prepares(c) PROVE PassInv'
  <2>1. channels' = build_channel_list(c) /\ task' = Gone
    BY <1>1, <1>9 DEF start_prepares
  <2>2. QED
    BY <2>1, ListFits DEF PassInv, Gone
<1>10. CASE creation_fails \/ start_enables \/ channel_hopper_stop \/ UNCHANGED vars
  <2>1. channels' = channels /\ tried' = tried /\ task' = task
    BY <1>10 DEF creation_fails, start_enables, channel_hopper_stop, vars, listVars
  <2>2. QED
    BY <2>1 DEF PassInv, TriedUpTo, Succ
<1>11. QED
  BY <1>2, <1>3, <1>4, <1>5, <1>6, <1>7, <1>8, <1>9, <1>10 DEF Next, Task, Caller

-----------------------------------------------------------------------------
(* Theorems *)

\* For every country table, regulatory domain and threshold, the list, the
\* failure counts, the statistics and the places of channel_hopper.c keep
\* their types, and both arrays have the same length.
THEOREM HopperTypeCorrect == Spec => []TypeOK
<1>1. HInv => TypeOK
  BY DEF HInv
<1>2. QED
  BY <1>1, HInvAlways, PTL

\* Whatever is retired in whatever order, retire_channel_at moves each
\* failure count with its channel and keeps the list ascending.
THEOREM HealthAlwaysFollows == Spec => []HealthFollowsChannel
<1>1. HInv => HealthFollowsChannel
  BY DEF HInv
<1>2. QED
  BY <1>1, HInvAlways, PTL

\* However often the driver fails, only a channel outside its regulatory
\* domain is ever retired.
THEOREM LegalChannelsAlwaysKept == Spec => []LegalChannelsKept
<1>1. HInv => LegalChannelsKept
  BY DEF HInv
<1>2. QED
  BY <1>1, HInvAlways, PTL

\* current_channel is zero or the channel of the radio, except between the
\* driver's answer and the critical section that reports it.
THEOREM ReportAlwaysTuned == Spec => []ReportedIsTuned
<1>1. HInv => ReportedIsTuned
  BY DEF HInv
<1>2. QED
  BY <1>1, HInvAlways, PTL

\* A pass that ends without a request to stop has tried every channel that is
\* left, also when retirements moved channels under the index.
THEOREM PassAlwaysComplete == Spec => PassIsComplete
<1>1. Init => PassInv
  <2>1. Init => Len(channels) = 0 /\ task.at = "gone"
    BY DEF Init, Gone
  <2>2. QED
    BY <2>1, ChannelAssumption DEF PassInv
<1>2. HInv /\ PassInv /\ [Next]_vars =>
          [pass_ends /\ ~stop_requested => ToSet(channels) \subseteq tried]_vars
  <2> SUFFICES ASSUME HInv, PassInv, pass_ends, ~stop_requested
               PROVE  ToSet(channels) \subseteq tried
    OBVIOUS
  <2>1. task.at = "for" /\ task.i >= Len(channels)
    BY DEF pass_ends
  <2>2. /\ DOMAIN channels = 1..Len(channels) /\ Len(channels) \in Nat
        /\ task.i \in 0..(ByteMod - 1)
    BY LenProperties DEF HInv, TypeOK
  <2>3. \A k \in 1..Len(channels) : channels[k] \in tried
    BY <2>1, <2>2, WidthAssumption DEF PassInv, TriedUpTo
  <2>4. QED
    BY <2>2, <2>3 DEF ToSet
<1>3. QED
  BY <1>1, <1>2, HInvAlways, PassInvStep, PTL DEF Spec, PassIsComplete
=============================================================================
