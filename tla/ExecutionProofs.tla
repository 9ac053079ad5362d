-------------------------- MODULE ExecutionProofs --------------------------
(***************************************************************************)
(* The Rust worker's executions, proved. Of the send lanes: whatever       *)
(* settings a start accepts, a buy has a lane, and pays each it is sent    *)
(* to. The settings are decided in five places (the lanes of a mode, its   *)
(* needs, its tips, the endpoints and the checks of the start); the lemmas *)
(* relate them by the lane that leads a mode, and the inductive invariant  *)
(* says that a buy under way is what they make of the settings.            *)
(* Of the exits: they sell the amounts the plan decided at the buy. Of the *)
(* sidecar: no line its saved cursor has passed is left out of the table.  *)
(* Its inductive invariant says of every cursor, the saved one, the one in *)
(* memory and the one being saved, what it has passed, and of the batch,   *)
(* the context and the queue that they are not behind it.                  *)
(***************************************************************************)
EXTENDS MCExecution, FiniteSetTheorems, WellFoundedInduction, TLAPS

-----------------------------------------------------------------------------
(* SendLanes *)

\* What a mode cannot do without, by the table that names it.
LEMMA NeedsDomains ==
  /\ DOMAIN Lanes!BaseNeeds =
       {"mixed", "rpc_only", "jito_only", "fast", "turbo", "helius_sender_only",
        "helius_sender_max"}
  /\ DOMAIN Lanes!StackNeeds =
       {"nozomi_only", "helius_nozomi_stack", "astralane_only", "helius_astralane_stack",
        "helius_nozomi_astralane_stack", "helius_nozomi_astralane_lunar_stack"}
  /\ DOMAIN Lanes!LanderNeeds =
       {"lunar_lander_only", "helius_lunar_lander_stack", "circular_fast_only",
        "helius_circular_fast_stack", "erpc_swqos_only", "helius_erpc_swqos_stack",
        "beam_only", "helius_beam_stack", "helius_nozomi_beam_stack"}
  /\ DOMAIN Lanes!TpuNeeds =
       {"zero_slot_only", "helius_zero_slot_stack", "helius_nozomi_zero_slot_stack",
        "all_non_beam_stack", "helius_tpu_jet", "helius_tpu_quic", "tpu_jet_helius_tip",
        "tpu_quic_helius_tip", "tpu_jet_only", "tpu_quic_only"}
BY DEF Lanes!BaseNeeds, Lanes!StackNeeds, Lanes!LanderNeeds, Lanes!TpuNeeds

LEMMA NeedsOf ==
  /\ \A m \in DOMAIN Lanes!BaseNeeds : Lanes!Needs[m] = Lanes!BaseNeeds[m]
  /\ \A m \in DOMAIN Lanes!StackNeeds : Lanes!Needs[m] = Lanes!StackNeeds[m]
  /\ \A m \in DOMAIN Lanes!LanderNeeds : Lanes!Needs[m] = Lanes!LanderNeeds[m]
  /\ \A m \in DOMAIN Lanes!TpuNeeds : Lanes!Needs[m] = Lanes!TpuNeeds[m]
<1> DEFINE B == DOMAIN Lanes!BaseNeeds
           S == DOMAIN Lanes!StackNeeds
           L == DOMAIN Lanes!LanderNeeds
           T == DOMAIN Lanes!TpuNeeds
<1>1. /\ B \cap S = {} /\ B \cap L = {} /\ B \cap T = {} /\ S \cap L = {} /\ S \cap T = {}
      /\ L \cap T = {}
  BY NeedsDomains
<1>2. B \cup S \cup L \cup T \subseteq Lanes!Mode
  BY NeedsDomains DEF Lanes!Mode
<1> QED
  BY <1>1, <1>2 DEF Lanes!Needs

LEMMA NeedsEnabled == \A m \in Lanes!Mode : Lanes!Needs[m] \subseteq Lanes!Enabled
<1>1. \A m \in DOMAIN Lanes!BaseNeeds : Lanes!BaseNeeds[m] \subseteq Lanes!Enabled
  BY NeedsDomains DEF Lanes!BaseNeeds, Lanes!Enabled, Lanes!Lane
<1>2. \A m \in DOMAIN Lanes!StackNeeds : Lanes!StackNeeds[m] \subseteq Lanes!Enabled
  BY NeedsDomains DEF Lanes!StackNeeds, Lanes!Enabled, Lanes!Lane
<1>3. \A m \in DOMAIN Lanes!LanderNeeds : Lanes!LanderNeeds[m] \subseteq Lanes!Enabled
  BY NeedsDomains DEF Lanes!LanderNeeds, Lanes!Enabled, Lanes!Lane
<1>4. \A m \in DOMAIN Lanes!TpuNeeds : Lanes!TpuNeeds[m] \subseteq Lanes!Enabled
  BY NeedsDomains DEF Lanes!TpuNeeds, Lanes!Enabled, Lanes!Lane
<1>5. \A m \in Lanes!Mode :
        m \in DOMAIN Lanes!BaseNeeds \cup DOMAIN Lanes!StackNeeds
                \cup DOMAIN Lanes!LanderNeeds \cup DOMAIN Lanes!TpuNeeds
  BY NeedsDomains DEF Lanes!Mode
<1> QED
  BY <1>1, <1>2, <1>3, <1>4, <1>5, NeedsOf

\* Every setting that is tried has at most one flaw, in a part its lane has.
SettingsTyped(c) ==
  /\ c.mode \in Lanes!Mode
  /\ {c.fanout, c.fast, c.shared, c.swqos, c.dynamic} \subseteq BOOLEAN
  /\ c.low \in 0 .. 2 /\ c.multiplier \in {0, 2}
  /\ {c.fee, c.baseline, c.aggressive, c.panic, c.max} \subseteq Nat
  /\ c.flaw = Null \/ \E lane \in Lanes!Lane : \E piece \in Lanes!Parts[lane] :
       c.flaw = <<lane, piece>>

LEMMA PlainTyped == Lanes!LanesAssumption => SettingsTyped(Lanes!Plain)
BY DEF Lanes!LanesAssumption, SettingsTyped, Lanes!Plain, Lanes!Mode

LEMMA TriedTyped ==
  ASSUME Lanes!LanesAssumption, NEW c \in Lanes!Tried
  PROVE  SettingsTyped(c)
<1>1. ASSUME NEW mode \in Lanes!Mode, NEW enabled, NEW fanout \in BOOLEAN, NEW fast \in BOOLEAN
      PROVE  SettingsTyped(Lanes!Switched(mode, enabled, fanout, fast))
  BY PlainTyped DEF SettingsTyped, Lanes!Plain, Lanes!Switched
<1>2. ASSUME NEW mode \in Lanes!Mode, NEW lane \in Lanes!Lane, NEW piece \in Lanes!Parts[lane],
             NEW low \in 0 .. 2, NEW swqos \in BOOLEAN
      PROVE  SettingsTyped(Lanes!Flawed(mode, <<lane, piece>>, low, swqos))
  BY PlainTyped DEF SettingsTyped, Lanes!Plain, Lanes!Flawed
<1>3. ASSUME NEW mode \in Lanes!Mode, NEW shared \in BOOLEAN, NEW sells, NEW cap
      PROVE  SettingsTyped(Lanes!Selling(mode, shared, sells, cap))
  BY PlainTyped DEF SettingsTyped, Lanes!Plain, Lanes!Selling
<1>4. ASSUME NEW f \in Fees, NEW dynamic \in BOOLEAN, NEW b \in Fees, NEW a \in Fees,
             NEW p \in Fees, NEW m \in Fees, NEW k \in {0, 2}
      PROVE  SettingsTyped(Lanes!Priced(f, dynamic, b, a, p, m, k))
  BY PlainTyped DEF SettingsTyped, Lanes!Plain, Lanes!LanesAssumption, Lanes!Mode, Lanes!Priced
<1>5. CASE c \in Lanes!TriedModes
  BY <1>1, <1>5 DEF Lanes!TriedModes
<1>6. CASE c \in Lanes!TriedFlaws
  <2>0. PICK mode \in Lanes!Mode :
          c \in {Lanes!Flawed(mode, flaw, low, swqos) :
                   flaw \in Lanes!Flaws(mode), low \in 0 .. 2, swqos \in BOOLEAN}
    BY <1>6 DEF Lanes!TriedFlaws
  <2>1. PICK flaw \in Lanes!Flaws(mode), low \in 0 .. 2, swqos \in BOOLEAN :
          c = Lanes!Flawed(mode, flaw, low, swqos)
    BY <2>0
  <2>2. flaw = <<flaw[1], flaw[2]>> /\ flaw[1] \in Lanes!Named(mode) \cup {"rpc", "jito"}
          /\ flaw[2] \in Lanes!Parts[flaw[1]]
    BY <2>1 DEF Lanes!Flaws
  <2>3. flaw[1] \in Lanes!Lane
    BY <2>2, NeedsEnabled DEF Lanes!Named, Lanes!Lane, Lanes!Enabled
  <2> QED
    BY <1>2, <2>1, <2>2, <2>3
<1>7. CASE c \in Lanes!TriedSells
  BY <1>3, <1>7 DEF Lanes!TriedSells
<1>8. CASE c \in Lanes!TriedFees
  BY <1>4, <1>8 DEF Lanes!TriedFees
<1> QED
  BY <1>5, <1>6, <1>7, <1>8 DEF Lanes!Tried

LEMMA NoFlaw ==
  ASSUME Lanes!LanesAssumption, NEW c, SettingsTyped(c), NEW lane \in Lanes!Lane,
         NEW piece \in Lanes!Part \ Lanes!Parts[lane]
  PROVE  c.flaw # <<lane, piece>>
BY DEF Lanes!LanesAssumption, SettingsTyped

\* A lane that is switched on has a tip its endpoint takes.
LEMMA LaneTips ==
  ASSUME Lanes!LanesAssumption, NEW c \in Lanes!Tried, Lanes!Accepted(c),
         NEW lane \in (Lanes!Tipped \ {"jito"}) \cap c.enabled
  PROVE  Lanes!Tip(c, lane) >= Lanes!Demands(c, lane) /\ Lanes!Demands(c, lane) \in 1 .. 3
<1>1. Lanes!ValidLanes(c)
  BY DEF Lanes!Accepted
<1>2. c.low \in 0 .. 2
  BY TriedTyped DEF SettingsTyped
<1>3. Lanes!Tip(c, lane) \in 0 .. 3
  BY <1>2 DEF Lanes!Tip
<1>4. CASE lane = "helius"
  <2>1. Lanes!Tip(c, "helius") >= Lanes!HeliusMinTip(c)
    BY <1>1, <1>4 DEF Lanes!ValidLanes, Lanes!ValidHelius
  <2>2. Lanes!HeliusMinTip(c) \in 1 .. 3
    BY DEF Lanes!HeliusMinTip
  <2> QED
    BY <1>4, <2>1, <2>2 DEF Lanes!Demands
<1>5. CASE lane # "helius"
  <2>1. Lanes!Demands(c, lane) = 3
    BY <1>5 DEF Lanes!Demands
  <2>2. lane \in {"nozomi", "astralane", "lunar", "circular", "beam", "zero"}
    BY <1>5 DEF Lanes!Tipped, Lanes!Lane
  <2>3. Lanes!Tip(c, lane) >= 3
    BY <1>1, <2>2 DEF Lanes!ValidLanes, Lanes!ValidNozomi, Lanes!ValidAstralane,
       Lanes!ValidLunar, Lanes!ValidCircular,
                      Lanes!ValidBeam, Lanes!ValidZero
  <2> QED
    BY <2>1, <2>3
<1> QED
  BY <1>4, <1>5

\* The lanes of a buy are configured.
LEMMA BuyLanesReady ==
  ASSUME NEW c, NEW lane \in Lanes!BuyLanes(c)
  PROVE  lane \in Lanes!Lane /\ Lanes!Ready(c, lane)
BY DEF Lanes!BuyLanes, Lanes!RpcLanes, Lanes!FanoutLanes, Lanes!OnlyLane, Lanes!Lane,
   Lanes!Enabled

LEMMA BuyTipsTyped ==
  ASSUME Lanes!LanesAssumption, NEW c \in Lanes!Tried
  PROVE  Lanes!BuyTips(c) \in [Lanes!Tipped -> 0 .. 3]
<1>1. c.low \in 0 .. 2
  BY TriedTyped DEF SettingsTyped
<1>2. \A lane : Lanes!Tip(c, lane) \in 0 .. 3
  BY <1>1 DEF Lanes!Tip
<1> QED
  BY <1>2 DEF Lanes!BuyTips

LEMMA Largest ==
  ASSUME NEW S \in SUBSET (0 .. 3), S # {}
  PROVE  Lanes!Max(S) \in S /\ \A y \in S : Lanes!Max(S) >= y
<1>1. \E x \in S : \A y \in S : x >= y
  <2>1. \A y \in S : y \in Nat /\ y \in {0, 1, 2, 3}
    OBVIOUS
  <2>2. CASE 3 \in S
    <3>1. \A y \in S : 3 >= y
      BY <2>1
    <3> QED
      BY <2>2, <3>1
  <2>3. CASE 3 \notin S /\ 2 \in S
    <3>1. \A y \in S : 2 >= y
      BY <2>1, <2>3
    <3> QED
      BY <2>3, <3>1
  <2>4. CASE 3 \notin S /\ 2 \notin S /\ 1 \in S
    <3>1. \A y \in S : 1 >= y
      BY <2>1, <2>4
    <3> QED
      BY <2>4, <3>1
  <2>5. CASE 3 \notin S /\ 2 \notin S /\ 1 \notin S
    <3>1. \A y \in S : y = 0
      BY <2>1, <2>5
    <3>2. PICK x \in S : TRUE
      OBVIOUS
    <3>3. x = 0
      BY <3>1
    <3>4. 0 \in S
      BY <3>3
    <3>5. \A y \in S : 0 >= y
      BY <3>1
    <3> QED
      BY <3>4, <3>5
  <2> QED
    BY <2>2, <2>3, <2>4, <2>5
<1> QED
  BY <1>1 DEF Lanes!Max

\* Tips to one account become one transfer that is large enough for each.
LEMMA TransfersPay ==
  ASSUME NEW c, NEW tips \in [Lanes!Tipped -> 0 .. 3], NEW lane \in Lanes!Tipped, tips[lane] > 0
  PROVE  /\ Lanes!Account(c, lane) \in DOMAIN Lanes!Transfers(c, tips)
         /\ Lanes!Transfers(c, tips)[Lanes!Account(c, lane)] \in 0 .. 3
         /\ Lanes!Transfers(c, tips)[Lanes!Account(c, lane)] >= tips[lane]
<1> DEFINE a == Lanes!Account(c, lane)
           paid == {tips[l] : l \in {x \in Lanes!Tipped : Lanes!Account(c, x) = a}}
<1>1. a \in {Lanes!Account(c, l) : l \in {x \in Lanes!Tipped : tips[x] > 0}}
  OBVIOUS
<1>2. Lanes!Transfers(c, tips)[a] = Lanes!Max(paid) /\ a \in DOMAIN Lanes!Transfers(c, tips)
  BY <1>1 DEF Lanes!Transfers
<1>3. paid \subseteq 0 .. 3 /\ tips[lane] \in paid
  OBVIOUS
<1>4. Lanes!Max(paid) \in paid /\ \A y \in paid : Lanes!Max(paid) >= y
  BY <1>3, Largest
<1> QED
  BY <1>2, <1>3, <1>4

\* A buy pays each of its lanes.
LEMMA BuyTipsPay ==
  ASSUME Lanes!LanesAssumption, NEW c \in Lanes!Tried, Lanes!Accepted(c),
         NEW lane \in (Lanes!BuyLanes(c) \cap Lanes!Tipped) \ {"jito"}
  PROVE  /\ Lanes!Account(c, lane) \in DOMAIN Lanes!Transfers(c, Lanes!BuyTips(c))
         /\ Lanes!Transfers(c, Lanes!BuyTips(c))[Lanes!Account(c, lane)] >= Lanes!Demands(c,
              lane)
<1>1. lane \in Lanes!Tipped /\ lane \in c.enabled /\ c.mode \in Lanes!UsesLane[lane]
  BY BuyLanesReady DEF Lanes!Ready, Lanes!Tipped
<1>2. c.mode \in Lanes!UsesTip[lane]
  BY <1>1 DEF Lanes!UsesTip
<1>3. Lanes!Tip(c, lane) >= Lanes!Demands(c, lane) /\ Lanes!Demands(c, lane) \in 1 .. 3
  BY <1>1, LaneTips
<1>4. Lanes!BuyTips(c)[lane] = Lanes!Tip(c, lane)
  BY <1>1, <1>2 DEF Lanes!BuyTips
<1>5. Lanes!BuyTips(c) \in [Lanes!Tipped -> 0 .. 3]
  BY BuyTipsTyped
<1>6. Lanes!BuyTips(c)[lane] \in 0 .. 3
  BY <1>1, <1>5
<1>7. Lanes!BuyTips(c)[lane] > 0
  BY <1>3, <1>4, <1>6
<1>8. /\ Lanes!Account(c, lane) \in DOMAIN Lanes!Transfers(c, Lanes!BuyTips(c))
      /\ Lanes!Transfers(c, Lanes!BuyTips(c))[Lanes!Account(c, lane)] \in 0 .. 3
      /\ Lanes!Transfers(c, Lanes!BuyTips(c))[Lanes!Account(c, lane)] >= Lanes!BuyTips(c)[lane]
  BY <1>1, <1>5, <1>7, TransfersPay
<1> QED
  BY <1>3, <1>4, <1>6, <1>8

\* What a mode is accepted with lets it send: the lane of a mode that has one, or the
\* first of a stack.
Leads ==
  [lane \in Lanes!Lane |->
     CASE lane = "rpc" -> {"rpc_only"}
       [] lane = "jito" -> {"jito_only"}
       [] lane = "helius" -> Lanes!UsesLane["helius"] \ {"mixed"}
       [] lane = "nozomi" -> {"nozomi_only"}
       [] lane = "astralane" -> {"astralane_only"}
       [] lane = "lunar" -> {"lunar_lander_only"}
       [] lane = "circular" -> {"circular_fast_only"}
       [] lane = "erpc" -> {"erpc_swqos_only"}
       [] lane = "beam" -> {"beam_only"}
       [] lane = "zero" -> {"zero_slot_only"}
       [] lane = "jet" -> {"tpu_jet_only", "tpu_jet_helius_tip"}
       [] lane = "quic" -> {"tpu_quic_only", "tpu_quic_helius_tip"}]

LEMMA EveryModeLed ==
  \A m \in Lanes!Mode \ {"mixed"} : \E lane \in Lanes!Lane : m \in Leads[lane]
<1>1. /\ "rpc_only" \in Leads["rpc"] /\ "jito_only" \in Leads["jito"]
      /\ "nozomi_only" \in Leads["nozomi"] /\ "astralane_only" \in Leads["astralane"]
      /\ "lunar_lander_only" \in Leads["lunar"] /\ "circular_fast_only" \in Leads["circular"]
      /\ "erpc_swqos_only" \in Leads["erpc"] /\ "beam_only" \in Leads["beam"]
      /\ "zero_slot_only" \in Leads["zero"]
      /\ {"tpu_jet_only", "tpu_jet_helius_tip"} \subseteq Leads["jet"]
      /\ {"tpu_quic_only", "tpu_quic_helius_tip"} \subseteq Leads["quic"]
  BY DEF Leads, Lanes!Lane
<1>2. Lanes!UsesLane["helius"] \ {"mixed"} \subseteq Leads["helius"]
  BY DEF Leads, Lanes!Lane
<1>3. {"rpc", "jito", "helius", "nozomi", "astralane", "lunar", "circular", "erpc", "beam",
        "zero",
       "jet", "quic"} \subseteq Lanes!Lane
  BY DEF Lanes!Lane
<1>4. \A m \in Lanes!Mode \ {"mixed"} :
        \/ m \in Lanes!UsesLane["helius"] \ {"mixed"}
        \/ m \in {"rpc_only", "jito_only", "nozomi_only", "astralane_only", "lunar_lander_only",
                  "circular_fast_only", "erpc_swqos_only", "beam_only", "zero_slot_only",
                  "tpu_jet_only", "tpu_jet_helius_tip", "tpu_quic_only", "tpu_quic_helius_tip"}
  BY DEF Lanes!UsesLane
<1> QED
  BY <1>1, <1>2, <1>3, <1>4

\* A leading lane is used, and needed unless it has no switch; without fanout a mode has one
\* lane.
LEMMA LeadsUse ==
  ASSUME NEW lane \in Lanes!Lane, NEW m \in Leads[lane]
  PROVE  /\ m \in Lanes!Mode /\ m \in Lanes!UsesLane[lane]
         /\ lane \in Lanes!Enabled => lane \in Lanes!Needs[m]
         /\ m \in Lanes!Single => lane \in Lanes!Enabled \cup {"rpc"}
         /\ lane = "rpc" => m = "rpc_only"
         /\ lane = "jito" => m = "jito_only"
<1>1. CASE lane \notin {"helius", "rpc", "jito"}
  BY <1>1, NeedsOf, NeedsDomains DEF Leads, Lanes!Lane, Lanes!Enabled, Lanes!UsesLane,
     Lanes!Mode, Lanes!Single, Lanes!BaseNeeds, Lanes!StackNeeds,
     Lanes!LanderNeeds, Lanes!TpuNeeds
<1>2. CASE lane \in {"rpc", "jito"}
  BY <1>2 DEF Leads, Lanes!UsesLane, Lanes!Mode, Lanes!Single, Lanes!Enabled, Lanes!Lane
<1>3. CASE lane = "helius"
  <2>1. m \in Lanes!UsesLane["helius"] /\ m # "mixed"
    BY <1>3 DEF Leads, Lanes!Lane
  <2>2. m \in Lanes!Mode
    BY <2>1 DEF Lanes!UsesLane
  <2>3. m \in DOMAIN Lanes!BaseNeeds => "helius" \in Lanes!BaseNeeds[m]
    BY <2>1, NeedsDomains DEF Lanes!BaseNeeds, Lanes!UsesLane
  <2>4. m \in DOMAIN Lanes!StackNeeds => "helius" \in Lanes!StackNeeds[m]
    BY <2>1, NeedsDomains DEF Lanes!StackNeeds, Lanes!UsesLane
  <2>5. m \in DOMAIN Lanes!LanderNeeds => "helius" \in Lanes!LanderNeeds[m]
    BY <2>1, NeedsDomains DEF Lanes!LanderNeeds, Lanes!UsesLane
  <2>6. m \in DOMAIN Lanes!TpuNeeds => "helius" \in Lanes!TpuNeeds[m]
    BY <2>1, NeedsDomains DEF Lanes!TpuNeeds, Lanes!UsesLane
  <2>7. m \in DOMAIN Lanes!BaseNeeds \cup DOMAIN Lanes!StackNeeds
                \cup DOMAIN Lanes!LanderNeeds \cup DOMAIN Lanes!TpuNeeds
    BY <2>2, NeedsDomains DEF Lanes!Mode
  <2>8. "helius" \in Lanes!Needs[m]
    BY <2>3, <2>4, <2>5, <2>6, <2>7, NeedsOf
  <2>9. lane \in Lanes!Enabled
    BY <1>3 DEF Lanes!Enabled, Lanes!Lane
  <2> QED
    BY <1>3, <2>1, <2>2, <2>8, <2>9
<1> QED
  BY <1>1, <1>2, <1>3

\* A lane that may be switched on has the parts it needs.
LEMMA LaneWhole ==
  ASSUME Lanes!LanesAssumption, NEW c \in Lanes!Tried, Lanes!Accepted(c),
         NEW lane \in Lanes!Lane, c.mode \in Leads[lane]
  PROVE  Lanes!Has(c, lane, {"urls", "key", "mode"})
           /\ (lane \in Lanes!Enabled => lane \in c.enabled)
<1>1. SettingsTyped(c) /\ c.mode \in Lanes!Mode
  BY TriedTyped DEF SettingsTyped
<1>2. lane \in Lanes!Enabled => lane \in c.enabled
  BY LeadsUse DEF Lanes!Accepted, Lanes!ValidMode
<1>3. c.flaw # <<lane, "urls">>
  <2>1. CASE lane = "rpc"
    BY <2>1, LeadsUse DEF Lanes!Accepted, Lanes!ValidMode, Lanes!Has
  <2>2. CASE lane = "jito"
    BY <2>2, LeadsUse DEF Lanes!Accepted, Lanes!ValidMode, Lanes!Has
  <2>3. CASE lane \in Lanes!Enabled
    <3>1. lane \in {"helius", "nozomi", "astralane", "lunar", "circular", "erpc", "beam",
            "zero",
                    "jet", "quic"}
      BY <2>3 DEF Lanes!Enabled, Lanes!Lane
    <3>2. Lanes!ValidLanes(c) /\ lane \in c.enabled
      BY <1>2, <2>3 DEF Lanes!Accepted
    <3> QED
      BY <3>1, <3>2 DEF Lanes!ValidLanes, Lanes!ValidHelius, Lanes!ValidNozomi,
         Lanes!ValidAstralane, Lanes!ValidLunar,
        Lanes!ValidCircular, Lanes!ValidErpc, Lanes!ValidBeam, Lanes!ValidZero, Lanes!ValidQuic,
        Lanes!ValidJet, Lanes!Has
  <2> QED
    BY <2>1, <2>2, <2>3 DEF Lanes!Enabled
<1>4. c.flaw # <<lane, "key">>
  <2>1. CASE lane \in {"astralane", "lunar", "circular", "beam", "zero"}
    <3>1. Lanes!ValidLanes(c) /\ lane \in c.enabled
      BY <1>2, <2>1 DEF Lanes!Accepted, Lanes!Enabled, Lanes!Lane
    <3> QED
      BY <2>1, <3>1 DEF Lanes!ValidLanes, Lanes!ValidAstralane, Lanes!ValidLunar,
         Lanes!ValidCircular, Lanes!ValidBeam,
        Lanes!ValidZero, Lanes!Has
  <2>2. CASE lane \notin {"astralane", "lunar", "circular", "beam", "zero"}
    <3>1. "key" \in Lanes!Part \ Lanes!Parts[lane]
      BY <2>2 DEF Lanes!Part, Lanes!Parts
    <3> QED
      BY <1>1, <3>1, NoFlaw
  <2> QED
    BY <2>1, <2>2
<1>5. c.flaw # <<lane, "mode">>
  <2>1. CASE lane = "beam"
    <3>1. Lanes!ValidLanes(c) /\ lane \in c.enabled
      BY <1>2, <2>1 DEF Lanes!Accepted, Lanes!Enabled, Lanes!Lane
    <3> QED
      BY <2>1, <3>1 DEF Lanes!ValidLanes, Lanes!ValidBeam, Lanes!Has
  <2>2. CASE lane # "beam"
    <3>1. "mode" \in Lanes!Part \ Lanes!Parts[lane]
      BY <2>2 DEF Lanes!Part, Lanes!Parts
    <3> QED
      BY <1>1, <3>1, NoFlaw
  <2> QED
    BY <2>1, <2>2
<1> QED
  BY <1>2, <1>3, <1>4, <1>5 DEF Lanes!Has

\* In every mode but mixed a buy has a lane.
LEMMA Served ==
  ASSUME Lanes!LanesAssumption, NEW c \in Lanes!Tried, Lanes!Accepted(c), c.mode # "mixed"
  PROVE  Lanes!BuyLanes(c) # {}
<1>1. c.mode \in Lanes!Mode /\ c.fanout \in BOOLEAN
  BY TriedTyped DEF SettingsTyped
<1>2. PICK lane \in Lanes!Lane : c.mode \in Leads[lane]
  BY <1>1, EveryModeLed
<1>3. c.mode \in Lanes!UsesLane[lane]
  BY <1>2, LeadsUse
<1>4. Lanes!Has(c, lane, {"urls", "key", "mode"})
        /\ (lane \in Lanes!Enabled => lane \in c.enabled)
  BY <1>2, LaneWhole
<1>5. Lanes!Ready(c, lane)
  BY <1>3, <1>4 DEF Lanes!Ready, Lanes!Enabled
<1>6. CASE lane = "rpc"
  BY <1>5, <1>6 DEF Lanes!BuyLanes, Lanes!RpcLanes
<1>7. CASE lane # "rpc" /\ c.fanout
  BY <1>5, <1>7 DEF Lanes!BuyLanes, Lanes!FanoutLanes
<1>8. CASE lane # "rpc" /\ ~ c.fanout
  <2>1. c.mode \in Lanes!Single
    BY <1>8 DEF Lanes!Accepted, Lanes!ValidMode
  <2>2. lane \in Lanes!Enabled
    BY <1>2, <1>8, <2>1, LeadsUse
  <2>3. lane # "helius"
    BY <1>4, <1>8, <2>2 DEF Lanes!Accepted, Lanes!ValidLanes, Lanes!ValidHelius
  <2> QED
    BY <1>5, <1>8, <2>1, <2>2, <2>3 DEF Lanes!BuyLanes, Lanes!OnlyLane
<1> QED
  BY <1>6, <1>7, <1>8

LEMMA Larger ==
  ASSUME NEW x \in Nat, NEW y \in Nat
  PROVE  Lanes!Max({x, y}) = IF x >= y THEN x ELSE y
BY DEF Lanes!Max

LEMMA CappedTyped ==
  ASSUME NEW x \in Nat, NEW maximum \in Nat
  PROVE  /\ Lanes!Capped(x, maximum) \in Nat
         /\ x > 0 => Lanes!Capped(x, maximum) > 0
         /\ maximum > 0 => Lanes!Capped(x, maximum) <= maximum
BY DEF Lanes!Capped

LEMMA OrTyped ==
  ASSUME NEW x \in Nat, NEW y \in Nat
  PROVE  /\ Lanes!Or(x, y) \in Nat
         /\ y > 0 => Lanes!Or(x, y) > 0
         /\ x > 0 => Lanes!Or(x, y) = x
BY DEF Lanes!Or

\* Whatever a source paid and the accounts ask, the priority fee of a buy stays under the
\* configured maximum, and is one if the settings name one.
LEMMA FeeBounds ==
  ASSUME Lanes!LanesAssumption, NEW c \in Lanes!Tried,
         NEW early \in BOOLEAN, NEW source \in Fees, NEW accounts \in Fees
  PROVE  LET f == Lanes!AccountFee(c, Lanes!SelectedFee(c, early, source), accounts)
         IN /\ f \in Nat
            /\ c.max > 0 => f <= c.max
            /\ c.fee > 0 => f > 0
<1> DEFINE wanted == CASE c.dynamic /\ early -> Lanes!Aggressive(c)
                      [] c.dynamic /\ ~ early -> Lanes!Baseline(c)
                      [] OTHER -> c.fee
           raised == Lanes!Max({wanted, c.multiplier * source})
           selected == Lanes!SelectedFee(c, early, source)
           cap == Lanes!Capped(accounts, Lanes!MaxFee(c))
<1>1. /\ c.dynamic \in BOOLEAN /\ c.multiplier \in Nat
      /\ c.fee \in Nat /\ c.baseline \in Nat /\ c.aggressive \in Nat /\ c.panic \in Nat
      /\ c.max \in Nat
  BY TriedTyped DEF SettingsTyped
<1>2. source \in Nat /\ accounts \in Nat
  BY DEF Lanes!LanesAssumption
<1>3. Lanes!Baseline(c) \in Nat /\ (c.fee > 0 => Lanes!Baseline(c) > 0)
  BY <1>1, OrTyped DEF Lanes!Baseline
<1>4. 2 * Lanes!Baseline(c) \in Nat /\ (c.fee > 0 => 2 * Lanes!Baseline(c) > 0)
  BY <1>3
<1>5. Lanes!Aggressive(c) \in Nat /\ (c.fee > 0 => Lanes!Aggressive(c) > 0)
  BY <1>1, <1>4, OrTyped DEF Lanes!Aggressive
<1>6. Lanes!MaxFee(c) \in Nat /\ (c.max > 0 => Lanes!MaxFee(c) = c.max)
  BY <1>1, <1>5, OrTyped DEF Lanes!MaxFee
<1>7. wanted \in Nat /\ (c.fee > 0 => wanted > 0)
  BY <1>1, <1>3, <1>5
<1>8. c.multiplier * source \in Nat
  BY <1>1, <1>2
<1>9. raised \in Nat /\ (c.fee > 0 => raised > 0)
  <2> HIDE DEF wanted
  <2> QED
    BY <1>7, <1>8, Larger
<1>10. selected = Lanes!Capped(raised, Lanes!MaxFee(c))
  BY DEF Lanes!SelectedFee
<1>11. /\ selected \in Nat /\ (c.fee > 0 => selected > 0)
       /\ c.max > 0 => selected <= c.max
  <2> HIDE DEF raised, selected
  <2> QED
    BY <1>6, <1>9, <1>10, CappedTyped
<1>12. cap \in Nat /\ (c.max > 0 => cap <= c.max)
  BY <1>2, <1>6, CappedTyped
<1>13. Lanes!AccountFee(c, selected, accounts) = Lanes!Max({selected, cap})
  BY DEF Lanes!AccountFee
<1> HIDE DEF selected, cap
<1>14. Lanes!Max({selected, cap}) = IF selected >= cap THEN selected ELSE cap
  BY <1>11, <1>12, Larger
<1>15. /\ Lanes!AccountFee(c, selected, accounts) \in Nat
       /\ c.max > 0 => Lanes!AccountFee(c, selected, accounts) <= c.max
       /\ c.fee > 0 => Lanes!AccountFee(c, selected, accounts) > 0
  BY <1>1, <1>11, <1>12, <1>13, <1>14
<1> QED
  BY <1>15 DEF selected

\* The lanes that ask for a priority fee are on only if the settings name one.
LEMMA FeeNamed ==
  ASSUME NEW c, Lanes!Accepted(c),
         NEW lane \in Lanes!BuyLanes(c) \cap {"helius", "nozomi", "astralane", "circular"}
  PROVE  c.fee > 0
<1>1. lane \in c.enabled
  BY BuyLanesReady DEF Lanes!Ready
<1> QED
  BY <1>1 DEF Lanes!Accepted, Lanes!ValidLanes, Lanes!ValidHelius, Lanes!ValidNozomi,
     Lanes!ValidAstralane, Lanes!ValidCircular

-----------------------------------------------------------------------------
LEMMA Distinct ==
  ASSUME Lanes!LanesAssumption
  PROVE  /\ \A c \in Lanes!Tried : c # Null
         /\ Lanes!Failed # Null /\ Lanes!Failed.signature = "error"
         /\ \A s \in {"own", "none"}, w \in Lanes!Lane \cup {"none"} :
              /\ [signature |-> s, winner |-> w] # Null
              /\ [signature |-> s, winner |-> w].signature = s
BY DEF Lanes!LanesAssumption, Lanes!Result, Lanes!Failed

LEMMA LanesInitially == Lanes!LanesAssumption /\ Lanes!Init => Lanes!LanesInv
BY DEF Lanes!Init, Lanes!LanesInv

LEMMA StartKeeps == Lanes!LanesAssumption /\ Lanes!LanesInv /\ Lanes!Start => Lanes!LanesInv'
BY DEF Lanes!LanesInv, Lanes!Start

LEMMA SellKeeps == Lanes!LanesAssumption /\ Lanes!LanesInv /\ Lanes!Sell => Lanes!LanesInv'
BY DEF Lanes!LanesInv, Lanes!Sell, Lanes!Dispatch

LEMMA AttributedKeeps == Lanes!LanesAssumption /\ Lanes!LanesInv /\ Lanes!Attributed =>
                           Lanes!LanesInv'
BY DEF Lanes!LanesInv, Lanes!Attributed

LEMMA BuyKeeps == ASSUME Lanes!LanesAssumption, Lanes!LanesInv, Lanes!Buy PROVE Lanes!LanesInv'
<1>1. /\ config \in Lanes!Tried /\ Lanes!Accepted(config) /\ config' = config /\ config # Null
  BY DEF Lanes!LanesInv, Lanes!Buy
<1>2. Lanes!Sent' = Lanes!BuyLanes(config)
  BY DEF Lanes!Buy, Lanes!Dispatch, Lanes!Sent
<1>3. transfers' = Lanes!Transfers(config, Lanes!BuyTips(config))
  BY DEF Lanes!Buy
<1>4. \E early \in BOOLEAN, source \in Fees, accounts \in Fees :
        fee' = Lanes!AccountFee(config, Lanes!SelectedFee(config, early, source), accounts)
  BY DEF Lanes!Buy
<1>5. DOMAIN outcome' = {}
  BY DEF Lanes!Buy, Lanes!Dispatch
<1>6. result' # Null => result'.signature = "error" /\ left' = {} /\ Lanes!Sent' = {}
  BY <1>5, Distinct DEF Lanes!Buy, Lanes!Dispatch, Lanes!Sent
<1>7. Lanes!BuyInv'
  BY <1>1, <1>2, <1>3, <1>4, <1>5, <1>6 DEF Lanes!BuyInv
<1> QED
  BY <1>1, <1>7 DEF Lanes!LanesInv

LEMMA AnswerKeeps ==
  ASSUME Lanes!LanesAssumption, Lanes!LanesInv, NEW lane \in Lanes!Lane, Lanes!Answer(lane)
  PROVE  Lanes!LanesInv'
<1>1. /\ config' = config /\ role' = role /\ fee' = fee /\ transfers' = transfers
      /\ lane \in left /\ left' = left \ {lane}
  BY DEF Lanes!Answer
<1>2. CASE role # "buy"
  BY <1>1, <1>2 DEF Lanes!LanesInv
<1>3. CASE role = "buy"
  <2>1. Lanes!BuyInv
    BY <1>3 DEF Lanes!LanesInv
  <2>2. PICK end \in Lanes!Ends(lane) :
          /\ outcome' = Lanes!Answered(lane, end)
          /\ result' =
               CASE result = Null /\ end = "acked" -> [signature |-> "own", winner |-> lane]
                 [] result = Null /\ end # "acked" /\ left' = {} ->
                      IF \E l \in DOMAIN outcome' : outcome'[l] = "dispatched"
                      THEN [signature |-> Lanes!Known, winner |-> "none"] ELSE Lanes!Failed
                 [] OTHER -> result
    BY DEF Lanes!Answer
  <2>3. end \in {"acked", "dispatched", "failed"}
    BY <2>2 DEF Lanes!Ends, Lanes!RpcEnds, Lanes!NozomiEnds, Lanes!CircularEnds,
       Lanes!AstralaneEnds, Lanes!LunarEnds, Lanes!JetEnds,
                Lanes!QuicEnds
  <2>4. /\ DOMAIN outcome' = DOMAIN outcome \cup {lane}
        /\ outcome'[lane] = end
        /\ \A l \in DOMAIN outcome \ {lane} : outcome'[l] = outcome[l]
    BY <2>2 DEF Lanes!Answered
  <2>5. Lanes!Sent' = Lanes!Sent
    BY <1>1, <2>4 DEF Lanes!Sent
  <2>6. CASE result # Null
    <3>1. result' = result
      BY <2>2, <2>6
    <3>2. result.signature = "own"
      BY <1>1, <2>1, <2>6 DEF Lanes!BuyInv
    <3>3. Lanes!BuyInv'
      BY <1>1, <2>1, <2>5, <2>6, <3>1, <3>2 DEF Lanes!BuyInv
    <3> QED
      BY <1>1, <3>3 DEF Lanes!LanesInv
  <2>7. CASE result = Null
    <3>1. \A l \in DOMAIN outcome : outcome[l] \in {"dispatched", "failed"}
      BY <2>1, <2>7 DEF Lanes!BuyInv
    <3>2. end # "acked" => \A l \in DOMAIN outcome' : outcome'[l] \in {"dispatched", "failed"}
      BY <2>3, <2>4, <3>1
    <3>3. CASE end = "acked"
      <4>1. result' = [signature |-> "own", winner |-> lane]
        BY <2>2, <2>7, <3>3
      <4>2. result' # Null /\ result'.signature = "own"
        BY <4>1, Distinct
      <4>3. Lanes!BuyInv'
        BY <1>1, <2>1, <2>5, <4>2 DEF Lanes!BuyInv
      <4> QED
        BY <1>1, <4>3 DEF Lanes!LanesInv
    <3>4. CASE end # "acked" /\ left' # {}
      <4>1. result' = Null
        BY <2>2, <2>7, <3>4
      <4>2. Lanes!BuyInv'
        BY <1>1, <2>1, <2>5, <3>2, <3>4, <4>1 DEF Lanes!BuyInv
      <4> QED
        BY <1>1, <4>2 DEF Lanes!LanesInv
    <3>5. CASE end # "acked" /\ left' = {} /\ \E l \in DOMAIN outcome' :
                 outcome'[l] = "dispatched"
      <4>1. result' = [signature |-> "own", winner |-> "none"]
        BY <1>3, <2>2, <2>7, <3>5 DEF Lanes!Known
      <4>2. result' # Null /\ result'.signature = "own"
        BY <4>1, Distinct
      <4>3. Lanes!BuyInv'
        BY <1>1, <2>1, <2>5, <4>2 DEF Lanes!BuyInv
      <4> QED
        BY <1>1, <4>3 DEF Lanes!LanesInv
    <3>6. CASE /\ end # "acked" /\ left' = {}
               /\ ~ \E l \in DOMAIN outcome' : outcome'[l] = "dispatched"
      <4>1. result' = Lanes!Failed
        BY <2>2, <2>7, <3>6
      <4>2. result' # Null /\ result'.signature = "error"
        BY <4>1, Distinct
      <4>3. \A l \in Lanes!Sent' : outcome'[l] = "failed"
        BY <3>2, <3>6 DEF Lanes!Sent
      <4>4. Lanes!BuyInv'
        BY <1>1, <2>1, <2>5, <3>6, <4>2, <4>3 DEF Lanes!BuyInv
      <4> QED
        BY <1>1, <4>4 DEF Lanes!LanesInv
    <3> QED
      BY <3>3, <3>4, <3>5, <3>6
  <2> QED
    BY <2>6, <2>7
<1> QED
  BY <1>2, <1>3

LEMMA LanesInvariance == Lanes!LanesAssumption /\ Lanes!LanesInv /\ [Lanes!Next]_(Lanes!vars) =>
                           Lanes!LanesInv'
<1> SUFFICES ASSUME Lanes!LanesAssumption, Lanes!LanesInv, [Lanes!Next]_(Lanes!vars)
             PROVE  Lanes!LanesInv'
  OBVIOUS
<1>1. CASE UNCHANGED Lanes!vars
  BY <1>1 DEF Lanes!vars, Lanes!LanesInv, Lanes!BuyInv, Lanes!Sent
<1>2. CASE Lanes!Next
  BY <1>2, StartKeeps, BuyKeeps, SellKeeps, AnswerKeeps, AttributedKeeps DEF Lanes!Next
<1> QED
  BY <1>1, <1>2

LEMMA LanesPaid == Lanes!LanesAssumption /\ Lanes!LanesInv => Lanes!BuysPayTheirLanes
<1> SUFFICES ASSUME Lanes!LanesAssumption, Lanes!LanesInv, role = "buy"
             PROVE  LET sent == left \cup DOMAIN outcome
                    IN /\ config.mode # "mixed" => sent # {}
                       /\ \A lane \in (sent \cap Lanes!Tipped) \ {"jito"} :
                            /\ Lanes!Account(config, lane) \in DOMAIN transfers
                            /\ transfers[Lanes!Account(config, lane)] >= Lanes!Demands(config,
                                 lane)
                       /\ sent \cap {"helius", "nozomi", "astralane", "circular"} # {} =>
                            fee > 0
                       /\ config.max > 0 => fee <= config.max
                       /\ result # Null =>
                            IF result.signature = "error"
                            THEN left = {} /\ \A lane \in sent : outcome[lane] = "failed"
                            ELSE result.signature = "own"
  BY DEF Lanes!BuysPayTheirLanes
<1>1. config \in Lanes!Tried /\ Lanes!Accepted(config) /\ Lanes!BuyInv
  BY DEF Lanes!LanesInv
<1>2. left \cup DOMAIN outcome = Lanes!BuyLanes(config)
        /\ transfers = Lanes!Transfers(config, Lanes!BuyTips(config))
  BY <1>1 DEF Lanes!BuyInv, Lanes!Sent
<1>3. PICK early \in BOOLEAN, source \in Fees, accounts \in Fees :
        fee = Lanes!AccountFee(config, Lanes!SelectedFee(config, early, source), accounts)
  BY <1>1 DEF Lanes!BuyInv
<1>4. (config.max > 0 => fee <= config.max) /\ (config.fee > 0 => fee > 0)
  BY <1>1, <1>3, FeeBounds
<1>5. config.mode # "mixed" => Lanes!BuyLanes(config) # {}
  BY <1>1, Served
<1>6. \A lane \in (Lanes!BuyLanes(config) \cap Lanes!Tipped) \ {"jito"} :
        /\ Lanes!Account(config, lane) \in DOMAIN Lanes!Transfers(config, Lanes!BuyTips(config))
        /\ Lanes!Transfers(config,
             Lanes!BuyTips(config))[Lanes!Account(config, lane)] >= Lanes!Demands(config, lane)
  BY <1>1, BuyTipsPay
<1>7. Lanes!BuyLanes(config) \cap {"helius", "nozomi", "astralane", "circular"} # {} => fee > 0
  BY <1>1, <1>4, FeeNamed
<1>8. result # Null =>
        IF result.signature = "error"
        THEN left = {} /\ \A lane \in left \cup DOMAIN outcome : outcome[lane] = "failed"
        ELSE result.signature = "own"
  BY <1>1 DEF Lanes!BuyInv, Lanes!Sent
<1> QED
  BY <1>2, <1>4, <1>5, <1>6, <1>7, <1>8

-----------------------------------------------------------------------------
(* WorkerExits *)

\* A set of numbers that holds 0 and with a number the next one holds them all.
LEMMA AllNumbers ==
  ASSUME NEW S, 0 \in S, \A n \in Nat : n \in S => n + 1 \in S
  PROVE  Nat \subseteq S
<1> SUFFICES ASSUME Nat \ S # {} PROVE FALSE
  OBVIOUS
<1>1. PICK x \in Nat \ S : \A y \in Nat \ S : ~ (<<y, x>> \in OpToRel(<, Nat))
  BY WFMin, NatLessThanWellFounded
<1>2. x # 0 /\ x - 1 \in Nat /\ x - 1 < x /\ (x - 1) + 1 = x
  OBVIOUS
<1>3. <<x - 1, x>> \in OpToRel(<, Nat)
  BY <1>2 DEF OpToRel
<1> QED
  BY <1>1, <1>2, <1>3

\* What is kept, step by step, of a function on the numbers up to n.
Keeps(kept, n, steps, balance, first) ==
  kept = [i \in 0 .. n |->
            IF i < first THEN balance ELSE kept[i - 1] - Exits!StepAmount(kept[i - 1],
            steps[i])]

LEMMA KeepsSteps ==
  ASSUME NEW steps, NEW balance, NEW first, NEW n, NEW f, Keeps(f, n, steps, balance, first)
  PROVE  \A i \in 0 .. n :
           f[i] = IF i < first THEN balance ELSE f[i - 1] - Exits!StepAmount(f[i - 1], steps[i])
BY DEF Keeps

LEMMA KeepsUnique ==
  ASSUME NEW steps, NEW balance, NEW first \in Nat \ {0}, NEW n \in Nat, NEW m \in Nat, NEW f,
         NEW g,
         Keeps(f, n, steps, balance, first), Keeps(g, m, steps, balance, first)
  PROVE  \A i \in Nat : i <= n /\ i <= m => f[i] = g[i]
<1> DEFINE S == {i \in Nat : i <= n /\ i <= m => f[i] = g[i]}
<1>1. \A i \in 0 .. n :
        f[i] = IF i < first THEN balance ELSE f[i - 1] - Exits!StepAmount(f[i - 1], steps[i])
  BY DEF Keeps
<1>2. \A i \in 0 .. m :
        g[i] = IF i < first THEN balance ELSE g[i - 1] - Exits!StepAmount(g[i - 1], steps[i])
  BY DEF Keeps
<1>3. 0 \in S
  <2>1. 0 \in 0 .. n /\ 0 \in 0 .. m /\ 0 < first
    OBVIOUS
  <2> QED
    BY <1>1, <1>2, <2>1
<1>4. ASSUME NEW i \in Nat, i \in S
      PROVE  i + 1 \in S
  <2> SUFFICES ASSUME i + 1 <= n, i + 1 <= m PROVE f[i + 1] = g[i + 1]
    OBVIOUS
  <2>1. i + 1 \in 0 .. n /\ i + 1 \in 0 .. m /\ (i + 1) - 1 = i
    OBVIOUS
  <2>2. f[i] = g[i]
    BY <1>4
  <2> QED
    BY <1>1, <1>2, <2>1, <2>2
<1> HIDE DEF S
<1>5. Nat \subseteq S
  BY <1>3, <1>4, AllNumbers
<1> QED
  BY <1>5 DEF S

LEMMA KeepsExists ==
  ASSUME NEW steps, NEW balance, NEW first \in Nat \ {0}
  PROVE  \A n \in Nat : \E f : Keeps(f, n, steps, balance, first)
<1> DEFINE S == {n \in Nat : \E f : Keeps(f, n, steps, balance, first)}
<1>1. 0 \in S
  <2>1. Keeps([i \in 0 .. 0 |-> balance], 0, steps, balance, first)
    BY DEF Keeps
  <2> QED
    BY <2>1
<1>2. ASSUME NEW n \in Nat, n \in S
      PROVE  n + 1 \in S
  <2>1. PICK f : Keeps(f, n, steps, balance, first)
    BY <1>2
  <2> DEFINE g == [i \in 0 .. n + 1 |->
                     IF i < first THEN balance ELSE f[i - 1] - Exits!StepAmount(f[i - 1],
                     steps[i])]
  <2>2. \A i \in 0 .. n : g[i] = f[i]
    BY <2>1 DEF Keeps
  <2>3. \A i \in 0 .. n + 1 : ~ (i < first) => i - 1 \in 0 .. n
    OBVIOUS
  <2>4. g = [i \in 0 .. n + 1 |->
               IF i < first THEN balance ELSE g[i - 1] - Exits!StepAmount(g[i - 1], steps[i])]
    <3>1. \A i \in 0 .. n + 1 :
            g[i] = IF i < first THEN balance ELSE g[i - 1] - Exits!StepAmount(g[i - 1],
            steps[i])
      BY <2>2, <2>3
    <3>2. g = [i \in 0 .. n + 1 |-> g[i]]
      OBVIOUS
    <3> HIDE DEF g
    <3> QED
      BY <3>1, <3>2
  <2> HIDE DEF g
  <2>5. Keeps(g, n + 1, steps, balance, first)
    BY <2>4 DEF Keeps
  <2> QED
    BY <2>5
<1> HIDE DEF S
<1>3. Nat \subseteq S
  BY <1>1, <1>2, AllNumbers
<1> QED
  BY <1>3 DEF S

\* Exits!Kept by its recursion.
LEMMA KeptBySteps ==
  ASSUME NEW steps, NEW balance, NEW first \in Nat \ {0}, NEW last \in Nat
  PROVE  Exits!Kept(steps, balance, first, last) =
           IF last < first THEN balance
           ELSE Exits!Kept(steps, balance, first, last - 1)
                  - Exits!StepAmount(Exits!Kept(steps, balance, first, last - 1), steps[last])
<1> DEFINE Rec(f) ==
      f = [i \in Nat |-> IF i < first THEN balance ELSE f[i - 1] - Exits!StepAmount(f[i - 1],
      steps[i])]
    G(n) == CHOOSE f : Keeps(f, n, steps, balance, first)
    h == [n \in Nat |-> G(n)[n]]
    kept == CHOOSE f : Rec(f)
<1>1. \A n \in Nat : Keeps(G(n), n, steps, balance, first)
  BY KeepsExists
<1>2. \A n \in Nat :
        h[n] = IF n < first THEN balance ELSE h[n - 1] - Exits!StepAmount(h[n - 1], steps[n])
  <2> TAKE n \in Nat
  <2>1. G(n)[n] = IF n < first THEN balance
                  ELSE G(n)[n - 1] - Exits!StepAmount(G(n)[n - 1], steps[n])
    <3> HIDE DEF G
    <3>1. n \in 0 .. n
      OBVIOUS
    <3> QED
      BY <1>1, <3>1, KeepsSteps
  <2>2. ~ (n < first) => n - 1 \in Nat /\ n - 1 <= n
    OBVIOUS
  <2>3. ~ (n < first) => G(n)[n - 1] = G(n - 1)[n - 1]
    <3> HIDE DEF G
    <3> QED
      BY <1>1, <2>2, KeepsUnique
  <2> HIDE DEF G
  <2> QED
    BY <2>1, <2>2, <2>3
<1>3. Rec(h)
  <2>1. h = [n \in Nat |-> h[n]]
    OBVIOUS
  <2> HIDE DEF h
  <2> QED
    BY <1>2, <2>1
<1>4. Rec(kept)
  <2> HIDE DEF h, Rec
  <2> QED
    BY <1>3
<1>5. \A n : Exits!Kept(steps, balance, first, n) = kept[n]
  BY DEF Exits!Kept
<1>6. \A n \in Nat :
        kept[n] = IF n < first THEN balance ELSE kept[n - 1] - Exits!StepAmount(kept[n - 1],
        steps[n])
  <2> HIDE DEF kept
  <2> QED
    BY <1>4
<1> HIDE DEF kept
<1> QED
  BY <1>5, <1>6

LEMMA ProductBound ==
  ASSUME NEW x \in Nat, NEW p \in 1 .. 100
  PROVE  x * p \in Nat /\ x * p <= 100 * x
OBVIOUS

LEMMA ProductSum ==
  ASSUME NEW x \in Nat, NEW d \in Nat, NEW p \in Nat
  PROVE  (x + d) * p = x * p + d * p
OBVIOUS

LEMMA Quotient ==
  ASSUME NEW a \in Nat, NEW b \in Nat, NEW d \in Nat, b <= 100 * d
  PROVE  /\ a \div 100 \in Nat /\ (a + b) \div 100 \in Nat
         /\ (a + b) \div 100 <= (a \div 100) + d
OBVIOUS

\* A step takes no more than there is, and leaves more of more.
LEMMA StepShare ==
  ASSUME NEW x \in Nat, NEW y \in Nat, x <= y, NEW p \in 1 .. 100
  PROVE  /\ Exits!StepAmount(x, p) \in Nat /\ Exits!StepAmount(x, p) <= x
         /\ x - Exits!StepAmount(x, p) <= y - Exits!StepAmount(y, p)
         /\ Exits!StepAmount(x, p) <= Exits!StepAmount(y, p)
<1> DEFINE d == y - x
<1>1. d \in Nat /\ y = x + d
  OBVIOUS
<1>2. x * p \in Nat /\ x * p <= 100 * x /\ d * p \in Nat /\ d * p <= 100 * d
  BY <1>1, ProductBound
<1>3. y * p = x * p + d * p
  BY <1>1, ProductSum
<1>4. /\ (x * p) \div 100 \in Nat /\ (y * p) \div 100 \in Nat
      /\ (y * p) \div 100 <= ((x * p) \div 100) + d
  BY <1>1, <1>2, <1>3, Quotient
<1>5. (x * p) \div 100 <= x
  BY <1>2
<1>6. (x * p) \div 100 <= (y * p) \div 100
  BY <1>2, <1>3
<1> QED
  BY <1>1, <1>4, <1>5, <1>6 DEF Exits!StepAmount

LEMMA ItemOf ==
  ASSUME NEW S, NEW s \in Seq(S), NEW i \in 1 .. Len(s)
  PROVE  s[i] \in S
OBVIOUS

LEMMA LengthOf ==
  ASSUME NEW S, NEW s \in Seq(S)
  PROVE  Len(s) \in Nat /\ DOMAIN s = 1 .. Len(s)
OBVIOUS

LEMMA PlanSteps ==
  ASSUME Exits!ExitsAssumption, options \in Exits!Options
  PROVE  Exits!Steps \in Seq(1 .. 100) /\ \A i \in 1 .. Len(Exits!Steps) :
           Exits!Steps[i] \in 1 .. 100
<1>1. options.plan \in Plan
  BY DEF Exits!Options
<1>2. Exits!Steps \in Seq(1 .. 100)
  BY <1>1 DEF Exits!ExitsAssumption, Exits!Steps
<1> QED
  BY <1>2, ItemOf

LEMMA StepsStay == options' = options => Exits!Steps' = Exits!Steps
BY DEF Exits!Steps

LEMMA ExitsInitially == Exits!ExitsAssumption /\ Exits!Init => Exits!ExitsInv
<1> SUFFICES ASSUME Exits!ExitsAssumption, Exits!Init PROVE Exits!ExitsInv
  OBVIOUS
<1>1. options \in Exits!Options /\ coin \in Exits!Coin /\ asked \in Nat /\ spend \in Nat
  BY DEF Exits!Init
<1>2. Exits!OrderInv
  BY DEF Exits!Init, Exits!OrderInv
<1>3. Exits!ChainInv
  BY DEF Exits!Init, Exits!ChainInv, Exits!ExitsAssumption, Exits!Idle
<1>4. Exits!TrailInv
  <2>1. trail = [pc |-> "none", at |-> 0, opt |-> Null, amount |-> 0, sold |-> 0,
                 base |-> Null, first |-> 0]
    BY DEF Exits!Init
  <2>2. trail \in Exits!Trail
    BY <2>1 DEF Exits!Trail
  <2>3. trail.pc = "none" /\ trail.sold = 0 /\ trail.opt = Null
    BY <2>1
  <2> QED
    BY <2>2, <2>3 DEF Exits!TrailInv
<1> QED
  BY <1>1, <1>2, <1>3, <1>4 DEF Exits!ExitsInv

\* What a step leaves alone keeps its part of the invariant.
LEMMA TrailStays ==
  ASSUME Exits!TrailInv, options' = options, coin' = coin, trail' = trail,
         buyFate = "landed" => buyFate' = "landed"
  PROVE  Exits!TrailInv'
<1>1. Exits!Steps' = Exits!Steps /\ (Exits!Sellable' <=> Exits!Sellable)
  BY StepsStay DEF Exits!Sellable
<1> QED
  BY <1>1 DEF Exits!TrailInv

LEMMA OrderStays ==
  ASSUME Exits!OrderInv, options' = options, Exits!order' = Exits!order, trail.pc = "none" =>
           trail'.pc = "none"
  PROVE  Exits!OrderInv'
BY DEF Exits!OrderInv, Exits!order, Exits!OverMaxCopy, Exits!OverTotal

LEMMA ChainStays ==
  ASSUME Exits!ChainInv, Exits!chain' = Exits!chain, auto' = auto
  PROVE  Exits!ChainInv'
BY DEF Exits!ChainInv, Exits!chain

LEMMA SettingsStay ==
  ASSUME Exits!ExitsInv, Exits!settings' = Exits!settings
  PROVE  options' = options /\ coin' = coin /\ options' \in Exits!Options
           /\ coin' \in Exits!Coin /\ asked' \in Nat
BY DEF Exits!ExitsInv, Exits!settings

\* The buy: nothing of the schedule has begun.
LEMMA GuardsKeeps == ASSUME Exits!ExitsAssumption, Exits!ExitsInv,
                       Exits!Guards PROVE Exits!ExitsInv'
<1>1. Exits!settings' = Exits!settings /\ Exits!chain' = Exits!chain /\ auto' = auto
        /\ trail' = trail
      /\ buyFate' = buyFate
  BY DEF Exits!Guards
<1>2. options' = options /\ coin' = coin /\ options' \in Exits!Options /\ coin' \in Exits!Coin
        /\ asked' \in Nat
  BY <1>1, SettingsStay
<1>3. Exits!TrailInv' /\ Exits!ChainInv'
  BY <1>1, <1>2, TrailStays, ChainStays DEF Exits!ExitsInv
<1>4. buyFate = "none" /\ trail.pc = "none"
  BY DEF Exits!ExitsInv, Exits!OrderInv, Exits!Guards
<1>5. Exits!SpendAfterFloor # Null => Exits!SpendAfterFloor \in Nat
  BY DEF Exits!SpendAfterFloor, Exits!ExitsInv, Exits!Options
<1>6. spend' \in Nat
  BY <1>5 DEF Exits!Guards, Exits!ExitsInv
<1>7. buy' = "built" => ~ Exits!OverMaxCopy(spend)'
  BY <1>2 DEF Exits!Guards, Exits!OverMaxCopy
<1>8. Exits!OrderInv'
  BY <1>1, <1>4, <1>7 DEF Exits!OrderInv, Exits!Guards
<1> QED
  BY <1>2, <1>3, <1>6, <1>8 DEF Exits!ExitsInv

LEMMA BuildKeeps == ASSUME Exits!ExitsAssumption, Exits!ExitsInv,
                      Exits!Build PROVE Exits!ExitsInv'
<1>1. Exits!settings' = Exits!settings /\ Exits!chain' = Exits!chain /\ auto' = auto
        /\ trail' = trail
      /\ buyFate' = buyFate /\ spend' = spend
  BY DEF Exits!Build
<1>2. options' = options /\ coin' = coin /\ options' \in Exits!Options /\ coin' \in Exits!Coin
        /\ asked' \in Nat
  BY <1>1, SettingsStay
<1>3. Exits!TrailInv' /\ Exits!ChainInv'
  BY <1>1, <1>2, TrailStays, ChainStays DEF Exits!ExitsInv
<1>4. buyFate = "none" /\ trail.pc = "none" /\ ~ Exits!OverMaxCopy(spend)
  BY DEF Exits!ExitsInv, Exits!OrderInv, Exits!Build
<1>5. /\ ~ Exits!OverMaxCopy(spend)'
      /\ buy' = "sending" => ~ Exits!OverTotal(spend)' /\ Exits!Reserve(spend + Fee)
      /\ buy' \in {"sending", "over"}
  BY <1>1, <1>2, <1>4 DEF Exits!Build, Exits!OverMaxCopy, Exits!OverTotal
<1>7. options'.guard /\ buy' = "sending" =>
        spend' + Fee <= options'.balance /\ reserved' = "held"
  BY <1>1, <1>2, <1>5 DEF Exits!Reserve
<1>6. Exits!OrderInv'
  BY <1>1, <1>4, <1>5, <1>7 DEF Exits!OrderInv
<1> QED
  BY <1>1, <1>2, <1>3, <1>6 DEF Exits!ExitsInv

LEMMA SignSendKeeps == ASSUME Exits!ExitsAssumption, Exits!ExitsInv,
                         Exits!SignSend PROVE Exits!ExitsInv'
<1>1. Exits!settings' = Exits!settings /\ Exits!chain' = Exits!chain /\ auto' = auto
        /\ trail' = trail /\ spend' = spend
  BY DEF Exits!SignSend
<1>2. options' = options /\ coin' = coin /\ options' \in Exits!Options /\ coin' \in Exits!Coin
        /\ asked' \in Nat
  BY <1>1, SettingsStay
<1>3. /\ buyFate = "none" /\ trail.pc = "none" /\ ~ Exits!OverMaxCopy(spend)
           /\ ~ Exits!OverTotal(spend)
      /\ options.guard => spend + Fee <= options.balance /\ reserved \in {"held", "kept"}
  BY DEF Exits!ExitsInv, Exits!OrderInv, Exits!SignSend
<1>4. Exits!TrailInv' /\ Exits!ChainInv'
  BY <1>1, <1>2, <1>3, TrailStays, ChainStays DEF Exits!ExitsInv
<1>5. ~ Exits!OverMaxCopy(spend)' /\ ~ Exits!OverTotal(spend)'
        /\ (options'.guard => spend' + Fee <= options'.balance)
  BY <1>1, <1>2, <1>3 DEF Exits!OverMaxCopy, Exits!OverTotal
<1>7. options'.guard /\ buyFate' # "none" => reserved' = "kept"
  BY <1>2, <1>3 DEF Exits!SignSend, Exits!KeepReservation
<1>8. buy' \in {"sent", "over"} /\ (buy' = "sent" => buyFate' = "flying")
  BY DEF Exits!SignSend
<1>6. Exits!OrderInv'
  BY <1>1, <1>3, <1>5, <1>7, <1>8 DEF Exits!OrderInv
<1> QED
  BY <1>1, <1>2, <1>4, <1>6 DEF Exits!ExitsInv

LEMMA SpawnExitsKeeps == ASSUME Exits!ExitsAssumption, Exits!ExitsInv,
                           Exits!SpawnExits PROVE Exits!ExitsInv'
<1>1. /\ Exits!settings' = Exits!settings /\ Exits!chain' = Exits!chain /\ spend' = spend
           /\ reserved' = reserved
      /\ buyFate' = buyFate
  BY DEF Exits!SpawnExits
<1>2. options' = options /\ coin' = coin /\ options' \in Exits!Options /\ coin' \in Exits!Coin
        /\ asked' \in Nat
  BY <1>1, SettingsStay
<1>3. trail.pc = "none" /\ trail.sold = 0 /\ trail \in Exits!Trail /\ trail.opt = Null
  BY DEF Exits!ExitsInv, Exits!OrderInv, Exits!TrailInv, Exits!SpawnExits
<1>4. Exits!Steps' = Exits!Steps /\ Exits!Steps \in Seq(1 .. 100)
  BY <1>2, StepsStay, PlanSteps DEF Exits!ExitsInv
<1>5. Exits!TrailInv'
  <2>1. CASE trail' = trail
    BY <1>1, <1>2, <2>1, TrailStays DEF Exits!ExitsInv
  <2>2. CASE trail' # trail
    <3>1. Exits!Steps # <<>> /\ trail' = [trail EXCEPT !.pc = "confirm", !.at = 1]
      BY <2>2 DEF Exits!SpawnExits
    <3>2. trail' \in Exits!Trail /\ trail'.pc = "confirm" /\ trail'.at = 1 /\ trail'.sold = 0
          /\ trail'.opt = Null
      BY <1>3, <3>1 DEF Exits!Trail
    <3>3. 1 \in 1 .. Len(Exits!Steps)
      BY <1>4, <3>1
    <3> QED
      BY <1>4, <3>2, <3>3 DEF Exits!TrailInv
  <2> QED
    BY <2>1, <2>2
<1>6. auto' \in [Exits!Seller -> [pc : {"none", "balance", "send", "over"}, amount : Nat]]
  BY DEF Exits!SpawnExits, Exits!ExitsInv, Exits!ChainInv, Exits!Seller
<1>7. Exits!ChainInv'
  BY <1>1, <1>6 DEF Exits!ExitsInv, Exits!ChainInv, Exits!chain
<1>8. ~ Exits!OverMaxCopy(spend)' /\ ~ Exits!OverTotal(spend)'
        /\ (options'.guard => spend' + Fee <= options'.balance)
  BY <1>1, <1>2 DEF Exits!ExitsInv, Exits!OrderInv, Exits!SpawnExits, Exits!OverMaxCopy,
     Exits!OverTotal
<1>9. Exits!OrderInv'
  BY <1>1, <1>2, <1>8 DEF Exits!ExitsInv, Exits!OrderInv, Exits!SpawnExits
<1> QED
  BY <1>1, <1>2, <1>5, <1>7, <1>9 DEF Exits!ExitsInv

LEMMA ObserveSellKeeps == ASSUME Exits!ExitsAssumption, Exits!ExitsInv,
                            Exits!ObserveSell PROVE Exits!ExitsInv'
<1>1. Exits!settings' = Exits!settings /\ Exits!order' = Exits!order
        /\ Exits!chain' = Exits!chain /\ trail' = trail
  BY DEF Exits!ObserveSell
<1>2. options' = options /\ coin' = coin /\ options' \in Exits!Options /\ coin' \in Exits!Coin
        /\ asked' \in Nat
  BY <1>1, SettingsStay
<1>3. buyFate' = buyFate /\ spend' = spend
  BY <1>1 DEF Exits!order
<1>4. Exits!TrailInv' /\ Exits!OrderInv'
  BY <1>1, <1>2, <1>3, TrailStays, OrderStays DEF Exits!ExitsInv
<1>5. auto' \in [Exits!Seller -> [pc : {"none", "balance", "send", "over"}, amount : Nat]]
  BY DEF Exits!ObserveSell, Exits!ExitsInv, Exits!ChainInv, Exits!Seller
<1>6. Exits!ChainInv'
  BY <1>1, <1>5 DEF Exits!ExitsInv, Exits!ChainInv, Exits!chain
<1> QED
  BY <1>2, <1>3, <1>4, <1>6 DEF Exits!ExitsInv

\* The next step, with what the last one left.
LEMMA NextStep ==
  ASSUME NEW t \in Exits!Trail, t.at >= 1, t.at <= Len(Exits!Steps), Len(Exits!Steps) \in Nat
  PROVE  LET n == Exits!Next_(t)
         IN /\ n \in Exits!Trail /\ n.pc \in {"over", "step"} /\ n.at = t.at + 1
            /\ n.opt = t.opt /\ n.amount = t.amount /\ n.sold = t.sold /\ n.base = t.base
            /\ n.first = t.first
            /\ n.pc = "step" => n.at \in 1 .. Len(Exits!Steps)
<1> DEFINE n == Exits!Next_(t)
           stage == IF t.at = Len(Exits!Steps) THEN "over" ELSE "step"
<1>1. n = [t EXCEPT !.pc = stage, !.at = t.at + 1]
  BY DEF Exits!Next_
<1>2. stage \in {"over", "step"} /\ (stage = "step" => t.at + 1 \in 1 .. Len(Exits!Steps))
  BY DEF Exits!Trail
<1> HIDE DEF n, stage
<1>3. t.at + 1 \in Nat
  BY DEF Exits!Trail
<1>4. n \in Exits!Trail
  BY <1>1, <1>2, <1>3 DEF Exits!Trail
<1>5. /\ n.pc = stage /\ n.at = t.at + 1
      /\ n.opt = t.opt /\ n.amount = t.amount /\ n.sold = t.sold /\ n.base = t.base
      /\ n.first = t.first
  BY <1>1 DEF Exits!Trail
<1> QED
  BY <1>2, <1>4, <1>5 DEF n

\* A schedule's own steps disturb nothing else.
LEMMA TrailOnly ==
  ASSUME Exits!ExitsInv, Exits!settings' = Exits!settings, Exits!order' = Exits!order,
         held' = held, past' = past,
         auto' = auto, \A f \in flights' : f.amount \in Nat, trail.pc # "none",
         trail'.pc # "none",
         Exits!TrailInv'
  PROVE  Exits!ExitsInv'
<1>1. options' \in Exits!Options /\ coin' \in Exits!Coin /\ asked' \in Nat /\ options' = options
  BY SettingsStay
<1>2. spend' \in Nat
  BY DEF Exits!ExitsInv, Exits!order
<1>3. Exits!OrderInv'
  BY <1>1, OrderStays DEF Exits!ExitsInv
<1>4. Exits!ChainInv'
  BY DEF Exits!ExitsInv, Exits!ChainInv
<1> QED
  BY <1>1, <1>2, <1>3, <1>4 DEF Exits!ExitsInv

LEMMA TrailConfirmKeeps == ASSUME Exits!ExitsAssumption, Exits!ExitsInv,
                             Exits!TrailConfirm PROVE Exits!ExitsInv'
<1>1. /\ Exits!settings' = Exits!settings /\ Exits!order' = Exits!order
           /\ Exits!chain' = Exits!chain /\ auto' = auto
      /\ trail.pc = "confirm"
  BY DEF Exits!TrailConfirm
<1>2. options' = options /\ coin' = coin /\ buyFate' = buyFate /\ Exits!Steps' = Exits!Steps
      /\ held' = held /\ past' = past /\ flights' = flights
  BY <1>1, StepsStay DEF Exits!settings, Exits!order, Exits!chain
<1>3. trail \in Exits!Trail /\ trail.sold = 0 /\ trail.opt = Null
        /\ trail.at \in 1 .. Len(Exits!Steps)
  BY <1>1 DEF Exits!ExitsInv, Exits!TrailInv
<1>4. CASE buyFate = "landed" /\ trail' = [trail EXCEPT !.pc = "step"]
  <2>1. trail' \in Exits!Trail /\ trail'.pc = "step" /\ trail'.sold = 0 /\ trail'.opt = Null
        /\ trail'.at = trail.at
    BY <1>3, <1>4 DEF Exits!Trail
  <2>2. Exits!TrailInv'
    BY <1>2, <1>3, <1>4, <2>1 DEF Exits!TrailInv
  <2> QED
    BY <1>1, <1>2, <2>1, <2>2, TrailOnly DEF Exits!ExitsInv, Exits!ChainInv
<1>5. CASE trail' = [trail EXCEPT !.pc = "over"]
  <2>1. trail' \in Exits!Trail /\ trail'.pc = "over" /\ trail'.sold = 0 /\ trail'.opt = Null
    BY <1>3, <1>5 DEF Exits!Trail
  <2>2. Exits!TrailInv'
    BY <1>2, <2>1 DEF Exits!TrailInv
  <2> QED
    BY <1>1, <1>2, <2>1, <2>2, TrailOnly DEF Exits!ExitsInv, Exits!ChainInv
<1> QED
  BY <1>4, <1>5 DEF Exits!TrailConfirm

LEMMA TrailGuardKeeps == ASSUME Exits!ExitsAssumption, Exits!ExitsInv,
                           Exits!TrailGuard PROVE Exits!ExitsInv'
<1>1. /\ Exits!settings' = Exits!settings /\ Exits!order' = Exits!order
           /\ Exits!chain' = Exits!chain /\ auto' = auto
      /\ trail.pc = "step" /\ trail' = [trail EXCEPT !.pc = "balance"]
  BY DEF Exits!TrailGuard
<1>2. options' = options /\ coin' = coin /\ buyFate' = buyFate /\ Exits!Steps' = Exits!Steps
      /\ held' = held /\ past' = past /\ flights' = flights
  BY <1>1, StepsStay DEF Exits!settings, Exits!order, Exits!chain
<1>3. trail \in Exits!Trail /\ buyFate = "landed"
  BY <1>1 DEF Exits!ExitsInv, Exits!TrailInv
<1>4. Exits!Sellable /\ Exits!Sellable'
  BY <1>2 DEF Exits!TrailGuard, Exits!Sellable
<1>5. /\ trail' \in Exits!Trail /\ trail'.pc = "balance" /\ trail'.sold = trail.sold
      /\ trail'.opt = trail.opt /\ trail'.at = trail.at /\ trail'.base = trail.base
      /\ trail'.first = trail.first
  BY <1>1, <1>3 DEF Exits!Trail
<1>6. Exits!TrailInv'
  BY <1>1, <1>2, <1>3, <1>4, <1>5 DEF Exits!ExitsInv, Exits!TrailInv
<1> QED
  BY <1>1, <1>2, <1>5, <1>6, TrailOnly DEF Exits!ExitsInv, Exits!ChainInv

\* Passing over a step leaves no more than the step would have.
LEMMA KeptShrinks ==
  ASSUME Exits!ExitsAssumption, options \in Exits!Options, NEW base \in Nat,
         NEW first \in Nat \ {0},
         NEW at \in 1 .. Len(Exits!Steps), first <= at, NEW opt \in Nat, NEW amount \in Nat,
         Exits!Kept(Exits!Steps, base, first, at - 1) \in 0 .. opt,
         amount <= Exits!StepAmount(opt, Exits!Steps[at])
  PROVE  amount <= opt /\ Exits!Kept(Exits!Steps, base, first, at) \in 0 .. opt - amount
<1> DEFINE k == Exits!Kept(Exits!Steps, base, first, at - 1)
           p == Exits!Steps[at]
<1>1. p \in 1 .. 100
  BY PlanSteps
<1>2. at \in Nat /\ ~ (at < first)
  OBVIOUS
<1>3. Exits!Kept(Exits!Steps, base, first, at) = k - Exits!StepAmount(k, p)
  BY <1>2, KeptBySteps
<1> HIDE DEF k, p
<1>4. k \in Nat /\ k <= opt
  BY DEF k
<1>5. /\ Exits!StepAmount(k, p) \in Nat /\ Exits!StepAmount(k, p) <= k
      /\ k - Exits!StepAmount(k, p) <= opt - Exits!StepAmount(opt, p)
  BY <1>1, <1>4, StepShare
<1>6. Exits!StepAmount(opt, p) \in Nat /\ Exits!StepAmount(opt, p) <= opt
  <2>1. opt <= opt
    OBVIOUS
  <2> QED
    BY <1>1, <2>1, StepShare
<1>7. amount <= Exits!StepAmount(opt, p)
  BY DEF p
<1> QED
  BY <1>3, <1>4, <1>5, <1>6, <1>7

LEMMA NextKeeps ==
  ASSUME NEW t \in Exits!Trail, t.at \in 1 .. Len(Exits!Steps), Len(Exits!Steps) \in Nat,
         buyFate = "landed",
         options' = options, coin' = coin, buyFate' = buyFate,
         t.sold = 0 => t.opt = Null,
         t.sold > 0 =>
           /\ Exits!Sellable /\ t.base \in Nat /\ t.opt \in Nat /\ t.sold + t.opt = t.base
           /\ t.first \in 1 .. t.at
                /\ Exits!Kept(Exits!Steps, t.base, t.first, t.at) \in 0 .. t.opt,
         trail' = Exits!Next_(t)
  PROVE  Exits!TrailInv' /\ trail'.pc # "none"
<1>1. /\ trail' \in Exits!Trail /\ trail'.pc \in {"over", "step"} /\ trail'.at = t.at + 1
      /\ trail'.opt = t.opt /\ trail'.amount = t.amount /\ trail'.sold = t.sold
      /\ trail'.base = t.base /\ trail'.first = t.first
      /\ trail'.pc = "step" => trail'.at \in 1 .. Len(Exits!Steps)
  BY NextStep
<1>2. Exits!Steps' = Exits!Steps /\ (Exits!Sellable' <=> Exits!Sellable)
  BY StepsStay DEF Exits!Sellable
<1>3. t.at \in Nat /\ (t.at + 1) - 1 = t.at /\ t.at + 1 <= Len(Exits!Steps) + 1
        /\ trail'.at - 1 = t.at
  BY <1>1
<1>4. CASE t.sold = 0
  BY <1>1, <1>2, <1>4 DEF Exits!TrailInv
<1>5. CASE t.sold > 0
  <2>1. /\ trail'.sold > 0 /\ ~ (trail'.sold = 0)
        /\ Exits!Kept(Exits!Steps, trail'.base, trail'.first, trail'.at - 1) \in 0 .. trail'.opt
        /\ trail'.first \in 1 .. trail'.at - 1 /\ trail'.at <= Len(Exits!Steps) + 1
    BY <1>1, <1>3, <1>5
  <2> QED
    BY <1>1, <1>2, <1>5, <2>1 DEF Exits!TrailInv
<1> QED
  BY <1>4, <1>5 DEF Exits!Trail

LEMMA TrailAt ==
  ASSUME Exits!ExitsAssumption, Exits!ExitsInv, trail.pc \in {"step", "balance", "send"}
  PROVE  /\ trail \in Exits!Trail /\ trail.at \in 1 .. Len(Exits!Steps)
              /\ Len(Exits!Steps) \in Nat
         /\ Exits!Steps[trail.at] \in 1 .. 100 /\ buyFate = "landed"
              /\ options \in Exits!Options
         /\ trail.sold = 0 => trail.opt = Null
<1>1. options \in Exits!Options
  BY DEF Exits!ExitsInv
<1>2. Exits!Steps \in Seq(1 .. 100) /\ \A i \in 1 .. Len(Exits!Steps) :
        Exits!Steps[i] \in 1 .. 100
  BY <1>1, PlanSteps
<1>3. /\ trail \in Exits!Trail /\ trail.at \in 1 .. Len(Exits!Steps) /\ buyFate = "landed"
      /\ trail.sold = 0 => trail.opt = Null
  BY DEF Exits!ExitsInv, Exits!TrailInv
<1>4. Exits!Steps[trail.at] \in 1 .. 100
  BY <1>2, <1>3
<1>5. Len(Exits!Steps) \in Nat
  BY <1>2, LengthOf
<1> QED
  BY <1>1, <1>3, <1>4, <1>5

\* The schedule as it is may pass over its step.
LEMMA PassKeeps ==
  ASSUME Exits!ExitsAssumption, Exits!ExitsInv, trail.pc \in {"step", "balance", "send"},
         options' = options, coin' = coin, buyFate' = buyFate, trail' = Exits!Next_(trail)
  PROVE  Exits!TrailInv' /\ trail'.pc # "none"
<1>1. /\ trail \in Exits!Trail /\ trail.at \in 1 .. Len(Exits!Steps) /\ Len(Exits!Steps) \in Nat
      /\ Exits!Steps[trail.at] \in 1 .. 100 /\ buyFate = "landed" /\ options \in Exits!Options
      /\ trail.sold = 0 => trail.opt = Null
  BY TrailAt
<1>2. ASSUME trail.sold > 0
      PROVE  /\ Exits!Sellable /\ trail.base \in Nat /\ trail.opt \in Nat
             /\ trail.sold + trail.opt = trail.base
             /\ trail.first \in 1 .. trail.at
             /\ Exits!Kept(Exits!Steps, trail.base, trail.first, trail.at) \in 0 .. trail.opt
  <2>1. /\ Exits!Sellable /\ trail.base \in Nat /\ trail.opt \in Nat
        /\ trail.sold + trail.opt = trail.base /\ trail.first \in 1 .. trail.at - 1
        /\ Exits!Kept(Exits!Steps, trail.base, trail.first, trail.at - 1) \in 0 .. trail.opt
    BY <1>2 DEF Exits!ExitsInv, Exits!TrailInv
  <2>2. trail.first \in Nat \ {0} /\ trail.first <= trail.at /\ trail.first \in 1 .. trail.at
    BY <1>1, <2>1
  <2>3. 0 <= Exits!StepAmount(trail.opt, Exits!Steps[trail.at])
    <3>1. trail.opt <= trail.opt
      BY <2>1
    <3>2. Exits!StepAmount(trail.opt, Exits!Steps[trail.at]) \in Nat
      BY <1>1, <2>1, <3>1, StepShare
    <3> QED
      BY <3>2
  <2>4. Exits!Kept(Exits!Steps, trail.base, trail.first, trail.at) \in 0 .. trail.opt - 0
    BY <1>1, <2>1, <2>2, <2>3, KeptShrinks
  <2> QED
    BY <2>1, <2>2, <2>4
<1> QED
  BY <1>1, <1>2, NextKeeps

LEMMA TrailSkipKeeps == ASSUME Exits!ExitsAssumption, Exits!ExitsInv,
                          Exits!TrailSkip PROVE Exits!ExitsInv'
<1>1. /\ Exits!settings' = Exits!settings /\ Exits!order' = Exits!order
           /\ Exits!chain' = Exits!chain /\ auto' = auto
      /\ trail.pc \in {"step", "balance", "send"} /\ trail' = Exits!Next_(trail)
  BY DEF Exits!TrailSkip
<1>2. options' = options /\ coin' = coin /\ buyFate' = buyFate
      /\ held' = held /\ past' = past /\ flights' = flights
  BY <1>1 DEF Exits!settings, Exits!order, Exits!chain
<1>3. Exits!TrailInv' /\ trail'.pc # "none"
  BY <1>1, <1>2, PassKeeps
<1> QED
  BY <1>1, <1>2, <1>3, TrailOnly DEF Exits!ExitsInv, Exits!ChainInv

LEMMA Least ==
  ASSUME NEW x \in Nat, NEW y \in Nat
  PROVE  Exits!Min({x, y}) \in Nat /\ Exits!Min({x, y}) <= y /\ Exits!Min({x}) = x
<1>1. Exits!Min({x, y}) = IF x <= y THEN x ELSE y
  BY DEF Exits!Min
<1>2. Exits!Min({x}) = x
  BY DEF Exits!Min
<1> QED
  BY <1>1, <1>2

LEMMA TrailReadKeeps == ASSUME Exits!ExitsAssumption, Exits!ExitsInv,
                          Exits!TrailRead PROVE Exits!ExitsInv'
<1>1. /\ Exits!settings' = Exits!settings /\ Exits!order' = Exits!order
           /\ Exits!chain' = Exits!chain /\ auto' = auto
      /\ trail.pc = "balance"
  BY DEF Exits!TrailRead
<1>2. options' = options /\ coin' = coin /\ buyFate' = buyFate
      /\ held' = held /\ past' = past /\ flights' = flights /\ Exits!Steps' = Exits!Steps
      /\ (Exits!Sellable' <=> Exits!Sellable)
  BY <1>1, StepsStay DEF Exits!settings, Exits!order, Exits!chain, Exits!Sellable
<1>3. /\ trail \in Exits!Trail /\ trail.at \in 1 .. Len(Exits!Steps) /\ Len(Exits!Steps) \in Nat
      /\ Exits!Steps[trail.at] \in 1 .. 100 /\ buyFate = "landed" /\ options \in Exits!Options
      /\ trail.sold = 0 => trail.opt = Null
  BY <1>1, TrailAt
<1>4. Exits!Sellable
  BY <1>1 DEF Exits!ExitsInv, Exits!TrailInv
<1>5. PICK balance \in past \ {0} :
        LET sellable == Exits!Min({balance} \cup ({trail.opt} \ {Null}))
            amount == Exits!StepAmount(sellable, Exits!Steps[trail.at])
        IN amount > 0 /\ trail' = [trail EXCEPT !.pc = "send", !.amount = amount,
                                     !.base = IF trail.sold = 0 THEN sellable ELSE @,
                                     !.first = IF trail.sold = 0 THEN trail.at ELSE @]
  BY DEF Exits!TrailRead
<1> DEFINE sellable == Exits!Min({balance} \cup ({trail.opt} \ {Null}))
           amount == Exits!StepAmount(sellable, Exits!Steps[trail.at])
           base == IF trail.sold = 0 THEN sellable ELSE trail.base
           first == IF trail.sold = 0 THEN trail.at ELSE trail.first
<1>6. amount > 0 /\ trail' = [trail EXCEPT !.pc = "send", !.amount = amount, !.base = base,
                                           !.first = first]
  BY <1>5
<1>7. balance \in Nat
  BY DEF Exits!ExitsInv, Exits!ChainInv
<1>8. CASE trail.sold = 0
  <2>1. sellable = balance
    <3>1. {balance} \cup ({trail.opt} \ {Null}) = {balance}
      BY <1>3, <1>8
    <3> QED
      BY <1>7, <3>1, Least
  <2>2. base = balance /\ first = trail.at
          /\ amount = Exits!StepAmount(balance, Exits!Steps[trail.at])
    BY <1>8, <2>1
  <2> HIDE DEF base, first, amount, sellable
  <2>3. amount \in Nat
    <3>1. balance <= balance
      BY <1>7
    <3> QED
      BY <1>3, <1>7, <2>2, <3>1, StepShare
  <2>4. base \in Nat /\ first \in Nat
    BY <1>3, <1>7, <2>2
  <2>5. trail' \in Exits!Trail
    BY <1>3, <1>6, <2>3, <2>4 DEF Exits!Trail
  <2>6. /\ trail'.pc = "send" /\ trail'.amount = amount /\ trail'.base = base
        /\ trail'.first = first /\ trail'.at = trail.at /\ trail'.sold = 0
             /\ trail'.opt = trail.opt
    BY <1>3, <1>6, <1>8 DEF Exits!Trail
  <2>7. Exits!TrailInv'
    BY <1>2, <1>3, <1>4, <1>6, <2>2, <2>4, <2>5, <2>6 DEF Exits!TrailInv
  <2> QED
    BY <1>1, <1>2, <2>6, <2>7, TrailOnly DEF Exits!ExitsInv, Exits!ChainInv
<1>9. CASE trail.sold > 0
  <2>1. /\ trail.base \in Nat /\ trail.opt \in Nat
        /\ trail.sold + trail.opt = trail.base
        /\ trail.first \in 1 .. trail.at - 1 /\ trail.at <= Len(Exits!Steps) + 1
        /\ Exits!Kept(Exits!Steps, trail.base, trail.first, trail.at - 1) \in 0 .. trail.opt
    BY <1>9 DEF Exits!ExitsInv, Exits!TrailInv
  <2>2. sellable \in Nat /\ sellable <= trail.opt
    <3>1. {balance} \cup ({trail.opt} \ {Null}) = {balance, trail.opt}
      BY <2>1 DEF Exits!ExitsAssumption
    <3> QED
      BY <1>7, <2>1, <3>1, Least
  <2>3. base = trail.base /\ first = trail.first
    BY <1>3, <1>9 DEF Exits!Trail
  <2> HIDE DEF base, first, sellable
  <2>4. amount \in Nat /\ amount <= Exits!StepAmount(trail.opt, Exits!Steps[trail.at])
    BY <1>3, <2>1, <2>2, StepShare
  <2> HIDE DEF amount
  <2>5. trail' \in Exits!Trail
    BY <1>3, <1>6, <2>1, <2>3, <2>4 DEF Exits!Trail
  <2>6. /\ trail'.pc = "send" /\ trail'.amount = amount /\ trail'.base = trail.base
        /\ trail'.first = trail.first /\ trail'.at = trail.at /\ trail'.sold = trail.sold
        /\ trail'.opt = trail.opt
    BY <1>3, <1>6, <2>3 DEF Exits!Trail
  <2>7. ~ (trail'.sold = 0)
    BY <1>3, <1>9, <2>6 DEF Exits!Trail
  <2>8. Exits!TrailInv'
    BY <1>2, <1>3, <1>4, <1>6, <2>1, <2>4, <2>5, <2>6, <2>7 DEF Exits!TrailInv
  <2> QED
    BY <1>1, <1>2, <2>6, <2>8, TrailOnly DEF Exits!ExitsInv, Exits!ChainInv
<1> QED
  BY <1>3, <1>8, <1>9 DEF Exits!Trail

LEMMA TrailSendKeeps == ASSUME Exits!ExitsAssumption, Exits!ExitsInv,
                          Exits!TrailSend PROVE Exits!ExitsInv'
<1>1. /\ Exits!settings' = Exits!settings /\ Exits!order' = Exits!order /\ held' = held
           /\ past' = past /\ auto' = auto
      /\ trail.pc = "send"
  BY DEF Exits!TrailSend
<1>2. options' = options /\ coin' = coin /\ buyFate' = buyFate /\ Exits!Steps' = Exits!Steps
  BY <1>1, StepsStay DEF Exits!settings, Exits!order
<1>3. /\ trail \in Exits!Trail /\ trail.at \in 1 .. Len(Exits!Steps) /\ Len(Exits!Steps) \in Nat
      /\ Exits!Steps[trail.at] \in 1 .. 100 /\ buyFate = "landed" /\ options \in Exits!Options
      /\ trail.sold = 0 => trail.opt = Null
  BY <1>1, TrailAt
<1>4. trail.amount \in Nat /\ trail.amount > 0 /\ Exits!Sellable
  BY <1>1, <1>3 DEF Exits!ExitsInv, Exits!TrailInv, Exits!Trail
<1>5. \A f \in flights' : f.amount \in Nat
  <2>1. Exits!Flight("trail", trail.at, trail.amount).amount \in Nat
    BY <1>4 DEF Exits!Flight
  <2> QED
    BY <2>1 DEF Exits!TrailSend, Exits!ExitsInv, Exits!ChainInv
<1>6. CASE trail' = Exits!Next_(trail)
  BY <1>1, <1>2, <1>5, <1>6, PassKeeps, TrailOnly
<1>7. CASE trail' = Exits!Next_([trail EXCEPT !.sold = @ + trail.amount,
                             !.opt = (IF @ = Null THEN trail.base ELSE @) - trail.amount])
  <2> DEFINE remaining == IF trail.opt = Null THEN trail.base ELSE trail.opt
             t == [trail EXCEPT !.sold = trail.sold + trail.amount,
             !.opt = remaining - trail.amount]
             first == IF trail.sold = 0 THEN trail.at ELSE trail.first
  <2>1. trail' = Exits!Next_(t)
    BY <1>3, <1>7 DEF Exits!Trail
  <2>2. /\ trail.base \in Nat /\ remaining \in Nat /\ trail.sold + remaining = trail.base
        /\ trail.first \in 1 .. trail.at
        /\ Exits!Kept(Exits!Steps, trail.base, trail.first, trail.at - 1) \in 0 .. remaining
        /\ trail.amount <= Exits!StepAmount(remaining, Exits!Steps[trail.at])
    <3>1. CASE trail.sold = 0
      <4>1. /\ trail.base \in Nat /\ trail.first = trail.at
            /\ trail.amount = Exits!StepAmount(trail.base, Exits!Steps[trail.at])
        BY <1>1, <3>1 DEF Exits!ExitsInv, Exits!TrailInv
      <4>2. remaining = trail.base
        BY <1>3, <3>1
      <4>3. Exits!StepAmount(trail.base, Exits!Steps[trail.at]) \in Nat
        BY <1>4, <4>1
      <4>4. Exits!Kept(Exits!Steps, trail.base, trail.at, trail.at - 1) = trail.base
        <5>1. trail.at \in Nat \ {0} /\ trail.at - 1 \in Nat /\ trail.at - 1 < trail.at
          BY <1>3
        <5> QED
          BY <5>1, KeptBySteps
      <4> HIDE DEF remaining
      <4> QED
        BY <1>3, <3>1, <4>1, <4>2, <4>3, <4>4
    <3>2. CASE trail.sold > 0
      <4>1. /\ trail.base \in Nat /\ trail.opt \in Nat
            /\ trail.sold + trail.opt = trail.base
            /\ trail.first \in 1 .. trail.at - 1
            /\ Exits!Kept(Exits!Steps, trail.base, trail.first, trail.at - 1) \in 0 .. trail.opt
            /\ trail.amount <= Exits!StepAmount(trail.opt, Exits!Steps[trail.at])
        BY <1>1, <3>2 DEF Exits!ExitsInv, Exits!TrailInv
      <4>2. remaining = trail.opt
        BY <4>1 DEF Exits!ExitsAssumption
      <4>3. trail.first \in 1 .. trail.at
        BY <1>3, <4>1
      <4> HIDE DEF remaining
      <4> QED
        BY <4>1, <4>2, <4>3
    <3> QED
      BY <1>3, <3>1, <3>2 DEF Exits!Trail
  <2> HIDE DEF remaining
  <2>3. trail.first \in Nat \ {0} /\ trail.first <= trail.at
    BY <1>3, <2>2
  <2>4. /\ trail.amount <= remaining
        /\ Exits!Kept(Exits!Steps, trail.base, trail.first,
             trail.at) \in 0 .. remaining - trail.amount
    BY <1>3, <1>4, <2>2, <2>3, KeptShrinks
  <2>5. /\ remaining - trail.amount \in Nat /\ trail.sold + trail.amount \in Nat
        /\ trail.sold + trail.amount > 0 /\ trail.sold \in Nat
        /\ (trail.sold + trail.amount) + (remaining - trail.amount) = trail.base
    <3>1. trail.sold \in Nat
      BY <1>3 DEF Exits!Trail
    <3>2. remaining \in Nat /\ trail.amount <= remaining /\ trail.sold + remaining = trail.base
      BY <2>2, <2>4
    <3> QED
      BY <1>4, <3>1, <3>2
  <2>6. t \in Exits!Trail
    BY <1>3, <2>5 DEF Exits!Trail
  <2>7. /\ t.sold = trail.sold + trail.amount /\ t.opt = remaining - trail.amount
             /\ t.at = trail.at
        /\ t.base = trail.base /\ t.first = trail.first
    BY <1>3 DEF Exits!Trail
  <2> HIDE DEF t
  <2>8. /\ t.sold > 0 /\ ~ (t.sold = 0) /\ t.base \in Nat /\ t.opt \in Nat
        /\ t.sold + t.opt = t.base
        /\ t.first \in 1 .. t.at
             /\ Exits!Kept(Exits!Steps, t.base, t.first, t.at) \in 0 .. t.opt
    BY <2>2, <2>4, <2>5, <2>7
  <2>9. Exits!TrailInv' /\ trail'.pc # "none"
    BY <1>2, <1>3, <1>4, <2>1, <2>6, <2>7, <2>8, NextKeeps
  <2> QED
    BY <1>1, <1>5, <2>9, TrailOnly
<1> QED
  BY <1>6, <1>7 DEF Exits!TrailSend

\* The auto-sells take numbers of what was read, and leave the buy and the schedule alone.
LEMMA AutoOnly ==
  ASSUME Exits!ExitsInv, Exits!settings' = Exits!settings, Exits!order' = Exits!order,
         held' = held, past' = past, trail' = trail,
         \A f \in flights' : f.amount \in Nat, 
         auto' \in [Exits!Seller -> [pc : {"none", "balance", "send", "over"}, amount : Nat]]
  PROVE  Exits!ExitsInv'
<1>1. options' = options /\ coin' = coin /\ options' \in Exits!Options /\ coin' \in Exits!Coin
        /\ asked' \in Nat
  BY SettingsStay
<1>2. spend' \in Nat /\ buyFate' = buyFate
  BY DEF Exits!ExitsInv, Exits!order
<1>3. Exits!OrderInv' /\ Exits!TrailInv'
  BY <1>1, <1>2, OrderStays, TrailStays DEF Exits!ExitsInv
<1>4. Exits!ChainInv'
  BY DEF Exits!ExitsInv, Exits!ChainInv
<1> QED
  BY <1>1, <1>2, <1>3, <1>4 DEF Exits!ExitsInv

LEMMA AutoReadKeeps ==
  ASSUME Exits!ExitsAssumption, Exits!ExitsInv, NEW s \in Exits!Seller, Exits!AutoRead(s)
  PROVE  Exits!ExitsInv'
<1>1. /\ Exits!settings' = Exits!settings /\ Exits!order' = Exits!order /\ held' = held
           /\ past' = past /\ trail' = trail
      /\ flights' = flights
  BY DEF Exits!AutoRead, Exits!chain
<1>2. coin.minOut \in Nat
  BY DEF Exits!ExitsInv, Exits!Coin
<1>3. \A balance \in past : Exits!AutoAmount(balance) \in Nat
  <2> TAKE balance \in past
  <2>1. balance \in Nat
    BY DEF Exits!ExitsInv, Exits!ChainInv
  <2> QED
    BY <1>2, <2>1, Least DEF Exits!AutoAmount
<1>4. PICK amount \in Nat, stage \in {"send", "over"} :
             auto' = [auto EXCEPT ![s] = [pc |-> stage, amount |-> amount]]
  <2>1. [Exits!Idle EXCEPT !.pc = "over"] = [pc |-> "over", amount |-> 0]
    BY DEF Exits!Idle
  <2> QED
    BY <1>3, <2>1 DEF Exits!AutoRead
<1>5. auto' \in [Exits!Seller -> [pc : {"none", "balance", "send", "over"}, amount : Nat]]
  BY <1>4 DEF Exits!ExitsInv, Exits!ChainInv
<1> QED
  BY <1>1, <1>5, AutoOnly DEF Exits!ExitsInv, Exits!ChainInv

LEMMA AutoSendKeeps ==
  ASSUME Exits!ExitsAssumption, Exits!ExitsInv, NEW s \in Exits!Seller, Exits!AutoSend(s)
  PROVE  Exits!ExitsInv'
<1>1. /\ Exits!settings' = Exits!settings /\ Exits!order' = Exits!order /\ held' = held
           /\ past' = past /\ trail' = trail
  BY DEF Exits!AutoSend
<1>2. auto[s].amount \in Nat
  BY DEF Exits!ExitsInv, Exits!ChainInv
<1>3. Exits!Flight(s, 0, auto[s].amount).amount \in Nat
  BY <1>2 DEF Exits!Flight
<1>4. \A f \in flights' : f.amount \in Nat
  BY <1>3 DEF Exits!AutoSend, Exits!ExitsInv, Exits!ChainInv
<1>5. [Exits!Idle EXCEPT !.pc = "over"] = [pc |-> "over", amount |-> 0]
  BY DEF Exits!Idle
<1>6. auto' \in [Exits!Seller -> [pc : {"none", "balance", "send", "over"}, amount : Nat]]
  BY <1>5 DEF Exits!AutoSend, Exits!ExitsInv, Exits!ChainInv
<1> QED
  BY <1>1, <1>4, <1>6, AutoOnly

LEMMA WorkerEndsKeeps == ASSUME Exits!ExitsAssumption, Exits!ExitsInv,
                           Exits!WorkerEnds PROVE Exits!ExitsInv'
<1>1. Exits!settings' = Exits!settings /\ Exits!order' = Exits!order
        /\ Exits!chain' = Exits!chain
  BY DEF Exits!WorkerEnds
<1>2. /\ options' = options /\ coin' = coin /\ options' \in Exits!Options
           /\ coin' \in Exits!Coin
      /\ asked' \in Nat
  BY <1>1, SettingsStay
<1>3. /\ buyFate' = buyFate /\ spend' = spend /\ flights' = flights /\ held' = held
      /\ past' = past /\ Exits!Steps' = Exits!Steps /\ (Exits!Sellable' <=> Exits!Sellable)
  BY <1>1, <1>2, StepsStay DEF Exits!order, Exits!chain, Exits!Sellable
<1>4. trail \in Exits!Trail
  BY DEF Exits!ExitsInv, Exits!TrailInv
<1>5. Exits!TrailInv' /\ (trail.pc = "none" => trail'.pc = "none")
  <2>1. CASE trail' = trail
    BY <1>2, <1>3, <2>1, TrailStays DEF Exits!ExitsInv
  <2>2. CASE trail.pc # "none" /\ trail' = [trail EXCEPT !.pc = "over"]
    <3>1. /\ trail' \in Exits!Trail /\ trail'.pc = "over" /\ trail'.sold = trail.sold
          /\ trail'.opt = trail.opt /\ trail'.at = trail.at /\ trail'.base = trail.base
          /\ trail'.first = trail.first
      BY <1>4, <2>2 DEF Exits!Trail
    <3> QED
      BY <1>3, <2>2, <3>1 DEF Exits!ExitsInv, Exits!TrailInv
  <2> QED
    BY <2>1, <2>2 DEF Exits!WorkerEnds
<1>6. Exits!OrderInv'
  BY <1>1, <1>2, <1>5, OrderStays DEF Exits!ExitsInv
<1>7. [Exits!Idle EXCEPT !.pc = "over"] = [pc |-> "over", amount |-> 0]
  BY DEF Exits!Idle
<1>8. auto' \in [Exits!Seller -> [pc : {"none", "balance", "send", "over"}, amount : Nat]]
  BY <1>7 DEF Exits!WorkerEnds, Exits!ExitsInv, Exits!ChainInv
<1>9. Exits!ChainInv'
  BY <1>3, <1>8 DEF Exits!ExitsInv, Exits!ChainInv
<1> QED
  BY <1>2, <1>3, <1>5, <1>6, <1>9 DEF Exits!ExitsInv

\* The Exits!chain moves balances only, and lands a buy that was under way.
LEMMA ChainOnly ==
  ASSUME Exits!ExitsInv, Exits!settings' = Exits!settings, spend' = spend, reserved' = reserved,
         buy' = buy,
         trail' = trail, auto' = auto, buyFate' = buyFate \/ buyFate = "flying",
         \A f \in flights' : f \in flights,
         held' \in Nat, past' \subseteq Nat
  PROVE  Exits!ExitsInv'
<1>1. /\ options' = options /\ coin' = coin /\ options' \in Exits!Options
           /\ coin' \in Exits!Coin
      /\ asked' \in Nat
  BY SettingsStay
<1>2. Exits!TrailInv'
  BY <1>1, TrailStays DEF Exits!ExitsInv
<1>3. ~ Exits!OverMaxCopy(spend)' <=> ~ Exits!OverMaxCopy(spend)
  BY <1>1 DEF Exits!OverMaxCopy
<1>4. ~ Exits!OverTotal(spend)' <=> ~ Exits!OverTotal(spend)
  BY <1>1 DEF Exits!OverTotal
<1>5. Exits!OrderInv'
  BY <1>1, <1>3, <1>4 DEF Exits!ExitsInv, Exits!OrderInv
<1>6. Exits!ChainInv'
  BY DEF Exits!ExitsInv, Exits!ChainInv
<1> QED
  BY <1>1, <1>2, <1>5, <1>6 DEF Exits!ExitsInv

LEMMA BuyLandsKeeps == ASSUME Exits!ExitsAssumption, Exits!ExitsInv,
                         Exits!BuyLands PROVE Exits!ExitsInv'
<1>1. /\ Exits!settings' = Exits!settings /\ spend' = spend /\ reserved' = reserved
           /\ buy' = buy
      /\ trail' = trail /\ auto' = auto /\ buyFate = "flying" /\ flights' = flights
  BY DEF Exits!BuyLands
<1>2. held \in Nat /\ past \subseteq Nat /\ held + Bought \in Nat
  BY DEF Exits!ExitsInv, Exits!ChainInv, Exits!ExitsAssumption
<1>3. held' \in Nat /\ past' \subseteq Nat
  BY <1>2 DEF Exits!BuyLands, Exits!Balance
<1> QED
  BY <1>1, <1>3, ChainOnly

LEMMA SellLandsKeeps ==
  ASSUME Exits!ExitsAssumption, Exits!ExitsInv, NEW f \in flights, Exits!SellLands(f)
           \/ Exits!SellFails(f)
  PROVE  Exits!ExitsInv'
<1>1. /\ Exits!settings' = Exits!settings /\ Exits!order' = Exits!order /\ trail' = trail
           /\ auto' = auto
      /\ \A g \in flights' : g \in flights
  BY DEF Exits!SellLands, Exits!SellFails
<1>2. spend' = spend /\ reserved' = reserved /\ buy' = buy /\ buyFate' = buyFate
  BY <1>1 DEF Exits!order
<1>3. held \in Nat /\ past \subseteq Nat /\ f.amount \in Nat
  BY DEF Exits!ExitsInv, Exits!ChainInv
<1>4. held' \in Nat /\ past' \subseteq Nat
  <2>1. f.amount <= held => held - f.amount \in Nat
    BY <1>3
  <2> QED
    BY <1>3, <2>1 DEF Exits!SellLands, Exits!SellFails, Exits!Balance
<1> QED
  BY <1>1, <1>2, <1>4, ChainOnly

LEMMA ExitsInvariance == Exits!ExitsAssumption /\ Exits!ExitsInv /\ [Exits!Next]_(Exits!vars) =>
                           Exits!ExitsInv'
<1> SUFFICES ASSUME Exits!ExitsAssumption, Exits!ExitsInv, [Exits!Next]_(Exits!vars)
             PROVE  Exits!ExitsInv'
  OBVIOUS
<1>1. CASE UNCHANGED Exits!vars
  <2>1. /\ Exits!settings' = Exits!settings /\ Exits!order' = Exits!order /\ held' = held
             /\ past' = past
        /\ trail' = trail /\ flights' = flights /\ auto' = auto
    BY <1>1 DEF Exits!vars, Exits!chain
  <2> QED
    BY <2>1, AutoOnly DEF Exits!ExitsInv, Exits!ChainInv
<1>2. CASE Exits!Next
  BY <1>2, GuardsKeeps, BuildKeeps, SignSendKeeps, SpawnExitsKeeps, ObserveSellKeeps,
     TrailConfirmKeeps, TrailSkipKeeps, TrailGuardKeeps, TrailReadKeeps, TrailSendKeeps,
     AutoReadKeeps, AutoSendKeeps, WorkerEndsKeeps, BuyLandsKeeps, SellLandsKeeps DEF Exits!Next
<1> QED
  BY <1>1, <1>2

LEMMA ExitsPlanned == Exits!ExitsInv => Exits!PlannedAmountsOnly
<1> SUFFICES ASSUME Exits!ExitsInv PROVE Exits!PlannedAmountsOnly
  OBVIOUS
<1>1. buyFate # "none" =>
        /\ ~ Exits!OverMaxCopy(spend) /\ ~ Exits!OverTotal(spend)
        /\ options.guard => reserved = "kept" /\ spend + Fee <= options.balance
  BY DEF Exits!ExitsInv, Exits!OrderInv
<1>2. trail \in Exits!Trail
  BY DEF Exits!ExitsInv, Exits!TrailInv
<1>3. ASSUME trail.sold > 0
      PROVE  /\ trail.sold + Exits!Kept(Exits!Steps, trail.base, trail.first,
                  trail.at - 1) <= trail.base
             /\ buyFate = "landed"
             /\ coin.cashback => options.failOpen /\ ~ coin.migrated
  <2> DEFINE kept == Exits!Kept(Exits!Steps, trail.base, trail.first, trail.at - 1)
  <2>1. /\ buyFate = "landed" /\ Exits!Sellable
        /\ trail.base \in Nat /\ trail.opt \in Nat /\ trail.sold + trail.opt = trail.base
        /\ kept \in 0 .. trail.opt
    BY <1>3 DEF Exits!ExitsInv, Exits!TrailInv
  <2>2. trail.sold \in Nat
    BY <1>2 DEF Exits!Trail
  <2> HIDE DEF kept
  <2>3. trail.sold + kept <= trail.base
    BY <2>1, <2>2
  <2> QED
    BY <2>1, <2>3 DEF Exits!Sellable, kept
<1> QED
  BY <1>1, <1>3 DEF Exits!PlannedAmountsOnly

-----------------------------------------------------------------------------
(* ExecutionRows: the inductive invariant *)

\* The worker writes the copies of a row in their order.
Ordered(text) ==
  \A i, j \in DOMAIN text :
    i < j /\ text[i].line.kind = "row" /\ text[j].line.kind = "row"
          /\ text[i].line.buy = text[j].line.buy
      => text[i].line.ver <= text[j].line.ver
WriterInv ==
  /\ \A i \in DOMAIN file : file[i].line \in done
  /\ writing # Null => writing \in done
  /\ \A b \in Buys : [kind |-> "row", buy |-> b, ver |-> 2] \in done =>
       /\ [kind |-> "row", buy |-> b, ver |-> 1] \in done
       /\ writing # [kind |-> "row", buy |-> b, ver |-> 1]
  /\ Ordered(file)

\* Where the line at a place begins; whether a cursor is in a file, before a line or
\* behind the reported beginning of one that is longer than a chunk.
Edge(text, at) == Rows!Begin(text, at + 1)
Placed(text, id, from, c, reported) ==
  /\ c.ino \in 1 .. id
  /\ c.ino = id =>
       /\ c.at <= Len(text)
       /\ c.at > 0 /\ c.anchor # Null => text[c.at] = c.anchor
       /\ ~ c.skip => Edge(text, c.at) = c.at \/ Edge(text, c.at) < from
       /\ c.skip => /\ Edge(text, c.at) + 2 <= c.at
                    /\ Edge(text, c.at) >= from => <<id, Edge(text, c.at)>> \in reported

\* The lines before a place, and their rows.
Before(text, from, at) == {end \in Rows!Ends(text) : end <= at /\ Rows!Begin(text, end) >= from}
RowsOf(text, ends) ==
  {text[end].line : end \in {e \in ends : Rows!Whole(text, e) /\ text[e].line.kind = "row"}}
Broken(text, id, ends) == {<<id, Rows!Begin(text, end)>> :
                           end \in {e \in ends : ~ Rows!Whole(text, e)}}

\* In the first file, by REST, the versions of a row never go back.
Versioned == rest /\ ino = 1
Stem(text, items, at) ==
  \A r \in items : \E end \in Rows!Ends(text) :
    end <= at /\ text[end].line = [kind |-> "row", buy |-> r.buy, ver |-> r.ver]
Waiting(items, b) == \E r \in items : r.buy = b
Behind(lines, pending, items) ==
  \A line \in lines, r \in items :
    r.buy = line.buy => r.ver >= line.ver \/ Waiting(pending, line.buy)

\* The rows a cursor has passed are in the table, or they are pending; what is queued
\* does not take them back.
Covered(lines, t, pending) ==
  \A line \in lines :
    /\ t[line.buy].ver > 0
    /\ t[line.buy].chain = "none" => Waiting(pending, line.buy)
Current(lines, t, q, pending) ==
  /\ \A line \in lines :
       /\ t[line.buy].ver >= line.ver \/ Waiting(pending, line.buy)
       /\ \A r \in pending : r.buy = line.buy => r.ver >= line.ver
  /\ \A i \in DOMAIN q : Behind(lines, pending, q[i])
  /\ \A p, r \in pending : p.buy = r.buy => p.ver = r.ver
CursorOf(text, id, from, gone, t, q, first, c) ==
  LET ends == Before(text, from, c.at)
  IN /\ Placed(text, id, from, c, gone)
     /\ c.ino = id => /\ Broken(text, id, ends) \subseteq gone
                      /\ Covered(RowsOf(text, ends), t, c.pending)
     /\ first => /\ Current(RowsOf(text, ends), t, q, c.pending)
                 /\ Stem(text, c.pending, c.at)
CursorInv(c) == CursorOf(file, ino, origin, dead, table, queue, Versioned, c)

\* The last copy of a row among some lines.
IsLast(lines, b, ver) ==
  \E i \in Rows!Copies(lines, b) : lines[i].ver = ver /\ \A k \in Rows!Copies(lines, b) : k <= i

\* A batch was read from the cursor on, or from the beginning of this file.
BatchOf(text, id, from, gone, first, c, b, r) ==
  LET new == {end \in Before(text, from, b.cursor.at) : c.ino = id => end > c.at}
  IN /\ Placed(text, id, from, b.cursor, gone \cup b.bad)
     /\ b.cursor.ino = id =>
          /\ Broken(text, id, new) \subseteq gone \cup b.bad
          /\ \A line \in RowsOf(text, new) : Waiting(r, line.buy)
     /\ first => b.cursor.at > c.at
BatchInv ==
  /\ batch.cursor = Null <=> pc \notin {"letter", "raw", "commit"}
  /\ batch.cursor = Null => batch = Rows!NoBatch
  /\ batch.cursor # Null =>
       /\ BatchOf(file, ino, origin, dead, Versioned, cursor, batch, rows)
       /\ pc # "letter" => batch.bad \subseteq dead
       /\ pc = "commit" => \A r \in rows : table[r.buy].ver > 0
       /\ \A r \in rows : IsLast(seen, r.buy, r.ver)

\* Where the context and the queue were read to. The context holds lines before that
\* place, its last copy of a row is no older than what was read of it, and nothing queued
\* is newer; the queue goes through the versions of a row in their order.
At == IF batch.cursor = Null THEN cursor.at ELSE batch.cursor.at
ContextOf(text, from, q, at, lines) ==
  /\ \A i \in DOMAIN lines : lines[i].kind = "row" =>
       \E end \in Rows!Ends(text) : end <= at /\ text[end].line = lines[i]
  /\ \A b \in Buys, ver \in 1 .. 2 : IsLast(lines, b, ver) =>
       /\ \A line \in RowsOf(text, Before(text, from, at)) : line.buy = b => line.ver <= ver
       /\ \A i \in DOMAIN q : \A r \in q[i] : r.buy = b => r.ver <= ver
QueueOf(text, q, at) ==
  /\ \A i \in DOMAIN q : Stem(text, q[i], at)
  /\ \A i, j \in DOMAIN q : i <= j =>
       \A r \in q[i], s \in q[j] : r.buy = s.buy => r.ver <= s.ver
QueueInv ==
  Versioned => ContextOf(file, origin, queue, At, seen) /\ QueueOf(file, queue, cursor.at)

\* A save writes a cursor that has passed no more than is accounted for: the main loop
\* that of its batch, the refresh and the enrichment the one in memory, or one of a file
\* that has been rotated away since.
SavingInv ==
  /\ CursorInv(saving.cursor)
  /\ saving.by = "main" =>
       /\ pc = "commit"
       /\ saving.cursor.ino = batch.cursor.ino /\ saving.cursor.at = batch.cursor.at
  /\ saving.by = "refresh" => pc = "refresh"
  /\ saving.by = "enrich" => queue # <<>>
  /\ saving.by # "main" =>
       \/ saving.cursor.ino = cursor.ino /\ saving.cursor.at = cursor.at
       \/ saving.cursor.ino < cursor.ino /\ cursor.at = 0

\* Before the sidecar's first start there is no cursor, and while it is down nothing is
\* in its memory; without REST it enriches what it writes.
ShapeInv ==
  /\ ino > 0
  /\ ~ rest => \A b \in Buys : table[b].ver > 0 => table[b].chain # "none"
  /\ origin = Null => saved = Null /\ cursor = Null
  /\ pc = "down" <=> cursor = Null
  /\ cursor = Null => saving = Null /\ batch = Rows!NoBatch /\ seen = <<>> /\ rows = {}
     /\ queue = <<>>
\* The saved cursor keeps the promise on its own: the sidecar may die at any time.
SavedInv ==
  saved # Null =>
    /\ CursorInv(saved)
    /\ cursor # Null /\ saved.ino = ino => cursor.ino = ino

RowsInv ==
  /\ Rows!TypeOK /\ WriterInv /\ ShapeInv /\ SavedInv
  /\ cursor # Null => CursorInv(cursor) /\ BatchInv /\ QueueInv
  /\ saving # Null => SavingInv

\* The instance has the operators of FiniteSets for its own.
LEMMA RowsSets == \A S : Rows!Cardinality(S) = Cardinality(S)
BY DEF Cardinality, Rows!Cardinality

LEMMA Numbered ==
  ASSUME NEW n \in Nat
  PROVE  IsFiniteSet(1 .. n) /\ Rows!Cardinality(1 .. n) = n
<1>1. 1 \in Int /\ n \in Int
  OBVIOUS
<1>2. /\ IsFiniteSet(1 .. n)
      /\ Rows!Cardinality(1 .. n) = IF 1 > n THEN 0 ELSE n - 1 + 1
  BY <1>1, FS_Interval, RowsSets
<1>3. (IF 1 > n THEN 0 ELSE n - 1 + 1) = n
  OBVIOUS
<1> QED
  BY <1>2, <1>3

\* A bounded set of numbers has a largest one.
LEMMA Highest ==
  ASSUME NEW S \in SUBSET Nat, S # {}, NEW n \in Nat, \A y \in S : y <= n
  PROVE  Rows!Max(S) \in S /\ \A y \in S : y <= Rows!Max(S)
<1> DEFINE G == {m \in Nat : \A T \in SUBSET (0 .. m) : T # {} => \E x \in T : \A y \in T : y <= x}
<1>1. 0 \in G
  <2>1. ASSUME NEW T \in SUBSET (0 .. 0), T # {}
        PROVE  \E x \in T : \A y \in T : y <= x
    <3>1. \A y \in T : y = 0
      OBVIOUS
    <3>2. PICK x \in T : TRUE
      BY <2>1
    <3>3. \A y \in T : y <= x
      BY <3>1
    <3> QED
      BY <3>3
  <2> QED
    BY <2>1
<1>2. ASSUME NEW m \in Nat, m \in G
      PROVE  m + 1 \in G
  <2>1. ASSUME NEW T \in SUBSET (0 .. m + 1), T # {}
        PROVE  \E x \in T : \A y \in T : y <= x
    <3>1. CASE m + 1 \in T
      <4>1. \A y \in T : y <= m + 1
        OBVIOUS
      <4> QED
        BY <3>1, <4>1
    <3>2. CASE m + 1 \notin T
      <4>1. T \in SUBSET (0 .. m)
        BY <3>2
      <4> QED
        BY <1>2, <2>1, <4>1
    <3> QED
      BY <3>1, <3>2
  <2> QED
    BY <2>1
<1>3. n \in G
  <2> HIDE DEF G
  <2> QED
    BY <1>1, <1>2, AllNumbers
<1>4. \E x \in S : \A y \in S : x >= y
  <2>1. S \in SUBSET (0 .. n)
    OBVIOUS
  <2>2. \E x \in S : \A y \in S : y <= x
    BY <1>3, <2>1
  <2> QED
    BY <2>2
<1>5. Rows!Max(S) \in S /\ \A y \in S : Rows!Max(S) >= y
  BY <1>4 DEF Rows!Max
<1> QED
  BY <1>5

\* Every non-empty set of numbers has a smallest one.
LEMMA Lowest ==
  ASSUME NEW S \in SUBSET Nat, S # {}
  PROVE  Rows!Min(S) \in S /\ \A y \in S : Rows!Min(S) <= y
<1>1. PICK x \in S : \A y \in S : ~ (<<y, x>> \in OpToRel(<, Nat))
  BY WFMin, NatLessThanWellFounded
<1>2. \A y \in S : x <= y
  <2> TAKE y \in S
  <2>1. ~ (y < x)
    BY <1>1 DEF OpToRel
  <2> QED
    BY <2>1
<1>3. \E z \in S : \A y \in S : z =< y
  BY <1>2
<1>4. Rows!Min(S) \in S /\ \A y \in S : Rows!Min(S) =< y
  BY <1>3 DEF Rows!Min
<1> QED
  BY <1>4

-----------------------------------------------------------------------------
(* Texts *)

LEMMA EndsOf ==
  ASSUME NEW text \in Seq(Rows!Block)
  PROVE  Rows!Ends(text) \subseteq 1 .. Len(text) /\ Len(text) \in Nat
BY LengthOf DEF Rows!Ends

\* The beginning of a line is the last end before its end.
LEMMA BeginOf ==
  ASSUME NEW text \in Seq(Rows!Block), NEW end \in Nat \ {0}
  PROVE  /\ Rows!Begin(text, end) \in Nat /\ Rows!Begin(text, end) < end
         /\ Rows!Begin(text, end) \in {0} \cup Rows!Ends(text)
         /\ \A i \in Rows!Ends(text) : i < end => i <= Rows!Begin(text, end)
<1> DEFINE S == {0} \cup {i \in Rows!Ends(text) : i < end}
<1>1. S \in SUBSET Nat /\ S # {} /\ \A y \in S : y <= end
  BY EndsOf
<1>2. Rows!Max(S) \in S /\ \A y \in S : y <= Rows!Max(S)
  <2> HIDE DEF S
  <2> QED
    BY <1>1, Highest
<1>3. Rows!Begin(text, end) = Rows!Max(S)
  BY DEF Rows!Begin
<1> QED
  BY <1>1, <1>2, <1>3

LEMMA BeginIs ==
  ASSUME NEW text \in Seq(Rows!Block), NEW end \in Nat \ {0}, NEW b \in {0} \cup Rows!Ends(text),
         b < end,
         \A i \in Rows!Ends(text) : i < end => i <= b
  PROVE  Rows!Begin(text, end) = b
<1>1. b \in Nat /\ Rows!Ends(text) \subseteq Nat
  BY EndsOf
<1>2. Rows!Begin(text, end) <= b
  BY <1>1, BeginOf
<1>3. b <= Rows!Begin(text, end)
  BY <1>1, BeginOf
<1> QED
  BY <1>1, <1>2, <1>3, BeginOf

\* What is appended to a text changes none of its lines.
LEMMA AppendedText ==
  ASSUME NEW text \in Seq(Rows!Block), NEW more \in Seq(Rows!Block)
  PROVE  /\ text \o more \in Seq(Rows!Block) /\ Len(text) <= Len(text \o more)
         /\ \A i \in 1 .. Len(text) : (text \o more)[i] = text[i]
         /\ \A i \in 1 .. Len(text) : i \in Rows!Ends(text \o more) <=> i \in Rows!Ends(text)
         /\ \A i \in 1 .. Len(text) + 1 : Rows!Begin(text \o more, i) = Rows!Begin(text, i)
         /\ \A i \in Rows!Ends(text) : Rows!Whole(text \o more, i) <=> Rows!Whole(text, i)
<1> DEFINE all == text \o more
<1>1. all \in Seq(Rows!Block) /\ Len(all) = Len(text) + Len(more) /\ Len(text) \in Nat
      /\ Len(more) \in Nat
  BY LengthOf
<1>2. \A i \in 1 .. Len(text) : all[i] = text[i]
  OBVIOUS
<1>3. DOMAIN all = 1 .. Len(all) /\ DOMAIN text = 1 .. Len(text)
  BY <1>1, LengthOf
<1> HIDE DEF all
<1>4. \A i \in 1 .. Len(text) : i \in Rows!Ends(all) <=> i \in Rows!Ends(text)
  BY <1>1, <1>2, <1>3 DEF Rows!Ends
<1>5. ASSUME NEW i \in 1 .. Len(text) + 1
      PROVE  Rows!Begin(all, i) = Rows!Begin(text, i)
  <2>1. i \in Nat \ {0}
    BY <1>1
  <2>2. Rows!Begin(text, i) \in {0} \cup Rows!Ends(all)
    BY <1>1, <1>4, <2>1, BeginOf, EndsOf
  <2>3. ASSUME NEW j \in Rows!Ends(all), j < i PROVE j <= Rows!Begin(text, i)
    <3>1. j \in 1 .. Len(text)
      BY <1>1, <2>3, EndsOf
    <3> QED
      BY <1>4, <2>1, <2>3, <3>1, BeginOf
  <2>4. Rows!Begin(text, i) < i
    BY <2>1, BeginOf
  <2> QED
    BY <1>1, <2>1, <2>2, <2>3, <2>4, BeginIs
<1>6. ASSUME NEW i \in Rows!Ends(text)
      PROVE  Rows!Whole(all, i) <=> Rows!Whole(text, i)
  <2>1. i \in 1 .. Len(text) /\ i \in Nat \ {0}
    BY EndsOf
  <2>2. Rows!Begin(all, i) = Rows!Begin(text, i) /\ Rows!Begin(text, i) \in Nat
    BY <1>1, <1>5, <2>1, BeginOf
  <2>3. i - Rows!Begin(text, i) = 2 => i - 1 \in 1 .. Len(text)
    BY <1>1, <2>1, <2>2
  <2> QED
    BY <1>2, <2>1, <2>2, <2>3 DEF Rows!Whole
<1> QED
  BY <1>1, <1>2, <1>4, <1>5, <1>6 DEF all

\* A part of a text and its lines: only the first one may begin before it.
LEMMA Window ==
  ASSUME NEW text \in Seq(Rows!Block), NEW a \in Nat, NEW z \in Nat, a <= z, z <= Len(text)
  PROVE  LET chunkText == SubSeq(text, a + 1, z)
         IN /\ chunkText \in Seq(Rows!Block) /\ Len(chunkText) = z - a
            /\ \A i \in 1 .. z - a : chunkText[i] = text[a + i]
            /\ \A i \in 1 .. z - a : i \in Rows!Ends(chunkText) <=> a + i \in Rows!Ends(text)
            /\ \A i \in 1 .. z - a :
                 Rows!Begin(text, a + i) = IF Rows!Begin(chunkText, i) > 0
                   THEN a + Rows!Begin(chunkText, i)
                                      ELSE Rows!Begin(text, a + 1)
            /\ \A i \in Rows!Ends(chunkText) : Rows!Begin(chunkText, i) > 0 =>
                 (Rows!Whole(chunkText, i) <=> Rows!Whole(text, a + i))
<1> DEFINE win == SubSeq(text, a + 1, z)
<1>1. win \in Seq(Rows!Block) /\ Len(win) = z - a /\ Len(text) \in Nat
  BY LengthOf
<1>2. \A i \in 1 .. z - a : win[i] = text[a + i]
  OBVIOUS
<1>3. DOMAIN win = 1 .. z - a /\ DOMAIN text = 1 .. Len(text)
  BY <1>1, LengthOf
<1> HIDE DEF win
<1>4. \A i \in 1 .. z - a : i \in Rows!Ends(win) <=> a + i \in Rows!Ends(text)
  BY <1>1, <1>2, <1>3 DEF Rows!Ends
<1>5. ASSUME NEW i \in 1 .. z - a
      PROVE  Rows!Begin(text, a + i) = IF Rows!Begin(win, i) > 0 THEN a + Rows!Begin(win, i)
                                  ELSE Rows!Begin(text, a + 1)
  <2>1. i \in Nat \ {0} /\ a + i \in Nat \ {0} /\ a + 1 \in Nat \ {0}
    OBVIOUS
  <2>2. /\ Rows!Begin(win, i) \in Nat /\ Rows!Begin(win, i) < i
           /\ Rows!Begin(win, i) \in {0} \cup Rows!Ends(win)
        /\ \A j \in Rows!Ends(win) : j < i => j <= Rows!Begin(win, i)
    BY <1>1, <2>1, BeginOf
  <2>3. CASE Rows!Begin(win, i) > 0
    <3>1. a + Rows!Begin(win, i) \in Rows!Ends(text) /\ a + Rows!Begin(win, i) < a + i
      BY <1>4, <2>2, <2>3
    <3>2. ASSUME NEW j \in Rows!Ends(text), j < a + i PROVE j <= a + Rows!Begin(win, i)
      <4>1. j \in Nat
        BY EndsOf
      <4>2. CASE j > a
        <5>1. j - a \in 1 .. z - a /\ a + (j - a) = j /\ j - a < i
          BY <3>2, <4>1, <4>2
        <5>2. j - a \in Rows!Ends(win)
          BY <1>4, <5>1
        <5> QED
          BY <2>2, <4>1, <5>1, <5>2
      <4> QED
        BY <2>2, <4>1, <4>2
    <3> QED
      BY <2>1, <2>3, <3>1, <3>2, BeginIs
  <2>4. CASE ~ (Rows!Begin(win, i) > 0)
    <3>1. Rows!Begin(win, i) = 0
      BY <2>2, <2>4
    <3>2. /\ Rows!Begin(text, a + 1) \in Nat /\ Rows!Begin(text, a + 1) < a + 1
          /\ Rows!Begin(text, a + 1) \in {0} \cup Rows!Ends(text)
          /\ \A j \in Rows!Ends(text) : j < a + 1 => j <= Rows!Begin(text, a + 1)
      BY <2>1, BeginOf
    <3>3. ASSUME NEW j \in Rows!Ends(text), j < a + i PROVE j <= Rows!Begin(text, a + 1)
      <4>1. j \in Nat
        BY EndsOf
      <4>2. CASE j > a
        <5>1. j - a \in 1 .. z - a /\ a + (j - a) = j /\ j - a < i /\ j - a > 0
          BY <3>3, <4>1, <4>2
        <5>2. j - a \in Rows!Ends(win)
          BY <1>4, <5>1
        <5> QED
          BY <2>2, <3>1, <5>1, <5>2
      <4> QED
        BY <3>2, <4>1, <4>2
    <3>4. Rows!Begin(text, a + 1) < a + i
      BY <3>2
    <3>5. Rows!Begin(text, a + i) = Rows!Begin(text, a + 1)
      BY <2>1, <3>2, <3>3, <3>4, BeginIs
    <3> QED
      BY <2>4, <3>5
  <2> QED
    BY <2>3, <2>4
<1>6. ASSUME NEW i \in Rows!Ends(win), Rows!Begin(win, i) > 0
      PROVE  Rows!Whole(win, i) <=> Rows!Whole(text, a + i)
  <2>1. i \in 1 .. z - a /\ i \in Nat \ {0}
    BY <1>1, EndsOf
  <2>2. Rows!Begin(win, i) \in Nat /\ Rows!Begin(text, a + i) = a + Rows!Begin(win, i)
    BY <1>1, <1>5, <1>6, <2>1, BeginOf
  <2>3. (a + i) - (a + Rows!Begin(win, i)) = i - Rows!Begin(win, i)
    BY <2>1, <2>2
  <2>4. i - Rows!Begin(win, i) = 2 => i - 1 \in 1 .. z - a /\ a + (i - 1) = (a + i) - 1
    BY <1>6, <2>1, <2>2
  <2> QED
    BY <1>2, <2>1, <2>2, <2>3, <2>4 DEF Rows!Whole
<1> QED
  BY <1>1, <1>2, <1>4, <1>5, <1>6 DEF win
-----------------------------------------------------------------------------
(* Lines *)

\* LinesAt, place by place.
Lists(list, n, text, ends) ==
  list = [m \in 0 .. n |->
            IF m = 0 THEN <<>>
             ELSE IF m \in ends THEN Append(list[m - 1], text[m].line) ELSE list[m - 1]]

LEMMA ListsPlaces ==
  ASSUME NEW text, NEW ends, NEW n \in Nat, NEW f, Lists(f, n, text, ends)
  PROVE  /\ f[0] = <<>>
         /\ \A m \in 1 .. n :
              f[m] = IF m \in ends THEN Append(f[m - 1], text[m].line) ELSE f[m - 1]
<1>1. \A m \in 0 .. n :
        f[m] = IF m = 0 THEN <<>>
             ELSE IF m \in ends THEN Append(f[m - 1], text[m].line) ELSE f[m - 1]
  BY DEF Lists
<1>2. f[0] = <<>>
  BY <1>1
<1>3. \A m \in 1 .. n : m \in 0 .. n /\ m > 0 /\ m # 0
  OBVIOUS
<1> QED
  BY <1>1, <1>2, <1>3

LEMMA ListsExist ==
  ASSUME NEW text, NEW ends
  PROVE  \A n \in Nat : \E f : Lists(f, n, text, ends)
<1> DEFINE S == {n \in Nat : \E f : Lists(f, n, text, ends)}
<1>1. 0 \in S
  <2> DEFINE f == [m \in 0 .. 0 |-> <<>>]
  <2>1. f = [m \in 0 .. 0 |->
               IF m = 0 THEN <<>>
             ELSE IF m \in ends THEN Append(f[m - 1], text[m].line) ELSE f[m - 1]]
    OBVIOUS
  <2>2. Lists(f, 0, text, ends)
    <3> HIDE DEF f
    <3> QED
      BY <2>1 DEF Lists
  <2> QED
    BY <2>2
<1>2. ASSUME NEW n \in Nat, n \in S
      PROVE  n + 1 \in S
  <2>1. PICK f : Lists(f, n, text, ends)
    BY <1>2
  <2> DEFINE g == [m \in 0 .. n + 1 |->
                     IF m = 0 THEN <<>>
             ELSE IF m \in ends THEN Append(f[m - 1], text[m].line) ELSE f[m - 1]]
  <2>2. \A m \in 0 .. n : g[m] = f[m]
    <3>1. \A m \in 0 .. n :
            f[m] = IF m = 0 THEN <<>>
                   ELSE IF m \in ends THEN Append(f[m - 1], text[m].line) ELSE f[m - 1]
      BY <2>1 DEF Lists
    <3>2. \A m \in 0 .. n : m \in 0 .. n + 1
      OBVIOUS
    <3> QED
      BY <3>1, <3>2
  <2>3. \A m \in 0 .. n + 1 : m > 0 => m - 1 \in 0 .. n
    OBVIOUS
  <2>4. \A m \in 0 .. n + 1 :
          g[m] = IF m = 0 THEN <<>>
                 ELSE IF m \in ends THEN Append(g[m - 1], text[m].line) ELSE g[m - 1]
    <3>1. \A m \in 0 .. n + 1 : m # 0 => m - 1 \in 0 .. n
      BY <2>3
    <3>2. \A m \in 0 .. n + 1 :
            g[m] = IF m = 0 THEN <<>>
                   ELSE IF m \in ends THEN Append(f[m - 1], text[m].line) ELSE f[m - 1]
      OBVIOUS
    <3> HIDE DEF g
    <3> QED
      BY <2>2, <3>1, <3>2
  <2>5. g = [m \in 0 .. n + 1 |-> g[m]]
    OBVIOUS
  <2> HIDE DEF g
  <2>6. Lists(g, n + 1, text, ends)
    BY <2>4, <2>5 DEF Lists
  <2> QED
    BY <2>6
<1> HIDE DEF S
<1>3. Nat \subseteq S
  BY <1>1, <1>2, AllNumbers
<1> QED
  BY <1>3 DEF S

\* Where the lines of a list end.
Places(pos, list, text, ends) ==
  /\ list \in Seq(Rows!Line) /\ pos \in [1 .. Len(list) -> ends]
  /\ \A k \in 1 .. Len(list) : list[k] = text[pos[k]].line
  /\ \A j, k \in 1 .. Len(list) : j < k => pos[j] < pos[k]
  /\ \A i \in ends : \E k \in 1 .. Len(list) : pos[k] = i

LEMMA BlockLine ==
  ASSUME NEW block \in Rows!Block
  PROVE  block.line \in Rows!Line /\ block.half \in 1 .. 2
BY DEF Rows!Block

LEMMA PlacesGrow ==
  ASSUME NEW text \in Seq(Rows!Block), NEW ends \in SUBSET (1 .. Len(text)),
         NEW m \in 1 .. Len(text),
         NEW list, NEW pos, m \in ends,
         Places(pos, list, text, ends \cap (1 .. m - 1))
  PROVE  \E at : Places(at, Append(list, text[m].line), text, ends \cap (1 .. m))
<1> DEFINE old == ends \cap (1 .. m - 1)
           new == ends \cap (1 .. m)
           longer == Append(list, text[m].line)
           at == [k \in 1 .. Len(list) + 1 |-> IF k = Len(list) + 1 THEN m ELSE pos[k]]
<1>1. list \in Seq(Rows!Line) /\ Len(list) \in Nat /\ text[m].line \in Rows!Line
  BY ItemOf, LengthOf, BlockLine DEF Places
<1>2. /\ longer \in Seq(Rows!Line) /\ Len(longer) = Len(list) + 1
      /\ longer[Len(list) + 1] = text[m].line
      /\ \A k \in 1 .. Len(list) : longer[k] = list[k]
  BY <1>1
<1>3. \A k \in 1 .. Len(list) : pos[k] \in old /\ pos[k] \in new /\ pos[k] < m
  BY DEF Places
<1>4. m \in new
  OBVIOUS
<1>5. /\ at[Len(list) + 1] = m
      /\ \A k \in 1 .. Len(list) : at[k] = pos[k]
      /\ at \in [1 .. Len(list) + 1 -> new]
  BY <1>1, <1>3, <1>4
<1> HIDE DEF at, longer
<1>6. \A k \in 1 .. Len(list) + 1 : k = Len(list) + 1 \/ k \in 1 .. Len(list)
  BY <1>1
<1>7. \A k \in 1 .. Len(longer) : longer[k] = text[at[k]].line
  BY <1>2, <1>5, <1>6 DEF Places
<1>8. ASSUME NEW j \in 1 .. Len(longer), NEW k \in 1 .. Len(longer), j < k
      PROVE  at[j] < at[k]
  <2>1. j \in 1 .. Len(list)
    BY <1>1, <1>2, <1>8
  <2>2. CASE k = Len(list) + 1
    BY <1>3, <1>5, <2>1, <2>2
  <2>3. CASE k \in 1 .. Len(list)
    BY <1>5, <1>8, <2>1, <2>3 DEF Places
  <2> QED
    BY <1>2, <1>6, <2>2, <2>3
<1>9. ASSUME NEW i \in new
      PROVE  \E k \in 1 .. Len(longer) : at[k] = i
  <2>1. CASE i = m
    <3>1. Len(list) + 1 \in 1 .. Len(longer)
      BY <1>1, <1>2
    <3> QED
      BY <1>5, <2>1, <3>1
  <2>2. CASE i # m
    <3>1. i \in old
      BY <2>2
    <3>2. PICK k \in 1 .. Len(list) : pos[k] = i
      BY <3>1 DEF Places
    <3>3. k \in 1 .. Len(longer)
      BY <1>1, <1>2
    <3> QED
      BY <1>5, <3>2, <3>3
  <2> QED
    BY <2>1, <2>2
<1>10. Places(at, longer, text, new)
  BY <1>2, <1>5, <1>7, <1>8, <1>9 DEF Places
<1> QED
  BY <1>10 DEF longer

\* The lines at some places are exactly theirs, in the order of the places.
LEMMA LinesPlaced ==
  ASSUME NEW text \in Seq(Rows!Block), NEW ends \in SUBSET (1 .. Len(text))
  PROVE  \E pos : Places(pos, Rows!LinesAt(text, ends), text, ends)
<1> DEFINE Rec(f) == f = [m \in 0 .. Len(text) |->
                            IF m = 0 THEN <<>>
                            ELSE IF m \in ends THEN Append(f[m - 1], text[m].line) ELSE f[m - 1]]
           list == CHOOSE f : Rec(f)
<1>1. Len(text) \in Nat
  BY LengthOf
<1>2. \E f : Rec(f)
  <2>1. PICK f : Lists(f, Len(text), text, ends)
    BY <1>1, ListsExist
  <2>2. Rec(f)
    BY <2>1 DEF Lists
  <2> HIDE DEF Rec
  <2> QED
    BY <2>2
<1>3. Rec(list)
  <2> HIDE DEF Rec
  <2> QED
    BY <1>2
<1>4. Rows!LinesAt(text, ends) = list[Len(text)]
  BY DEF Rows!LinesAt
<1> HIDE DEF list
<1>5. /\ list[0] = <<>>
      /\ \A m \in 1 .. Len(text) :
           list[m] = IF m \in ends THEN Append(list[m - 1], text[m].line) ELSE list[m - 1]
  <2>1. Lists(list, Len(text), text, ends)
    BY <1>3 DEF Lists
  <2> HIDE DEF Rec
  <2> QED
    BY <1>1, <2>1, ListsPlaces
<1> HIDE DEF Rec
<1> DEFINE Found(m) == \E pos : Places(pos, list[m], text, ends \cap (1 .. m))
           S == {m \in Nat : m <= Len(text) => Found(m)}
<1>6. 0 \in S
  <2> DEFINE none == [k \in 1 .. 0 |-> 0]
  <2>1. list[0] \in Seq(Rows!Line) /\ Len(list[0]) = 0
    BY <1>5
  <2>2. 1 .. 0 = {} /\ ends \cap (1 .. 0) = {}
    OBVIOUS
  <2>3. none \in [1 .. 0 -> ends \cap (1 .. 0)]
    BY <2>2
  <2>4. Places(none, list[0], text, ends \cap (1 .. 0))
    BY <2>1, <2>2, <2>3 DEF Places
  <2>5. Found(0)
    BY <2>4
  <2> HIDE DEF Found
  <2> QED
    BY <2>5
<1>7. ASSUME NEW m \in Nat, m \in S
      PROVE  m + 1 \in S
  <2> SUFFICES ASSUME m + 1 <= Len(text) PROVE Found(m + 1)
    <3> HIDE DEF Found
    <3> QED
      OBVIOUS
  <2>1. PICK pos : Places(pos, list[m], text, ends \cap (1 .. m))
    <3>1. m <= Len(text)
      BY <1>1
    <3>2. Found(m)
      <4> HIDE DEF Found
      <4> QED
        BY <1>7, <3>1
    <3> QED
      BY <3>2
  <2>2. m + 1 \in 1 .. Len(text) /\ (m + 1) - 1 = m
    BY <1>1
  <2>3. CASE m + 1 \in ends
    <3>1. list[m + 1] = Append(list[m], text[m + 1].line)
      BY <1>5, <2>2, <2>3
    <3> QED
      BY <2>1, <2>2, <2>3, <3>1, PlacesGrow
  <2>4. CASE m + 1 \notin ends
    <3>1. list[m + 1] = list[m] /\ ends \cap (1 .. m + 1) = ends \cap (1 .. m)
      BY <1>5, <2>2, <2>4
    <3> QED
      BY <2>1, <3>1
  <2> QED
    BY <2>3, <2>4
<1>8. Len(text) \in S
  <2> HIDE DEF S
  <2> QED
    BY <1>1, <1>6, <1>7, AllNumbers
<1>9. Found(Len(text))
  <2> HIDE DEF Found
  <2> QED
    BY <1>1, <1>8
<1>10. ends \cap (1 .. Len(text)) = ends
  OBVIOUS
<1> QED
  BY <1>4, <1>9, <1>10
-----------------------------------------------------------------------------
(* Rows of lines *)

LEMMA Greater ==
  ASSUME NEW x \in Int, NEW y \in Int
  PROVE  Rows!Max({x, y}) = IF x >= y THEN x ELSE y
BY DEF Rows!Max

LEMMA Smaller ==
  ASSUME NEW x \in Int, NEW y \in Int
  PROVE  Rows!Min({x, y}) = IF x <= y THEN x ELSE y
BY DEF Rows!Min

LEMMA CopiesOf ==
  ASSUME NEW lines \in Seq(Rows!Line), NEW b
  PROVE  /\ Rows!Copies(lines, b) \subseteq 1 .. Len(lines) /\ Len(lines) \in Nat
         /\ \A i \in 1 .. Len(lines) :
              i \in Rows!Copies(lines, b) <=> lines[i].kind = "row" /\ lines[i].buy = b
<1>1. DOMAIN lines = 1 .. Len(lines) /\ Len(lines) \in Nat
  BY LengthOf
<1> QED
  BY <1>1 DEF Rows!Copies

LEMMA LineOf ==
  ASSUME NEW line \in Rows!Line
  PROVE  line.buy \in Buys /\ line.ver \in 1 .. 2 /\ line.kind \in {"row", "side"}
         /\ (line.kind = "row" => line = [kind |-> "row", buy |-> line.buy, ver |-> line.ver])
BY DEF Rows!Line

LEMMA LastOnce ==
  ASSUME NEW lines \in Seq(Rows!Line), NEW b, NEW v, NEW w, IsLast(lines, b, v), IsLast(lines, b, w)
  PROVE  v = w
<1>1. PICK i \in Rows!Copies(lines, b) : lines[i].ver = v /\ \A k \in Rows!Copies(lines, b) : k <= i
  BY DEF IsLast
<1>2. PICK j \in Rows!Copies(lines, b) : lines[j].ver = w /\ \A k \in Rows!Copies(lines, b) : k <= j
  BY DEF IsLast
<1>3. i \in Nat /\ j \in Nat /\ i <= j /\ j <= i
  BY <1>1, <1>2, CopiesOf
<1> QED
  BY <1>1, <1>2, <1>3

\* Merged rows are the last copies, and there is one of each.
LEMMA MergedLast ==
  ASSUME NEW lines \in Seq(Rows!Line)
  PROVE  /\ \A r \in Rows!Merged(lines) : r \in Rows!Item /\ IsLast(lines, r.buy, r.ver)
         /\ \A i \in 1 .. Len(lines) : lines[i].kind = "row" =>
              \E r \in Rows!Merged(lines) : r.buy = lines[i].buy
<1>1. ASSUME NEW b \in Buys, Rows!Copies(lines, b) # {}
      PROVE  /\ IsLast(lines, b, lines[Rows!Max(Rows!Copies(lines, b))].ver)
             /\ lines[Rows!Max(Rows!Copies(lines, b))].ver \in 1 .. 2
  <2>1. /\ Rows!Copies(lines, b) \in SUBSET Nat /\ Rows!Copies(lines, b) \subseteq 1 .. Len(lines)
        /\ Len(lines) \in Nat /\ \A y \in Rows!Copies(lines, b) : y <= Len(lines)
    BY CopiesOf
  <2>2. /\ Rows!Max(Rows!Copies(lines, b)) \in Rows!Copies(lines, b)
        /\ \A y \in Rows!Copies(lines, b) : y <= Rows!Max(Rows!Copies(lines, b))
    BY <1>1, <2>1, Highest
  <2>3. lines[Rows!Max(Rows!Copies(lines, b))] \in Rows!Line
    BY <2>1, <2>2, ItemOf
  <2> QED
    BY <2>2, <2>3, LineOf DEF IsLast
<1>2. ASSUME NEW r \in Rows!Merged(lines) PROVE r \in Rows!Item /\ IsLast(lines, r.buy, r.ver)
  <2>1. PICK b \in Buys :
          /\ Rows!Copies(lines, b) # {}
          /\ r = [buy |-> b, ver |-> lines[Rows!Max(Rows!Copies(lines, b))].ver,
                  side |-> b \in Rows!Confirmed(lines)]
    BY DEF Rows!Merged
  <2> QED
    BY <1>1, <2>1 DEF Rows!Item
<1>3. ASSUME NEW i \in 1 .. Len(lines), lines[i].kind = "row"
      PROVE  \E r \in Rows!Merged(lines) : r.buy = lines[i].buy
  <2> DEFINE b == lines[i].buy
             r == [buy |-> b, ver |-> lines[Rows!Max(Rows!Copies(lines, b))].ver,
                   side |-> b \in Rows!Confirmed(lines)]
  <2>1. b \in Buys
    BY ItemOf, LineOf
  <2>2. i \in Rows!Copies(lines, b)
    BY <1>3, CopiesOf
  <2>3. r \in Rows!Merged(lines)
    BY <2>1, <2>2 DEF Rows!Merged
  <2>4. r.buy = b
    OBVIOUS
  <2> QED
    BY <2>3, <2>4
<1> QED
  BY <1>2, <1>3

\* The last lines of a sequence.
LEMMA Rest ==
  ASSUME NEW s \in Seq(Rows!Line), NEW a \in Nat \ {0}, a <= Len(s) + 1
  PROVE  LET t == SubSeq(s, a, Len(s))
         IN /\ t \in Seq(Rows!Line) /\ Len(t) = Len(s) - a + 1 /\ Len(s) \in Nat
            /\ \A k \in 1 .. Len(t) : t[k] = s[k + a - 1]
<1>1. Len(s) \in Nat
  BY LengthOf
<1> QED
  BY <1>1

LEMMA LastOfRest ==
  ASSUME NEW s \in Seq(Rows!Line), NEW a \in Nat \ {0}, a <= Len(s) + 1, NEW b, NEW v,
         IsLast(SubSeq(s, a, Len(s)), b, v)
  PROVE  IsLast(s, b, v)
<1> DEFINE t == SubSeq(s, a, Len(s))
<1>1. /\ t \in Seq(Rows!Line) /\ Len(t) = Len(s) - a + 1 /\ Len(s) \in Nat
      /\ \A k \in 1 .. Len(t) : t[k] = s[k + a - 1]
  BY Rest
<1>2. PICK i \in Rows!Copies(t, b) : t[i].ver = v /\ \A k \in Rows!Copies(t, b) : k <= i
  BY DEF IsLast
<1> HIDE DEF t
<1>3. i \in 1 .. Len(t) /\ t[i].kind = "row" /\ t[i].buy = b
  BY <1>1, CopiesOf
<1>4. i + a - 1 \in 1 .. Len(s) /\ s[i + a - 1] = t[i]
  BY <1>1, <1>3
<1>5. i + a - 1 \in Rows!Copies(s, b)
  BY <1>3, <1>4, CopiesOf
<1>6. ASSUME NEW k \in Rows!Copies(s, b) PROVE k <= i + a - 1
  <2>1. k \in 1 .. Len(s) /\ s[k].kind = "row" /\ s[k].buy = b
    BY CopiesOf
  <2>2. CASE k < a
    BY <1>3, <2>1, <2>2
  <2>3. CASE ~ (k < a)
    <3>1. k - a + 1 \in 1 .. Len(t) /\ (k - a + 1) + a - 1 = k
      BY <1>1, <2>1, <2>3
    <3>2. t[k - a + 1] = s[k]
      BY <1>1, <3>1
    <3>3. k - a + 1 \in Rows!Copies(t, b)
      BY <1>1, <2>1, <3>1, <3>2, CopiesOf
    <3>4. k - a + 1 <= i
      BY <1>2, <3>3
    <3> QED
      BY <1>3, <2>1, <3>4
  <2> QED
    BY <2>2, <2>3
<1> QED
  BY <1>2, <1>4, <1>5, <1>6 DEF IsLast

LEMMA LastOfBoth ==
  ASSUME NEW s \in Seq(Rows!Line), NEW t \in Seq(Rows!Line), NEW b, NEW v, IsLast(s \o t, b, v)
  PROVE  IsLast(t, b, v) \/ (Rows!Copies(t, b) = {} /\ IsLast(s, b, v))
<1> DEFINE u == s \o t
<1>1. /\ u \in Seq(Rows!Line) /\ Len(u) = Len(s) + Len(t) /\ Len(s) \in Nat /\ Len(t) \in Nat
      /\ \A k \in 1 .. Len(s) : u[k] = s[k]
      /\ \A k \in 1 .. Len(t) : u[Len(s) + k] = t[k]
  BY LengthOf
<1>2. PICK i \in Rows!Copies(u, b) : u[i].ver = v /\ \A k \in Rows!Copies(u, b) : k <= i
  BY DEF IsLast
<1> HIDE DEF u
<1>3. i \in 1 .. Len(u) /\ u[i].kind = "row" /\ u[i].buy = b
  BY <1>1, CopiesOf
<1>4. ASSUME NEW k \in Rows!Copies(t, b) PROVE Len(s) + k \in Rows!Copies(u, b) /\ Len(s) + k <= i
  <2>1. k \in 1 .. Len(t) /\ t[k].kind = "row" /\ t[k].buy = b
    BY CopiesOf
  <2>2. Len(s) + k \in 1 .. Len(u) /\ u[Len(s) + k] = t[k]
    BY <1>1, <2>1
  <2> QED
    BY <1>1, <1>2, <2>1, <2>2, CopiesOf
<1>5. CASE i <= Len(s)
  <2>1. i \in 1 .. Len(s) /\ u[i] = s[i]
    BY <1>1, <1>3, <1>5
  <2>2. i \in Rows!Copies(s, b)
    BY <1>3, <2>1, CopiesOf
  <2>3. Rows!Copies(t, b) = {}
    <3>1. ASSUME NEW k \in Rows!Copies(t, b) PROVE FALSE
      <4>1. k \in 1 .. Len(t)
        BY CopiesOf
      <4> QED
        BY <1>1, <1>4, <1>5, <2>1, <4>1
    <3> QED
      BY <3>1
  <2>4. ASSUME NEW k \in Rows!Copies(s, b) PROVE k <= i
    <3>1. k \in 1 .. Len(s) /\ s[k].kind = "row" /\ s[k].buy = b
      BY CopiesOf
    <3>2. k \in Rows!Copies(u, b)
      BY <1>1, <3>1, CopiesOf
    <3> QED
      BY <1>2, <3>2
  <2> QED
    BY <1>2, <2>1, <2>2, <2>3, <2>4 DEF IsLast
<1>6. CASE ~ (i <= Len(s))
  <2>1. i - Len(s) \in 1 .. Len(t) /\ Len(s) + (i - Len(s)) = i
    BY <1>1, <1>3, <1>6
  <2>2. u[i] = t[i - Len(s)]
    BY <1>1, <2>1
  <2>3. i - Len(s) \in Rows!Copies(t, b)
    BY <1>3, <2>1, <2>2, CopiesOf
  <2>4. ASSUME NEW k \in Rows!Copies(t, b) PROVE k <= i - Len(s)
    <3>1. k \in 1 .. Len(t)
      BY CopiesOf
    <3> QED
      BY <1>1, <1>3, <1>4, <3>1
  <2> QED
    BY <1>2, <2>2, <2>3, <2>4 DEF IsLast
<1> QED
  BY <1>5, <1>6

LEMMA ScopedRest ==
  ASSUME NEW s \in Seq(Rows!Line), NEW n \in Nat
  PROVE  /\ Rows!Scoped(s, n) \in Seq(Rows!Line)
         /\ Rows!Scoped(s, n) = <<>> \/ \E a \in 1 .. Len(s) :
            Rows!Scoped(s, n) = SubSeq(s, a, Len(s))
         /\ \A i \in 1 .. Len(s) :
              s[i].kind = "row"
                /\ Rows!Cardinality({j \in {k \in DOMAIN s : s[k].kind = "row"} : j >= i}) <= n =>
                \E a \in 1 .. i : Rows!Scoped(s, n) = SubSeq(s, a, Len(s))
<1> DEFINE all == {i \in DOMAIN s : s[i].kind = "row"}
           last == {i \in all : Rows!Cardinality({j \in all : j >= i}) <= n}
<1>1. DOMAIN s = 1 .. Len(s) /\ Len(s) \in Nat
  BY LengthOf
<1>2. Rows!Scoped(s, n) = IF last = {} THEN <<>> ELSE SubSeq(s, Rows!Min(last), Len(s))
  BY DEF Rows!Scoped
<1>3. last \in SUBSET Nat /\ last \subseteq 1 .. Len(s)
  BY <1>1
<1>4. \A i \in 1 .. Len(s) :
        s[i].kind = "row" /\ Rows!Cardinality({j \in all : j >= i}) <= n => i \in last
  BY <1>1
<1> HIDE DEF last
<1>5. last # {} => Rows!Min(last) \in last /\ \A y \in last : Rows!Min(last) <= y
  BY <1>3, Lowest
<1>6. CASE last = {}
  <2>1. Rows!Scoped(s, n) = <<>> /\ <<>> \in Seq(Rows!Line)
    BY <1>2, <1>6
  <2> QED
    BY <1>4, <1>6, <2>1
<1>7. CASE last # {}
  <2>1. Rows!Min(last) \in 1 .. Len(s) /\ Rows!Scoped(s, n) = SubSeq(s, Rows!Min(last), Len(s))
    BY <1>2, <1>3, <1>5, <1>7
  <2>2. SubSeq(s, Rows!Min(last), Len(s)) \in Seq(Rows!Line)
    BY <1>1, <2>1, Rest
  <2>3. \A i \in last : Rows!Min(last) \in 1 .. i
    BY <1>3, <1>5, <2>1
  <2> QED
    BY <1>4, <2>1, <2>2, <2>3
<1> QED
  BY <1>6, <1>7

\* The rows that are stored or looked up are last copies of what was read.
LEMMA ScopedLast ==
  ASSUME NEW s \in Seq(Rows!Line), NEW n \in Nat, NEW r \in Rows!Merged(Rows!Scoped(s, n))
  PROVE  r \in Rows!Item /\ IsLast(s, r.buy, r.ver)
<1>1. Rows!Scoped(s, n) \in Seq(Rows!Line)
  BY ScopedRest
<1>2. r \in Rows!Item /\ IsLast(Rows!Scoped(s, n), r.buy, r.ver)
  BY <1>1, MergedLast
<1>3. Rows!Scoped(s, n) # <<>>
  <2>1. PICK i \in Rows!Copies(Rows!Scoped(s, n), r.buy) : TRUE
    BY <1>2 DEF IsLast
  <2>2. i \in 1 .. Len(Rows!Scoped(s, n))
    BY <1>1, CopiesOf
  <2> QED
    BY <2>2
<1>4. PICK a \in 1 .. Len(s) : Rows!Scoped(s, n) = SubSeq(s, a, Len(s))
  BY <1>3, ScopedRest
<1>5. a \in Nat \ {0} /\ a <= Len(s) + 1
  BY LengthOf
<1> QED
  BY <1>2, <1>4, <1>5, LastOfRest

LEMMA OverEither ==
  ASSUME NEW new, NEW old
  PROVE  /\ new \subseteq Rows!Over(new, old) /\ Rows!Over(new, old) \subseteq new \cup old
         /\ \A r \in Rows!Over(new, old) : r \in new
            \/ (r \in old /\ ~ \E s \in new : s.buy = r.buy)
         /\ \A r \in old : \E s \in Rows!Over(new, old) : s.buy = r.buy
<1>1. \A r \in old : r \in Rows!Over(new, old) \/ \E s \in new : s.buy = r.buy
  BY DEF Rows!Over
<1>2. new \subseteq Rows!Over(new, old)
  BY DEF Rows!Over
<1> QED
  BY <1>1, <1>2 DEF Rows!Over

LEMMA RefreshRowsLast ==
  ASSUME NEW s \in Seq(Rows!Line)
  PROVE  \A r \in Rows!RefreshRows(s) : r \in Rows!Item /\ IsLast(s, r.buy, r.ver)
<1> TAKE r \in Rows!RefreshRows(s)
<1>1. r \in Rows!Merged(s) \/ r \in Rows!Merged(Rows!Scoped(s, 1))
  BY OverEither DEF Rows!RefreshRows
<1> QED
  BY <1>1, MergedLast, ScopedLast

\* The lines a sidecar keeps as context: the last ones, with all of a batch.
KeptLines(all) == SubSeq(all, Rows!Max({1, Len(all) - Keep + 1}), Len(all))

LEMMA KeptRest ==
  ASSUME Rows!RowsAssumption, NEW all \in Seq(Rows!Line)
  PROVE  \E a \in Nat \ {0} :
           /\ a <= Len(all) + 1 /\ KeptLines(all) = SubSeq(all, a, Len(all))
           /\ a = 1 \/ a = Len(all) - Keep + 1
<1> DEFINE a == Rows!Max({1, Len(all) - Keep + 1})
<1>1. Len(all) \in Nat /\ Keep \in Nat \ {0}
  BY LengthOf DEF Rows!RowsAssumption
<1>2. a = IF 1 >= Len(all) - Keep + 1 THEN 1 ELSE Len(all) - Keep + 1
  BY <1>1, Greater
<1> HIDE DEF a
<1>3. a \in Nat \ {0} /\ a <= Len(all) + 1 /\ (a = 1 \/ a = Len(all) - Keep + 1)
  BY <1>1, <1>2
<1> QED
  BY <1>3 DEF KeptLines, a

LEMMA KeptLast ==
  ASSUME Rows!RowsAssumption, NEW s \in Seq(Rows!Line), NEW t \in Seq(Rows!Line), NEW b, NEW v,
         IsLast(KeptLines(s \o t), b, v)
  PROVE  IsLast(t, b, v) \/ (Rows!Copies(t, b) = {} /\ IsLast(s, b, v))
<1>1. s \o t \in Seq(Rows!Line)
  OBVIOUS
<1>2. IsLast(s \o t, b, v)
  BY <1>1, KeptRest, LastOfRest
<1> QED
  BY <1>2, LastOfBoth

LEMMA KeptTyped ==
  ASSUME Rows!RowsAssumption, NEW s \in Seq(Rows!Line), NEW t \in Seq(Rows!Line)
  PROVE  /\ KeptLines(s \o t) \in Seq(Rows!Line)
         /\ \A i \in 1 .. Len(KeptLines(s \o t)) :
              \/ \E k \in 1 .. Len(s) : KeptLines(s \o t)[i] = s[k]
              \/ \E k \in 1 .. Len(t) : KeptLines(s \o t)[i] = t[k]
<1> DEFINE all == s \o t
           kept == KeptLines(all)
<1>1. /\ all \in Seq(Rows!Line) /\ Len(all) = Len(s) + Len(t) /\ Len(s) \in Nat /\ Len(t) \in Nat
      /\ \A k \in 1 .. Len(s) : all[k] = s[k]
      /\ \A k \in 1 .. Len(t) : all[Len(s) + k] = t[k]
  BY LengthOf
<1> HIDE DEF all
<1>2. PICK a \in Nat \ {0} : a <= Len(all) + 1 /\ kept = SubSeq(all, a, Len(all))
  BY <1>1, KeptRest
<1>3. /\ kept \in Seq(Rows!Line) /\ Len(kept) = Len(all) - a + 1
      /\ \A k \in 1 .. Len(kept) : kept[k] = all[k + a - 1]
  BY <1>1, <1>2, Rest
<1> HIDE DEF kept
<1>4. ASSUME NEW i \in 1 .. Len(kept)
      PROVE  \/ \E k \in 1 .. Len(s) : kept[i] = s[k]
             \/ \E k \in 1 .. Len(t) : kept[i] = t[k]
  <2>1. i + a - 1 \in 1 .. Len(all) /\ kept[i] = all[i + a - 1]
    BY <1>1, <1>2, <1>3
  <2>2. CASE i + a - 1 <= Len(s)
    <3>1. i + a - 1 \in 1 .. Len(s)
      BY <1>1, <2>1, <2>2
    <3>2. all[i + a - 1] = s[i + a - 1]
      BY <1>1, <3>1
    <3> QED
      BY <2>1, <3>1, <3>2
  <2>3. CASE ~ (i + a - 1 <= Len(s))
    <3>1. i + a - 1 - Len(s) \in 1 .. Len(t) /\ Len(s) + (i + a - 1 - Len(s)) = i + a - 1
      BY <1>1, <2>1, <2>3
    <3>2. all[i + a - 1] = t[i + a - 1 - Len(s)]
      BY <1>1, <3>1
    <3> QED
      BY <2>1, <3>1, <3>2
  <2> QED
    BY <2>2, <2>3
<1> QED
  BY <1>3, <1>4 DEF kept, all

LEMMA BatchRowsLast ==
  ASSUME Rows!RowsAssumption, NEW lines \in Seq(Rows!Line), NEW shown \in Seq(Rows!Line)
  PROVE  \A r \in Rows!BatchRowsOf(lines, shown) : r \in Rows!Item /\ IsLast(shown, r.buy, r.ver)
<1> DEFINE new == Rows!Cardinality({i \in DOMAIN lines : lines[i].kind = "row"})
           most == Rows!Max({1, new + Backfill})
           n == Rows!Min({Recent, most})
<1>1. new \in Nat
  <2>1. DOMAIN lines = 1 .. Len(lines) /\ Len(lines) \in Nat
    BY LengthOf
  <2>2. IsFiniteSet(1 .. Len(lines))
    BY <2>1, FS_Interval, RowsSets
  <2>3. {i \in DOMAIN lines : lines[i].kind = "row"} \in SUBSET (1 .. Len(lines))
    BY <2>1
  <2> QED
    BY <2>2, <2>3, FS_Subset, FS_CardinalityType, RowsSets
<1> HIDE DEF new
<1>2. Recent \in Nat \ {0} /\ Backfill \in Nat
  BY DEF Rows!RowsAssumption
<1>3. most \in Nat
  BY <1>1, <1>2, Greater
<1>4. n \in Nat
  <2> HIDE DEF most
  <2> QED
    BY <1>2, <1>3, Smaller
<1> TAKE r \in Rows!BatchRowsOf(lines, shown)
<1>5. r \in Rows!Merged(shown) \/ r \in Rows!Merged(Rows!Scoped(shown, n))
  BY OverEither DEF Rows!BatchRowsOf, new, most
<1> HIDE DEF n
<1> QED
  BY <1>4, <1>5, MergedLast, ScopedLast

\* A batch that is no longer than the context is covered by what is stored of it.
LEMMA BatchRowsCover ==
  ASSUME Rows!RowsAssumption, NEW s \in Seq(Rows!Line), NEW lines \in Seq(Rows!Line),
         Len(lines) <= BatchRows
  PROVE  \A k \in 1 .. Len(lines) : lines[k].kind = "row" =>
           \E r \in Rows!BatchRowsOf(lines, KeptLines(s \o lines)) : r.buy = lines[k].buy
<1> DEFINE all == s \o lines
           shown == KeptLines(all)
           mine == {i \in DOMAIN lines : lines[i].kind = "row"}
           new == Rows!Cardinality(mine)
           most == Rows!Max({1, new + Backfill})
           n == Rows!Min({Recent, most})
           off == Len(shown) - Len(lines)
           rowsOf == {k \in DOMAIN shown : shown[k].kind = "row"}
<1>1. /\ all \in Seq(Rows!Line) /\ Len(all) = Len(s) + Len(lines) /\ Len(s) \in Nat
         /\ Len(lines) \in Nat
      /\ \A k \in 1 .. Len(lines) : all[Len(s) + k] = lines[k]
      /\ DOMAIN lines = 1 .. Len(lines)
  BY LengthOf
<1> HIDE DEF all
<1>2. /\ BatchRows \in Nat \ {0} /\ Recent \in Nat \ {0} /\ Keep \in Nat \ {0} /\ Backfill \in Nat
      /\ BatchRows <= Recent /\ Recent <= Keep
  BY DEF Rows!RowsAssumption
<1>3. PICK a \in Nat \ {0} :
        /\ a <= Len(all) + 1 /\ shown = SubSeq(all, a, Len(all))
        /\ a = 1 \/ a = Len(all) - Keep + 1
  BY <1>1, KeptRest
<1>4. /\ shown \in Seq(Rows!Line) /\ Len(shown) = Len(all) - a + 1
      /\ \A k \in 1 .. Len(shown) : shown[k] = all[k + a - 1]
  BY <1>1, <1>3, Rest
<1> HIDE DEF shown
<1>5. off \in Nat /\ Len(shown) \in Nat /\ DOMAIN shown = 1 .. Len(shown)
  BY <1>1, <1>2, <1>3, <1>4, LengthOf
<1>6. ASSUME NEW k \in 1 .. Len(lines)
             PROVE off + k \in 1 .. Len(shown) /\ shown[off + k] = lines[k]
  <2>1. off + k \in 1 .. Len(shown)
    BY <1>1, <1>5
  <2>2. shown[off + k] = all[(off + k) + a - 1]
    BY <1>4, <2>1
  <2>3. (off + k) + a - 1 = Len(s) + k
    BY <1>1, <1>3, <1>4, <1>5
  <2>4. all[Len(s) + k] = lines[k]
    BY <1>1
  <2> QED
    BY <2>1, <2>2, <2>3, <2>4
<1>7. mine \in SUBSET (1 .. Len(lines)) /\ IsFiniteSet(1 .. Len(lines))
      /\ Rows!Cardinality(1 .. Len(lines)) = Len(lines)
  <2>1. IsFiniteSet(1 .. Len(lines)) /\ Rows!Cardinality(1 .. Len(lines)) = Len(lines)
    BY <1>1, Numbered
  <2>2. mine \in SUBSET (1 .. Len(lines))
    BY <1>1
  <2> QED
    BY <2>1, <2>2
<1>8. IsFiniteSet(mine) /\ new \in Nat /\ new <= Len(lines)
  <2> HIDE DEF mine
  <2> QED
    BY <1>7, FS_Subset, FS_CardinalityType, RowsSets
<1>9. n \in Nat /\ new <= n
  <2> HIDE DEF new
  <2>1. most \in Nat /\ new <= most
    BY <1>2, <1>8, Greater
  <2>2. new <= Recent
    BY <1>1, <1>2, <1>8
  <2> HIDE DEF most
  <2> QED
    BY <1>2, <1>8, <2>1, <2>2, Smaller
<1> TAKE k \in 1 .. Len(lines)
<1> SUFFICES ASSUME lines[k].kind = "row"
             PROVE  \E r \in Rows!BatchRowsOf(lines, shown) : r.buy = lines[k].buy
  BY DEF shown, all
<1> DEFINE i == off + k
           later == {j \in rowsOf : j >= i}
           shift == [j \in later |-> j - off]
<1>10. i \in 1 .. Len(shown) /\ shown[i] = lines[k]
  BY <1>6
<1>11. ASSUME NEW j \in later PROVE shift[j] \in mine /\ j = off + shift[j]
  <2>1. j \in 1 .. Len(shown) /\ j >= off + k /\ shown[j].kind = "row"
    BY <1>5
  <2>2. j - off \in 1 .. Len(lines) /\ off + (j - off) = j
    BY <1>1, <1>5, <2>1
  <2>3. lines[j - off].kind = "row"
    BY <1>6, <2>1, <2>2
  <2> QED
    BY <1>1, <2>2, <2>3
<1>12. Rows!Cardinality(later) <= new
  <2>1. shift \in [later -> mine]
    BY <1>11
  <2>2. \A x, y \in later : shift[x] = shift[y] => x = y
    <3> HIDE DEF shift, later, off
    <3> QED
      BY <1>11
  <2>3. shift \in Injection(later, mine)
    <3> HIDE DEF shift, later, mine
    <3> QED
      BY <2>1, <2>2 DEF Injection, IsInjective
  <2> HIDE DEF shift, later, mine
  <2> QED
    BY <1>8, <2>3, FS_Injection, RowsSets
<1>13. Rows!Cardinality(later) \in Nat /\ Rows!Cardinality(later) <= n
  <2>1. later \in SUBSET (1 .. Len(shown)) /\ IsFiniteSet(1 .. Len(shown))
    BY <1>5, FS_Interval, RowsSets
  <2>2. Rows!Cardinality(later) \in Nat
    <3> HIDE DEF later
    <3> QED
      BY <2>1, FS_Subset, FS_CardinalityType, RowsSets
  <2> HIDE DEF later, new, n
  <2> QED
    BY <1>8, <1>9, <1>12, <2>2
<1>14. PICK c \in 1 .. i : Rows!Scoped(shown, n) = SubSeq(shown, c, Len(shown))
  <2> HIDE DEF n
  <2>1. shown[i].kind = "row"
    BY <1>10
  <2>2. Rows!Cardinality({j \in {x \in DOMAIN shown : shown[x].kind = "row"} : j >= i}) <= n
    BY <1>13
  <2> HIDE DEF i
  <2> QED
    BY <1>4, <1>9, <1>10, <2>1, <2>2, ScopedRest
<1> DEFINE sc == Rows!Scoped(shown, n)
<1>15. /\ sc \in Seq(Rows!Line) /\ Len(sc) = Len(shown) - c + 1
       /\ \A m \in 1 .. Len(sc) : sc[m] = shown[m + c - 1]
  <2>1. c \in Nat \ {0} /\ c <= Len(shown) + 1
    BY <1>5, <1>10
  <2> HIDE DEF n, i
  <2> QED
    BY <1>4, <1>14, <2>1, Rest
<1> HIDE DEF sc
<1>16. PICK m \in 1 .. Len(sc) : m + c - 1 = i
  <2> HIDE DEF i
  <2>1. i \in Nat /\ c \in Nat /\ c >= 1 /\ c <= i /\ i <= Len(shown) /\ Len(shown) \in Nat
    BY <1>5, <1>10, <1>14
  <2> HIDE DEF shown
  <2>2. i - c + 1 \in 1 .. Len(sc) /\ (i - c + 1) + c - 1 = i
    BY <1>15, <2>1
  <2> QED
    BY <2>2
<1>17. sc[m] = lines[k]
  <2> HIDE DEF i
  <2> QED
    BY <1>10, <1>15, <1>16
<1>18. PICK r \in Rows!Merged(sc) : r.buy = lines[k].buy
  <2> HIDE DEF i
  <2>1. sc[m].kind = "row" /\ sc[m].buy = lines[k].buy
    BY <1>17
  <2>2. PICK r \in Rows!Merged(sc) : r.buy = sc[m].buy
    BY <1>15, <2>1, MergedLast
  <2> QED
    BY <2>1, <2>2
<1>19. Rows!BatchRowsOf(lines, shown)
         = Rows!Over({x \in Rows!Merged(shown) : x.buy \in Rows!Confirmed(lines)}, Rows!Merged(sc))
  BY DEF Rows!BatchRowsOf, sc
<1>20. \E x \in Rows!BatchRowsOf(lines, shown) : x.buy = r.buy
  <2> DEFINE mineNow == {x \in Rows!Merged(shown) : x.buy \in Rows!Confirmed(lines)}
  <2>1. Rows!BatchRowsOf(lines, shown) = Rows!Over(mineNow, Rows!Merged(sc))
    BY <1>19
  <2> HIDE DEF mineNow
  <2>2. r \in Rows!Merged(sc)
    BY <1>18
  <2>3. \E x \in Rows!Over(mineNow, Rows!Merged(sc)) : x.buy = r.buy
    BY <2>2, OverEither
  <2> QED
    BY <2>1, <2>3
<1> QED
  BY <1>18, <1>20

\* The chunk after a cursor, the lines of it that are read, and those of them that did not
\* begin in an earlier chunk.
ChunkOf(c) == SubSeq(file, c.at + 1, Rows!Min({c.at + chunk, Len(file)}))
EndsRead(text) == {i \in Rows!Ends(text) :
                   Rows!Cardinality({j \in Rows!Ends(text) : j <= i}) <= BatchRows}
OwnEnds(c) ==
  {i \in EndsRead(ChunkOf(c)) : ~ c.skip \/ Rows!Begin(ChunkOf(c), i) > 0}
Sound(c) == {i \in OwnEnds(c) : Rows!Whole(ChunkOf(c), i)}
Past(c, n, skip) == [c EXCEPT !.at = @ + n, !.skip = skip, !.anchor = ChunkOf(c)[n]]
Unread(c) == ChunkOf(c) # <<>> /\ EndsRead(ChunkOf(c)) = {}

LEMMA ReadCases ==
  ASSUME NEW c
  PROVE  /\ EndsRead(ChunkOf(c)) # {} => Rows!ReadBatch(c) =
              [lines |-> Rows!LinesAt(ChunkOf(c), Sound(c)),
               bad |-> {<<ino, c.at + Rows!Begin(ChunkOf(c), i)>> :
                          i \in {j \in OwnEnds(c) : ~ Rows!Whole(ChunkOf(c), j)}},
               cursor |-> Past(c, Rows!Max(EndsRead(ChunkOf(c))), FALSE)]
         /\ Unread(c) /\ (c.skip \/ Len(file) > c.at + Len(ChunkOf(c))) => Rows!ReadBatch(c) =
              [lines |-> <<>>, bad |-> IF c.skip THEN {} ELSE {<<ino, c.at>>},
               cursor |-> Past(c, Len(ChunkOf(c)), TRUE)]
         /\ \/ EndsRead(ChunkOf(c)) # {}
            \/ Unread(c) /\ (c.skip \/ Len(file) > c.at + Len(ChunkOf(c)))
            \/ Rows!ReadBatch(c) = Rows!NoBatch
<1> DEFINE text == ChunkOf(c)
           ends == EndsRead(text)
           own == OwnEnds(c)
           full == [lines |-> Rows!LinesAt(text, Sound(c)),
                    bad |-> {<<ino, c.at + Rows!Begin(text, i)>> :
                               i \in {j \in own : ~ Rows!Whole(text, j)}},
                    cursor |-> Past(c, Rows!Max(ends), FALSE)]
           none == [lines |-> <<>>, bad |-> IF c.skip THEN {} ELSE {<<ino, c.at>>},
                    cursor |-> Past(c, Len(text), TRUE)]
<1>1. Rows!ReadBatch(c) =
        CASE ends # {} -> full
          [] ends = {} /\ text # <<>> /\ (c.skip \/ Len(file) > c.at + Len(text)) -> none
          [] OTHER -> Rows!NoBatch
  BY DEF Rows!ReadBatch, ChunkOf, EndsRead, OwnEnds, Sound, Past
<1> HIDE DEF full, none
<1>2. ends # {} => Rows!ReadBatch(c) = full
  BY <1>1
<1>3. Unread(c) /\ (c.skip \/ Len(file) > c.at + Len(text)) => Rows!ReadBatch(c) = none
  BY <1>1 DEF Unread
<1>4. \/ ends # {}
      \/ Unread(c) /\ (c.skip \/ Len(file) > c.at + Len(text))
      \/ Rows!ReadBatch(c) = Rows!NoBatch
  BY <1>1 DEF Unread
<1> QED
  BY <1>2, <1>3, <1>4 DEF full, none

\* What is known of a chunk.
LEMMA ChunkTyped ==
  ASSUME Rows!RowsAssumption, Rows!TypeOK, NEW c \in Rows!Cursor
  PROVE  /\ ChunkOf(c) \in Seq(Rows!Block) /\ Len(ChunkOf(c)) \in Nat
         /\ EndsRead(ChunkOf(c)) \subseteq Rows!Ends(ChunkOf(c))
         /\ Rows!Ends(ChunkOf(c)) \subseteq 1 .. Len(ChunkOf(c))
         /\ OwnEnds(c) \subseteq EndsRead(ChunkOf(c)) /\ Sound(c) \subseteq OwnEnds(c)
         /\ (EndsRead(ChunkOf(c)) # {} =>
              /\ Rows!Max(EndsRead(ChunkOf(c))) \in EndsRead(ChunkOf(c))
              /\ \A i \in EndsRead(ChunkOf(c)) : i <= Rows!Max(EndsRead(ChunkOf(c))))
         /\ (ChunkOf(c) # <<>> => Len(ChunkOf(c)) > 0)
<1>1. /\ c.at \in Nat /\ chunk \in Nat /\ file \in Seq(Rows!Block) /\ Len(file) \in Nat
  BY LengthOf DEF Rows!TypeOK, Rows!RowsAssumption, Rows!Cursor
<1>2. Rows!Min({c.at + chunk, Len(file)}) = IF c.at + chunk <= Len(file) THEN c.at + chunk
        ELSE Len(file)
  BY <1>1, Smaller
<1> DEFINE z == Rows!Min({c.at + chunk, Len(file)})
           text == ChunkOf(c)
           ends == EndsRead(text)
<1>3. text = SubSeq(file, c.at + 1, z)
  BY DEF ChunkOf
<1>4. z \in Nat /\ z <= Len(file)
  BY <1>1, <1>2
<1> HIDE DEF z
<1>5. text \in Seq(Rows!Block)
  BY <1>1, <1>3, <1>4
<1> HIDE DEF text
<1>6. Len(text) \in Nat /\ Rows!Ends(text) \subseteq 1 .. Len(text)
  BY <1>5, EndsOf
<1>7. ends \subseteq Rows!Ends(text)
  BY DEF EndsRead
<1>8. ends # {} => Rows!Max(ends) \in ends /\ \A i \in ends : i <= Rows!Max(ends)
  <2> HIDE DEF ends
  <2>1. ends \in SUBSET Nat /\ \A i \in ends : i <= Len(text)
    BY <1>6, <1>7
  <2> QED
    BY <1>6, <2>1, Highest
<1>9. OwnEnds(c) \subseteq ends /\ Sound(c) \subseteq OwnEnds(c)
  BY DEF OwnEnds, Sound, text
<1>10. text # <<>> => Len(text) > 0
  BY <1>5
<1> QED
  BY <1>5, <1>6, <1>7, <1>8, <1>9, <1>10 DEF text

\* A batch is of its type, and as large as maxBatchRows at most.
LEMMA ReadTyped ==
  ASSUME Rows!RowsAssumption, Rows!TypeOK, NEW c \in Rows!Cursor
  PROVE  LET read == Rows!ReadBatch(c)
         IN /\ read \in Rows!Batch /\ Len(read.lines) <= BatchRows
            /\ read.cursor = Null => read = Rows!NoBatch
            /\ read.cursor # Null =>
                 /\ read.cursor \in Rows!Cursor /\ read.cursor.ino = c.ino
                 /\ read.cursor.at > c.at
<1> DEFINE text == ChunkOf(c)
           ends == EndsRead(text)
           read == Rows!ReadBatch(c)
<1> SUFFICES /\ read \in Rows!Batch /\ Len(read.lines) <= BatchRows
             /\ read.cursor = Null => read = Rows!NoBatch
             /\ read.cursor # Null =>
                  /\ read.cursor \in Rows!Cursor /\ read.cursor.ino = c.ino
                  /\ read.cursor.at > c.at
  OBVIOUS
<1>1. /\ text \in Seq(Rows!Block) /\ Len(text) \in Nat
      /\ ends \subseteq Rows!Ends(text) /\ Rows!Ends(text) \subseteq 1 .. Len(text)
      /\ OwnEnds(c) \subseteq ends /\ Sound(c) \subseteq OwnEnds(c)
      /\ (ends # {} => Rows!Max(ends) \in ends /\ \A i \in ends : i <= Rows!Max(ends))
      /\ (text # <<>> => Len(text) > 0)
  BY ChunkTyped
<1>2. c.at \in Nat /\ ino \in Nat /\ Null \notin Rows!Cursor /\ BatchRows \in Nat \ {0}
  BY DEF Rows!TypeOK, Rows!Cursor, Rows!RowsAssumption
<1>3. ASSUME NEW n \in 1 .. Len(text), NEW skip \in BOOLEAN
      PROVE  /\ Past(c, n, skip) \in Rows!Cursor /\ Past(c, n, skip).ino = c.ino
             /\ Past(c, n, skip).at > c.at
  <2>1. text[n] \in Rows!Block
    BY <1>1, ItemOf
  <2>2. Past(c, n, skip) = [c EXCEPT !.at = @ + n, !.skip = skip, !.anchor = text[n]]
    BY DEF Past
  <2> HIDE DEF text
  <2>3. c.at + n \in Nat /\ c.at + n > c.at
    BY <1>2
  <2> QED
    BY <2>1, <2>2, <2>3 DEF Rows!Cursor
<1>4. CASE ends # {}
  <2> DEFINE bad == {<<ino, c.at + Rows!Begin(text, i)>> :
                     i \in {j \in OwnEnds(c) : ~ Rows!Whole(text, j)}}
             lines == Rows!LinesAt(text, Sound(c))
  <2>1. read = [lines |-> lines, bad |-> bad, cursor |-> Past(c, Rows!Max(ends), FALSE)]
    BY <1>4, ReadCases
  <2>2. Rows!Max(ends) \in 1 .. Len(text)
    BY <1>1, <1>4
  <2>3. Past(c, Rows!Max(ends), FALSE) \in Rows!Cursor /\ Past(c, Rows!Max(ends), FALSE).ino = c.ino
        /\ Past(c, Rows!Max(ends), FALSE).at > c.at
    <3> HIDE DEF ends, text
    <3> QED
      BY <1>3, <2>2
  <2>4. bad \subseteq Nat \X Nat
    <3>1. ASSUME NEW i \in OwnEnds(c) PROVE <<ino, c.at + Rows!Begin(text, i)>> \in Nat \X Nat
      <4>1. i \in Nat \ {0}
        BY <1>1
      <4>2. Rows!Begin(text, i) \in Nat
        BY <1>1, <4>1, BeginOf
      <4> HIDE DEF text
      <4> QED
        BY <1>2, <4>2
    <3> QED
      BY <3>1
  <2>5. PICK pos : Places(pos, lines, text, Sound(c))
    <3>1. Sound(c) \in SUBSET (1 .. Len(text))
      BY <1>1
    <3> QED
      BY <1>1, <3>1, LinesPlaced
  <2>6. lines \in Seq(Rows!Line)
    BY <2>5 DEF Places
  <2>7. Len(lines) <= BatchRows
    <3> DEFINE upto == {j \in Rows!Ends(text) : j <= Rows!Max(ends)}
    <3>1. Rows!Cardinality(upto) <= BatchRows
      BY <1>1, <1>4 DEF EndsRead
    <3>2. Len(lines) \in Nat /\ pos \in [1 .. Len(lines) -> Sound(c)]
          /\ \A j, k \in 1 .. Len(lines) : j < k => pos[j] < pos[k]
      BY <2>6, LengthOf, <2>5 DEF Places
    <3>3. \A k \in 1 .. Len(lines) : pos[k] \in upto /\ pos[k] \in Nat
      BY <1>1, <1>4, <3>2
    <3>4. upto \in SUBSET (1 .. Len(text)) /\ IsFiniteSet(1 .. Len(text))
      BY <1>1, Numbered
    <3> HIDE DEF upto, lines, text, ends
    <3>5. IsFiniteSet(upto) /\ Rows!Cardinality(upto) \in Nat
      BY <3>4, FS_Subset, FS_CardinalityType, RowsSets
    <3>6. pos \in [1 .. Len(lines) -> upto]
      BY <3>2, <3>3
    <3>7. \A j, k \in 1 .. Len(lines) : pos[j] = pos[k] => j = k
      <4> TAKE j, k \in 1 .. Len(lines)
      <4>1. j < k \/ k < j \/ j = k
        BY <3>2
      <4> QED
        BY <3>2, <3>3, <4>1
    <3>8. pos \in Injection(1 .. Len(lines), upto)
      BY <3>6, <3>7 DEF Injection, IsInjective
    <3>9. Rows!Cardinality(1 .. Len(lines)) <= Rows!Cardinality(upto)
      BY <3>5, <3>8, FS_Injection, RowsSets
    <3> QED
      BY <1>2, <3>1, <3>2, <3>5, <3>9, Numbered
  <2> DEFINE to == Past(c, Rows!Max(ends), FALSE)
  <2>8. to \in Rows!Cursor /\ to.ino = c.ino /\ to.at > c.at
    BY <2>3
  <2>9. read = [lines |-> lines, bad |-> bad, cursor |-> to]
    BY <2>1
  <2> HIDE DEF bad, lines, ends, text, read, to
  <2>10. read \in Rows!Batch
    BY <2>4, <2>6, <2>8, <2>9 DEF Rows!Batch
  <2>11. read.lines = lines /\ read.cursor = to /\ to # Null
    BY <1>2, <2>8, <2>9
  <2> QED
    BY <2>7, <2>8, <2>10, <2>11
<1>5. CASE Unread(c) /\ (c.skip \/ Len(file) > c.at + Len(text))
  <2> DEFINE to == Past(c, Len(text), TRUE)
             bad == IF c.skip THEN {} ELSE {<<ino, c.at>>}
  <2>1. read = [lines |-> <<>>, bad |-> bad, cursor |-> to]
    BY <1>5, ReadCases
  <2>2. Len(text) \in 1 .. Len(text)
    BY <1>1, <1>5 DEF Unread
  <2>3. to \in Rows!Cursor /\ to.ino = c.ino /\ to.at > c.at
    <3> HIDE DEF text
    <3> QED
      BY <1>3, <2>2
  <2>4. bad \subseteq Nat \X Nat /\ <<>> \in Seq(Rows!Line) /\ Len(<<>>) = 0
    BY <1>2
  <2> HIDE DEF to, text, ends, read, bad
  <2>5. read \in Rows!Batch /\ Len(read.lines) <= BatchRows /\ read.cursor = to
    BY <1>2, <2>1, <2>3, <2>4 DEF Rows!Batch
  <2> QED
    BY <1>2, <2>3, <2>5
<1>6. CASE read = Rows!NoBatch
  <2>1. <<>> \in Seq(Rows!Line) /\ Len(<<>>) = 0
    OBVIOUS
  <2>2. {} \in SUBSET (Nat \X Nat)
    OBVIOUS
  <2> HIDE DEF read
  <2>3. read \in Rows!Batch /\ read.cursor = Null /\ Len(read.lines) = 0
    BY <1>6, <2>1, <2>2 DEF Rows!NoBatch, Rows!Batch
  <2> HIDE DEF read
  <2> QED
    BY <1>2, <1>6, <2>3
<1>7. \/ ends # {} \/ read = Rows!NoBatch
      \/ Unread(c) /\ (c.skip \/ Len(file) > c.at + Len(text))
  BY ReadCases
<1> HIDE DEF read, ends, text
<1> QED
  BY <1>4, <1>5, <1>6, <1>7

LEMMA ChunkHere ==
  ASSUME Rows!RowsAssumption, Rows!TypeOK, NEW c \in Rows!Cursor, c.at <= Len(file)
  PROVE  LET text == ChunkOf(c)
         IN /\ c.at + Len(text) <= Len(file)
            /\ Len(file) > c.at + Len(text) => Len(text) = chunk
            /\ \A i \in 1 .. Len(text) :
                 /\ text[i] = file[c.at + i]
                 /\ i \in Rows!Ends(text) <=> c.at + i \in Rows!Ends(file)
                 /\ Rows!Begin(file, c.at + i) = IF Rows!Begin(text, i) > 0
                    THEN c.at + Rows!Begin(text, i)
                                            ELSE Edge(file, c.at)
            /\ \A i \in Rows!Ends(text) : Rows!Begin(text, i) > 0 \/ Edge(file, c.at) = c.at =>
                 /\ Rows!Begin(file, c.at + i) = c.at + Rows!Begin(text, i)
                 /\ Rows!Whole(text, i) <=> Rows!Whole(file, c.at + i)
<1> DEFINE z == Rows!Min({c.at + chunk, Len(file)})
           text == ChunkOf(c)
           a == c.at
<1>1. /\ a \in Nat /\ chunk \in Nat /\ file \in Seq(Rows!Block) /\ Len(file) \in Nat
         /\ a <= Len(file)
  BY LengthOf DEF Rows!TypeOK, Rows!RowsAssumption, Rows!Cursor
<1>2. z = IF a + chunk <= Len(file) THEN a + chunk ELSE Len(file)
  BY <1>1, Smaller
<1>3. text = SubSeq(file, a + 1, z)
  BY DEF ChunkOf
<1>4. z \in Nat /\ z <= Len(file) /\ a <= z /\ (z < Len(file) => z = a + chunk)
  BY <1>1, <1>2
<1> HIDE DEF z, a
<1>5. /\ text \in Seq(Rows!Block) /\ Len(text) = z - a
      /\ \A i \in 1 .. z - a : text[i] = file[a + i]
      /\ \A i \in 1 .. z - a : i \in Rows!Ends(text) <=> a + i \in Rows!Ends(file)
      /\ \A i \in 1 .. z - a :
           Rows!Begin(file, a + i) = IF Rows!Begin(text, i) > 0 THEN a + Rows!Begin(text, i)
                                ELSE Rows!Begin(file, a + 1)
      /\ \A i \in Rows!Ends(text) : Rows!Begin(text, i) > 0 =>
         (Rows!Whole(text, i) <=> Rows!Whole(file, a + i))
  BY <1>1, <1>3, <1>4, Window
<1> HIDE DEF text
<1>6. Rows!Ends(text) \subseteq 1 .. z - a
  BY <1>5, EndsOf
<1>7. Edge(file, a) = Rows!Begin(file, a + 1)
  BY DEF Edge
<1>8. ASSUME NEW i \in Rows!Ends(text), Rows!Begin(text, i) > 0 \/ Edge(file, a) = a
      PROVE  /\ Rows!Begin(file, a + i) = a + Rows!Begin(text, i)
             /\ Rows!Whole(text, i) <=> Rows!Whole(file, a + i)
  <2>1. i \in 1 .. z - a /\ i \in Nat \ {0}
    BY <1>6
  <2>2. Rows!Begin(text, i) \in Nat /\ Rows!Begin(text, i) < i
    BY <1>5, <2>1, BeginOf
  <2>3. Rows!Begin(file, a + i) = a + Rows!Begin(text, i)
    BY <1>1, <1>5, <1>7, <1>8, <2>1, <2>2
  <2>4. CASE Rows!Begin(text, i) > 0
    BY <1>5, <2>3, <2>4
  <2>5. CASE ~ (Rows!Begin(text, i) > 0)
    <3>1. Rows!Begin(text, i) = 0 /\ Rows!Begin(file, a + i) = a
      BY <1>1, <2>2, <2>3, <2>5
    <3>2. (a + i) - a = i /\ i - 0 = i
      BY <1>1, <2>1
    <3>3. i = 2 => i - 1 \in 1 .. z - a /\ (a + i) - 1 = a + (i - 1)
      BY <1>1, <1>4, <2>1
    <3>4. i = 2 => text[i] = file[a + i] /\ text[i - 1] = file[(a + i) - 1]
      BY <1>5, <2>1, <3>3
    <3> QED
      BY <2>3, <3>1, <3>2, <3>4 DEF Rows!Whole
  <2> QED
    BY <2>3, <2>4, <2>5
<1>9. a + Len(text) <= Len(file) /\ (Len(file) > a + Len(text) => Len(text) = chunk)
  BY <1>1, <1>4, <1>5
<1> QED
  BY <1>5, <1>7, <1>8, <1>9 DEF a, text

\* Where the lines of a batch end in the file; a line that is not in it was reported.
Reads(at, c, read) ==
  /\ at \in [1 .. Len(read.lines) -> Rows!Ends(file)]
  /\ \A k \in 1 .. Len(read.lines) :
       c.at < at[k] /\ at[k] <= read.cursor.at /\ read.lines[k] = file[at[k]].line
  /\ \A j, k \in 1 .. Len(read.lines) : j < k => at[j] < at[k]
  /\ \A end \in Before(file, origin, read.cursor.at) : end > c.at =>
       IF Rows!Whole(file, end) THEN \E k \in 1 .. Len(read.lines) : at[k] = end
       ELSE <<ino, Rows!Begin(file, end)>> \in dead \cup read.bad

LEMMA EdgeOf ==
  ASSUME Rows!TypeOK, NEW at \in Nat
  PROVE  Edge(file, at) \in Nat /\ Edge(file, at) <= at
<1>1. file \in Seq(Rows!Block) /\ at + 1 \in Nat \ {0}
  BY DEF Rows!TypeOK
<1>2. Rows!Begin(file, at + 1) \in Nat /\ Rows!Begin(file, at + 1) < at + 1
  BY <1>1, BeginOf
<1> QED
  BY <1>2 DEF Edge

\* A batch with complete lines.
LEMMA ReadLines ==
  ASSUME Rows!RowsAssumption, Rows!TypeOK, origin \in Nat, NEW c \in Rows!Cursor, c.ino = ino,
         Placed(file, ino, origin, c, dead),
         EndsRead(ChunkOf(c)) # {}
  PROVE  /\ Placed(file, ino, origin, Rows!ReadBatch(c).cursor, dead \cup Rows!ReadBatch(c).bad)
         /\ \E at : Reads(at, c, Rows!ReadBatch(c))
<1> DEFINE text == ChunkOf(c)
           ends == EndsRead(text)
           a == c.at
           m == Rows!Max(ends)
           lines == Rows!LinesAt(text, Sound(c))
           bad == {<<ino, a + Rows!Begin(text, i)>> :
                   i \in {j \in OwnEnds(c) : ~ Rows!Whole(text, j)}}
           to == Past(c, m, FALSE)
           read == Rows!ReadBatch(c)
<1>1. read = [lines |-> lines, bad |-> bad, cursor |-> to]
  BY ReadCases
<1>2. read.lines = lines /\ read.bad = bad /\ read.cursor = to
  BY <1>1
<1>3. a \in Nat /\ c.ino \in 1 .. ino /\ a <= Len(file)
      /\ (~ c.skip => Edge(file, a) = a \/ Edge(file, a) < origin)
      /\ (c.skip => Edge(file, a) + 2 <= a
          /\ (Edge(file, a) >= origin => <<ino, Edge(file, a)>> \in dead))
  BY DEF Placed, Rows!Cursor
<1>4. /\ text \in Seq(Rows!Block) /\ Len(text) \in Nat
      /\ ends \subseteq Rows!Ends(text) /\ Rows!Ends(text) \subseteq 1 .. Len(text)
      /\ OwnEnds(c) \subseteq ends /\ Sound(c) \subseteq OwnEnds(c)
      /\ m \in ends /\ \A i \in ends : i <= m
  BY ChunkTyped
<1>5. /\ a + Len(text) <= Len(file)
      /\ \A i \in 1 .. Len(text) :
           /\ text[i] = file[a + i]
           /\ i \in Rows!Ends(text) <=> a + i \in Rows!Ends(file)
           /\ Rows!Begin(file, a + i) = IF Rows!Begin(text, i) > 0 THEN a + Rows!Begin(text, i)
              ELSE Edge(file, a)
      /\ \A i \in Rows!Ends(text) : Rows!Begin(text, i) > 0 \/ Edge(file, a) = a =>
           /\ Rows!Begin(file, a + i) = a + Rows!Begin(text, i)
           /\ Rows!Whole(text, i) <=> Rows!Whole(file, a + i)
  BY <1>3, ChunkHere
<1>6. file \in Seq(Rows!Block) /\ Len(file) \in Nat /\ Rows!Ends(file) \subseteq 1 .. Len(file)
      /\ c.skip \in BOOLEAN
  BY EndsOf DEF Rows!TypeOK, Rows!Cursor
<1>7. /\ to.ino = ino /\ to.at = a + m /\ to.skip = FALSE /\ to.anchor = text[m]
  BY DEF Past, Rows!Cursor
<1> HIDE DEF to, bad, lines, read
<1>8. PICK pos : Places(pos, lines, text, Sound(c))
  <2>1. Sound(c) \in SUBSET (1 .. Len(text))
    BY <1>4
  <2> QED
    BY <1>4, <2>1, LinesPlaced DEF lines
<1>9. Len(lines) \in Nat
  BY <1>8, LengthOf DEF Places
<1>10. \A i \in ends : i \in 1 .. Len(text) /\ i \in Nat \ {0} /\ a + i \in Rows!Ends(file)
         /\ i <= m
  BY <1>4, <1>5
<1>11. m \in 1 .. Len(text) /\ a + m \in Rows!Ends(file) /\ a + m \in Nat
  BY <1>3, <1>4, <1>10
<1>12. \A i \in Rows!Ends(text) : i <= m => i \in ends
  <2> TAKE i \in Rows!Ends(text)
  <2> HAVE i <= m
  <2> DEFINE lower == {j \in Rows!Ends(text) : j <= i}
             upto == {j \in Rows!Ends(text) : j <= m}
  <2>1. Rows!Cardinality(upto) <= BatchRows
    BY <1>4 DEF EndsRead
  <2>2. lower \subseteq upto /\ upto \in SUBSET (1 .. Len(text))
    BY <1>4
  <2>3. IsFiniteSet(1 .. Len(text))
    BY <1>4, Numbered
  <2>4. BatchRows \in Nat
    BY DEF Rows!RowsAssumption
  <2>5. Rows!Cardinality(lower) <= BatchRows
    <3> HIDE DEF lower, upto, m, ends, text
    <3>1. IsFiniteSet(upto)
      BY <2>2, <2>3, FS_Subset, RowsSets
    <3>2. IsFiniteSet(lower) /\ Rows!Cardinality(lower) <= Rows!Cardinality(upto)
      BY <2>2, <3>1, FS_Subset, RowsSets
    <3>3. Rows!Cardinality(lower) \in Nat /\ Rows!Cardinality(upto) \in Nat
      BY <3>1, <3>2, FS_CardinalityType, RowsSets
    <3> QED
      BY <2>1, <2>4, <3>2, <3>3
  <2> QED
    BY <2>5 DEF EndsRead
<1> HIDE DEF ends, text, m
<1>13. Placed(file, ino, origin, to, dead \cup bad)
  <2>1. to.ino \in 1 .. ino
    BY <1>3, <1>7
  <2>2. to.at <= Len(file) /\ file[to.at] = to.anchor
    BY <1>3, <1>5, <1>6, <1>7, <1>11
  <2>3. Edge(file, to.at) = to.at
    <3>1. Rows!Begin(file, (a + m) + 1) = a + m
      <4>1. (a + m) + 1 \in Nat \ {0} /\ a + m < (a + m) + 1
            /\ a + m \in {0} \cup Rows!Ends(file)
        BY <1>11
      <4>2. \A i \in Rows!Ends(file) : i < (a + m) + 1 => i <= a + m
        BY <1>6, <1>11
      <4> DEFINE e == a + m
      <4> HIDE DEF e
      <4> QED
        BY <1>6, <4>1, <4>2, BeginIs DEF e
    <3> QED
      BY <1>7, <3>1 DEF Edge
  <2> QED
    BY <1>7, <2>1, <2>2, <2>3 DEF Placed
<1>14. ASSUME NEW i \in OwnEnds(c), Rows!Begin(file, a + i) >= origin
       PROVE  Rows!Begin(text, i) > 0 \/ Edge(file, a) = a
  <2>1. ~ c.skip \/ Rows!Begin(text, i) > 0
    BY DEF OwnEnds, text
  <2>2. i \in 1 .. Len(text) /\ i \in Nat \ {0} /\ Rows!Begin(text, i) \in Nat
    BY <1>4, <1>10, BeginOf
  <2>3. CASE ~ (Rows!Begin(text, i) > 0)
    <3>1. Rows!Begin(file, a + i) = Edge(file, a)
      BY <1>5, <2>2, <2>3
    <3>2. Edge(file, a) \in Nat
      BY <1>3, EdgeOf
    <3> QED
      BY <1>3, <1>14, <2>1, <2>3, <3>1, <3>2
  <2> QED
    BY <2>3
<1>15. ASSUME NEW end \in Before(file, origin, to.at), end > a
       PROVE  IF Rows!Whole(file, end) THEN end - a \in Sound(c)
              ELSE <<ino, Rows!Begin(file, end)>> \in dead \cup bad
  <2>1. end \in Rows!Ends(file) /\ end <= a + m /\ Rows!Begin(file, end) >= origin
    BY <1>7 DEF Before
  <2>2. end - a \in 1 .. Len(text) /\ a + (end - a) = end /\ end - a <= m /\ end \in Nat
    BY <1>3, <1>6, <1>11, <1>15, <2>1
  <2>3. PICK i \in 1 .. Len(text) : i = end - a /\ a + i = end /\ i <= m /\ i \in Nat \ {0}
    BY <2>2
  <2>4. i \in ends /\ i \in Rows!Ends(text)
    BY <1>5, <1>12, <2>1, <2>3
  <2>5. Rows!Begin(text, i) \in Nat
    BY <1>4, <2>3, BeginOf
  <2>6. CASE i \in OwnEnds(c)
    <3>1. /\ Rows!Begin(file, end) = a + Rows!Begin(text, i)
          /\ Rows!Whole(text, i) <=> Rows!Whole(file, end)
      BY <1>5, <1>14, <2>1, <2>3, <2>4, <2>6
    <3>2. Rows!Whole(text, i) => i \in Sound(c)
      BY <2>6 DEF Sound, text
    <3>3. ~ Rows!Whole(text, i) => <<ino, a + Rows!Begin(text, i)>> \in bad
      BY <2>6 DEF bad
    <3> QED
      BY <2>3, <3>1, <3>2, <3>3
  <2>7. CASE i \notin OwnEnds(c)
    <3>1. c.skip /\ ~ (Rows!Begin(text, i) > 0)
      BY <2>4, <2>7 DEF OwnEnds, text, ends
    <3>2. Rows!Begin(file, end) = Edge(file, a)
      BY <1>5, <2>3, <3>1
    <3>3. Edge(file, a) \in Nat
      BY <1>3, EdgeOf
    <3>4. end - Rows!Begin(file, end) # 2
      BY <1>3, <1>15, <2>2, <3>1, <3>2, <3>3
    <3>5. <<ino, Rows!Begin(file, end)>> \in dead
      BY <1>3, <2>1, <3>1, <3>2
    <3> QED
      BY <3>4, <3>5 DEF Rows!Whole
  <2> QED
    BY <2>6, <2>7
<1>16. \A k \in 1 .. Len(lines) :
         /\ pos[k] \in Sound(c) /\ pos[k] \in ends /\ pos[k] \in Nat
         /\ a + pos[k] \in Rows!Ends(file) /\ a < a + pos[k] /\ a + pos[k] <= a + m
         /\ lines[k] = file[a + pos[k]].line
  <2> TAKE k \in 1 .. Len(lines)
  <2>1. pos[k] \in Sound(c) /\ lines[k] = text[pos[k]].line
    BY <1>8 DEF Places
  <2>2. pos[k] \in ends
    BY <1>4, <2>1
  <2>3. pos[k] \in 1 .. Len(text) /\ pos[k] \in Nat \ {0} /\ a + pos[k] \in Rows!Ends(file)
        /\ pos[k] <= m
    BY <1>10, <2>2
  <2>4. text[pos[k]] = file[a + pos[k]]
    BY <1>5, <2>3
  <2> QED
    <3>1. pos[k] \in Nat /\ a < a + pos[k] /\ a + pos[k] <= a + m
      BY <1>3, <1>11, <2>3
    <3> QED
      BY <2>1, <2>2, <2>3, <2>4, <3>1
<1>17. \E at : Reads(at, c, read)
  <2> DEFINE at == [k \in 1 .. Len(lines) |-> a + pos[k]]
  <2>1. \A k \in 1 .. Len(lines) : at[k] = a + pos[k]
    OBVIOUS
  <2>2. at \in [1 .. Len(lines) -> Rows!Ends(file)]
    BY <1>16
  <2> HIDE DEF at, a
  <2>3. \A k \in 1 .. Len(lines) :
          a < at[k] /\ at[k] <= to.at /\ lines[k] = file[at[k]].line
    BY <1>7, <1>16, <2>1
  <2>4. \A j, k \in 1 .. Len(lines) : j < k => at[j] < at[k]
    <3> TAKE j, k \in 1 .. Len(lines)
    <3>1. pos[j] \in Nat /\ pos[k] \in Nat /\ (j < k => pos[j] < pos[k])
      BY <1>8, <1>16 DEF Places
    <3> QED
      BY <1>3, <2>1, <3>1
  <2>5. ASSUME NEW end \in Before(file, origin, to.at), end > a
        PROVE  IF Rows!Whole(file, end) THEN \E k \in 1 .. Len(lines) : at[k] = end
               ELSE <<ino, Rows!Begin(file, end)>> \in dead \cup bad
    <3>1. CASE Rows!Whole(file, end)
      <4>1. end - a \in Sound(c)
        BY <1>15, <2>5, <3>1
      <4>2. PICK k \in 1 .. Len(lines) : pos[k] = end - a
        BY <1>8, <4>1 DEF Places
      <4>3. end \in Nat
        BY <1>6 DEF Before
      <4>4. at[k] = end
        BY <1>3, <2>1, <4>2, <4>3
      <4> QED
        BY <3>1, <4>4
    <3>2. CASE ~ Rows!Whole(file, end)
      BY <1>15, <2>5, <3>2
    <3> QED
      BY <3>1, <3>2
  <2>6. Reads(at, c, read)
    BY <1>2, <2>2, <2>3, <2>4, <2>5 DEF Reads, a
  <2> QED
    BY <2>6
<1> QED
  BY <1>2, <1>13, <1>17 DEF read

\* A chunk without the end of a line is part of a line longer than a chunk.
LEMMA ReadNoLine ==
  ASSUME Rows!RowsAssumption, Rows!TypeOK, origin \in Nat, NEW c \in Rows!Cursor, c.ino = ino,
         Placed(file, ino, origin, c, dead),
         Unread(c), c.skip \/ Len(file) > c.at + Len(ChunkOf(c))
  PROVE  /\ Placed(file, ino, origin, Rows!ReadBatch(c).cursor, dead \cup Rows!ReadBatch(c).bad)
         /\ \E at : Reads(at, c, Rows!ReadBatch(c))
<1> DEFINE text == ChunkOf(c)
           a == c.at
           m == Len(text)
           bad == IF c.skip THEN {} ELSE {<<ino, a>>}
           to == Past(c, m, TRUE)
           read == Rows!ReadBatch(c)
<1>1. read = [lines |-> <<>>, bad |-> bad, cursor |-> to]
  BY ReadCases
<1>2. read.lines = <<>> /\ read.bad = bad /\ read.cursor = to
  BY <1>1
<1>3. a \in Nat /\ c.ino \in 1 .. ino /\ a <= Len(file) /\ c.skip \in BOOLEAN
      /\ (~ c.skip => Edge(file, a) = a \/ Edge(file, a) < origin)
      /\ (c.skip => Edge(file, a) + 2 <= a
          /\ (Edge(file, a) >= origin => <<ino, Edge(file, a)>> \in dead))
  BY DEF Placed, Rows!Cursor
<1>4. text \in Seq(Rows!Block) /\ m \in Nat /\ m > 0 /\ Rows!Ends(text) \subseteq 1 .. m
  BY ChunkTyped DEF Unread
<1>5. /\ a + m <= Len(file) /\ (Len(file) > a + m => m = chunk)
      /\ \A i \in 1 .. m :
           /\ text[i] = file[a + i]
           /\ i \in Rows!Ends(text) <=> a + i \in Rows!Ends(file)
  BY <1>3, ChunkHere
<1>6. /\ file \in Seq(Rows!Block) /\ Len(file) \in Nat /\ Rows!Ends(file) \subseteq 1 .. Len(file)
      /\ chunk \in Nat /\ chunk >= 2 /\ BatchRows \in Nat \ {0}
  BY EndsOf DEF Rows!TypeOK, Rows!RowsAssumption
<1>7. /\ to.ino = ino /\ to.at = a + m /\ to.skip = TRUE /\ to.anchor = text[m]
  BY DEF Past, Rows!Cursor
<1>8. Rows!Ends(text) = {}
  <2> SUFFICES ASSUME Rows!Ends(text) # {} PROVE FALSE
    OBVIOUS
  <2> DEFINE e == Rows!Min(Rows!Ends(text))
             lower == {j \in Rows!Ends(text) : j <= e}
  <2>1. e \in Rows!Ends(text) /\ \A j \in Rows!Ends(text) : e <= j
    BY <1>4, Lowest
  <2>2. lower = {e}
    <3> HIDE DEF e
    <3> QED
      BY <1>4, <2>1
  <2>3. Rows!Cardinality(lower) = 1
    <3> HIDE DEF e, lower
    <3> QED
      BY <2>2, FS_Singleton, RowsSets
  <2>4. e \in EndsRead(text)
    BY <1>6, <2>1, <2>3 DEF EndsRead
  <2> QED
    BY <2>4 DEF Unread
<1> HIDE DEF to, bad, read, text, m
<1>9. \A i \in Rows!Ends(file) : i <= a \/ i > a + m
  <2> TAKE i \in Rows!Ends(file)
  <2> SUFFICES ASSUME i > a, i <= a + m PROVE FALSE
    BY <1>3, <1>4, <1>6
  <2>1. i - a \in 1 .. m /\ a + (i - a) = i
    BY <1>3, <1>4, <1>6
  <2> QED
    BY <1>5, <1>8, <2>1
<1>10. Edge(file, a) \in Nat /\ Edge(file, a) <= a
  BY <1>3, EdgeOf
<1>11. Edge(file, a + m) = Edge(file, a)
  <2>1. a + 1 \in Nat \ {0} /\ (a + m) + 1 \in Nat \ {0}
    BY <1>3, <1>4
  <2>2. /\ Edge(file, a) = Rows!Begin(file, a + 1)
           /\ Rows!Begin(file, a + 1) \in {0} \cup Rows!Ends(file)
        /\ \A i \in Rows!Ends(file) : i < a + 1 => i <= Rows!Begin(file, a + 1)
    BY <1>6, <2>1, BeginOf DEF Edge
  <2>3. \A i \in Rows!Ends(file) : i < (a + m) + 1 => i <= Edge(file, a)
    <3> TAKE i \in Rows!Ends(file)
    <3>1. i \in Nat
      BY <1>6
    <3> QED
      BY <1>3, <1>4, <1>9, <2>2, <3>1
  <2>4. Edge(file, a) < (a + m) + 1
    BY <1>3, <1>4, <1>10
  <2>5. Rows!Begin(file, (a + m) + 1) = Edge(file, a)
    BY <1>6, <2>1, <2>2, <2>3, <2>4, BeginIs
  <2> QED
    BY <2>5 DEF Edge
<1>12. Edge(file, a) + 2 <= a + m
  <2>1. CASE c.skip
    BY <1>3, <1>4, <1>10, <2>1
  <2>2. CASE ~ c.skip
    <3>1. m = chunk
      BY <1>5, <2>2 DEF text, m
    <3> QED
      BY <1>3, <1>6, <1>10, <3>1
  <2> QED
    BY <2>1, <2>2
<1>13. Edge(file, a) >= origin => <<ino, Edge(file, a)>> \in dead \cup bad
  BY <1>3, <1>10 DEF bad
<1>14. Placed(file, ino, origin, to, dead \cup bad)
  <2>1. to.at <= Len(file) /\ file[to.at] = to.anchor
    BY <1>4, <1>5, <1>7
  <2>2. to.ino \in 1 .. ino
    BY <1>3, <1>7
  <2> QED
    BY <1>7, <1>11, <1>12, <1>13, <2>1, <2>2 DEF Placed
<1>15. Reads(<<>>, c, read)
  <2>1. Len(read.lines) = 0 /\ 1 .. 0 = {}
    BY <1>2
  <2>2. <<>> \in [{} -> Rows!Ends(file)]
    OBVIOUS
  <2>3. ASSUME NEW end \in Before(file, origin, to.at), end > a PROVE FALSE
    <3>1. end \in Rows!Ends(file) /\ end <= a + m
      BY <1>7 DEF Before
    <3>2. end \in Nat
      BY <1>6, <3>1
    <3> QED
      BY <1>3, <1>4, <1>9, <2>3, <3>1, <3>2
  <2> QED
    BY <1>2, <2>1, <2>2, <2>3 DEF Reads
<1> QED
  BY <1>2, <1>14, <1>15 DEF read

\* What is read is in its place and accounted for.
LEMMA ReadHere ==
  ASSUME Rows!RowsAssumption, Rows!TypeOK, origin \in Nat, NEW c \in Rows!Cursor, c.ino = ino,
         Placed(file, ino, origin, c, dead),
         Rows!ReadBatch(c).cursor # Null
  PROVE  /\ Placed(file, ino, origin, Rows!ReadBatch(c).cursor, dead \cup Rows!ReadBatch(c).bad)
         /\ \E at : Reads(at, c, Rows!ReadBatch(c))
<1>1. Rows!ReadBatch(c) # Rows!NoBatch
  BY DEF Rows!NoBatch
<1> QED
  BY <1>1, ReadCases, ReadLines, ReadNoLine

Row == [ver : 0 .. 2, chain : {"none", "submitted", "landed", "failed"}]

LEMMA LinesGrow ==
  ASSUME NEW f \in Seq(Rows!Block), NEW more \in Seq(Rows!Block), NEW at \in Nat, at <= Len(f)
  PROVE  /\ Edge(f \o more, at) = Edge(f, at)
         /\ \A from \in Nat : Before(f \o more, from, at) = Before(f, from, at)
<1> DEFINE g == f \o more
<1>1. /\ Rows!Ends(f) \subseteq 1 .. Len(f) /\ Len(f) \in Nat
      /\ g \in Seq(Rows!Block) /\ Len(f) <= Len(g) /\ Rows!Ends(g) \subseteq 1 .. Len(g)
         /\ Len(g) \in Nat
      /\ \A i \in 1 .. Len(f) : i \in Rows!Ends(g) <=> i \in Rows!Ends(f)
      /\ \A i \in 1 .. Len(f) + 1 : Rows!Begin(g, i) = Rows!Begin(f, i)
  BY AppendedText, EndsOf
<1> HIDE DEF g
<1>2. \A i \in Rows!Ends(g) : i <= at => i \in 1 .. Len(f) /\ i \in 1 .. Len(f) + 1
  BY <1>1
<1>3. \A i \in Rows!Ends(f) : i \in 1 .. Len(f) /\ i \in 1 .. Len(f) + 1
  BY <1>1
<1>4. \A from \in Nat : Before(g, from, at) = Before(f, from, at)
  BY <1>1, <1>2, <1>3 DEF Before
<1>5. at + 1 \in 1 .. Len(f) + 1
  BY <1>1
<1>6. Edge(g, at) = Edge(f, at)
  BY <1>1, <1>5 DEF Edge
<1> QED
  BY <1>4, <1>6 DEF g

LEMMA RowsGrow ==
  ASSUME NEW f \in Seq(Rows!Block), NEW more \in Seq(Rows!Block), NEW E \in SUBSET Rows!Ends(f)
  PROVE  /\ RowsOf(f \o more, E) = RowsOf(f, E)
         /\ \A id : Broken(f \o more, id, E) = Broken(f, id, E)
<1> DEFINE g == f \o more
<1>1. /\ Rows!Ends(f) \subseteq 1 .. Len(f) /\ Len(f) \in Nat
      /\ \A i \in 1 .. Len(f) : g[i] = f[i]
      /\ \A i \in 1 .. Len(f) + 1 : Rows!Begin(g, i) = Rows!Begin(f, i)
      /\ \A i \in Rows!Ends(f) : Rows!Whole(g, i) <=> Rows!Whole(f, i)
  BY AppendedText, EndsOf
<1> HIDE DEF g
<1>2. \A i \in E : g[i] = f[i] /\ Rows!Begin(g, i) = Rows!Begin(f, i)
        /\ (Rows!Whole(g, i) <=> Rows!Whole(f, i))
  BY <1>1
<1>3. {e \in E : Rows!Whole(g, e) /\ g[e].line.kind = "row"}
        = {e \in E : Rows!Whole(f, e) /\ f[e].line.kind = "row"}
  BY <1>2
<1>4. {e \in E : ~ Rows!Whole(g, e)} = {e \in E : ~ Rows!Whole(f, e)}
  BY <1>2
<1> DEFINE R == {e \in E : Rows!Whole(f, e) /\ f[e].line.kind = "row"}
           B == {e \in E : ~ Rows!Whole(f, e)}
<1>5. {g[e].line : e \in R} = {f[e].line : e \in R}
  BY <1>2
<1>6. \A id : {<<id, Rows!Begin(g, e)>> : e \in B} = {<<id, Rows!Begin(f, e)>> : e \in B}
  BY <1>2
<1> QED
  BY <1>3, <1>4, <1>5, <1>6 DEF RowsOf, Broken, g

LEMMA StemGrows ==
  ASSUME NEW f \in Seq(Rows!Block), NEW more \in Seq(Rows!Block), NEW items, NEW at,
         Stem(f, items, at)
  PROVE  Stem(f \o more, items, at)
<1> DEFINE g == f \o more
<1>1. /\ Rows!Ends(f) \subseteq 1 .. Len(f) /\ Len(f) \in Nat
      /\ \A i \in 1 .. Len(f) : g[i] = f[i]
      /\ \A i \in 1 .. Len(f) : i \in Rows!Ends(g) <=> i \in Rows!Ends(f)
  BY AppendedText, EndsOf
<1> HIDE DEF g
<1> SUFFICES ASSUME NEW r \in items
             PROVE  \E end \in Rows!Ends(g) :
                      end <= at /\ g[end].line = [kind |-> "row", buy |-> r.buy, ver |-> r.ver]
  BY DEF Stem, g
<1>2. PICK end \in Rows!Ends(f) :
        end <= at /\ f[end].line = [kind |-> "row", buy |-> r.buy, ver |-> r.ver]
  BY DEF Stem
<1>3. end \in 1 .. Len(f)
  BY <1>1
<1> QED
  BY <1>1, <1>2, <1>3

LEMMA StemStays ==
  ASSUME NEW f \in Seq(Rows!Block), NEW at \in Nat, NEW to \in Nat, at <= to,
         NEW items, NEW some \in SUBSET items, Stem(f, items, at)
  PROVE  Stem(f, some, to)
<1>1. Rows!Ends(f) \subseteq Nat
  BY EndsOf
<1>2. \A end \in Rows!Ends(f) : end <= at => end <= to
  BY <1>1
<1> QED
  BY <1>2 DEF Stem

LEMMA PlacedGrows ==
  ASSUME NEW f \in Seq(Rows!Block), NEW more \in Seq(Rows!Block), NEW from \in Nat,
         NEW id \in Nat, NEW c \in Rows!Cursor, NEW some, NEW all, some \subseteq all,
         Placed(f, id, from, c, some)
  PROVE  Placed(f \o more, id, from, c, all)
<1> DEFINE g == f \o more
<1>1. Len(f) \in Nat /\ Len(f) <= Len(g) /\ Len(g) \in Nat /\ \A i \in 1 .. Len(f) : g[i] = f[i]
  BY AppendedText, LengthOf
<1>2. c.at \in Nat
  BY DEF Rows!Cursor
<1> SUFFICES Placed(g, id, from, c, all)
  OBVIOUS
<1> HIDE DEF g
<1>3. CASE c.ino = id
  <2>1. c.at <= Len(f)
    BY <1>3 DEF Placed
  <2>2. Edge(g, c.at) = Edge(f, c.at)
    BY <1>2, <2>1, LinesGrow DEF g
  <2>3. c.at > 0 => g[c.at] = f[c.at]
    BY <1>1, <1>2, <2>1
  <2> QED
    BY <1>1, <1>2, <1>3, <2>1, <2>2, <2>3 DEF Placed
<1>4. CASE c.ino # id
  BY <1>4 DEF Placed
<1> QED
  BY <1>3, <1>4

LEMMA PlacedStays ==
  ASSUME NEW f, NEW from, NEW id, NEW c, NEW some, NEW all, some \subseteq all,
         Placed(f, id, from, c, some)
  PROVE  Placed(f, id, from, c, all)
BY DEF Placed

\* A cursor stays right when the file grows.
LEMMA CursorGrows ==
  ASSUME NEW f \in Seq(Rows!Block), NEW more \in Seq(Rows!Block), NEW from \in Nat,
         NEW id \in Nat, NEW c \in Rows!Cursor, NEW gone, NEW t, NEW q, NEW first \in BOOLEAN,
         first => id = 1,
         CursorOf(f, id, from, gone, t, q, first, c)
  PROVE  CursorOf(f \o more, id, from, gone, t, q, first, c)
<1> DEFINE ends == Before(f, from, c.at)
           g == f \o more
<1>1. c.at \in Nat /\ c.pending \in SUBSET Rows!Item
  BY DEF Rows!Cursor
<1>2. Placed(g, id, from, c, gone)
  BY PlacedGrows DEF CursorOf
<1> HIDE DEF g
<1>3. c.ino = id => Before(g, from, c.at) = ends /\ RowsOf(g, ends) = RowsOf(f, ends)
                   /\ Broken(g, id, ends) = Broken(f, id, ends)
  <2> HAVE c.ino = id
  <2>1. c.at <= Len(f)
    BY DEF CursorOf, Placed
  <2>2. Before(g, from, c.at) = ends /\ ends \in SUBSET Rows!Ends(f)
    BY <1>1, <2>1, LinesGrow DEF g, Before
  <2> HIDE DEF ends
  <2> QED
    BY <2>2, RowsGrow DEF g
<1>4. first => c.ino = id
  BY DEF CursorOf, Placed
<1>5. first => Stem(g, c.pending, c.at)
  <2> HAVE first
  <2>1. Stem(f, c.pending, c.at)
    BY DEF CursorOf
  <2> QED
    BY <2>1, StemGrows DEF g
<1>6. /\ c.ino = id => Broken(f, id, ends) \subseteq gone /\ Covered(RowsOf(f, ends), t, c.pending)
      /\ first => Current(RowsOf(f, ends), t, q, c.pending)
  BY DEF CursorOf
<1> HIDE DEF ends
<1> QED
  BY <1>2, <1>3, <1>4, <1>5, <1>6 DEF CursorOf, g

LEMMA RowsAre ==
  ASSUME NEW f \in Seq(Rows!Block), NEW E \in SUBSET Rows!Ends(f), NEW line \in RowsOf(f, E)
  PROVE  line \in Rows!Line /\ line.buy \in Buys /\ line.ver \in 1 .. 2 /\ line.kind = "row"
<1>1. PICK end \in E : line = f[end].line /\ f[end].line.kind = "row"
  BY DEF RowsOf
<1>2. end \in 1 .. Len(f)
  BY EndsOf
<1>3. f[end].line \in Rows!Line
  BY <1>2, ItemOf, BlockLine
<1> QED
  BY <1>1, <1>3, LineOf

\* Rows are stored or looked up that were queued or are new in the table.
Moved(t, u, q, first) ==
  \A b \in Buys : t[b].ver > 0 =>
    /\ u[b].ver > 0 /\ (u[b].chain = "none" => t[b].chain = "none")
    /\ first => \/ u[b] = t[b]
                \/ \E i \in DOMAIN q : \E x \in q[i] : x.buy = b /\ u[b].ver = x.ver

\* A cursor stays right then.
LEMMA CursorMoves ==
  ASSUME NEW f \in Seq(Rows!Block), NEW from \in Nat, NEW id \in Nat, NEW c \in Rows!Cursor,
         NEW gone,
         NEW t, NEW u, NEW q, NEW first \in BOOLEAN, first => id = 1, Moved(t, u, q, first),
         CursorOf(f, id, from, gone, t, q, first, c)
  PROVE  CursorOf(f, id, from, gone, u, q, first, c)
<1> DEFINE ends == Before(f, from, c.at)
           lines == RowsOf(f, ends)
<1>1. ends \in SUBSET Rows!Ends(f)
  BY DEF Before
<1>2. \A line \in lines : line.buy \in Buys /\ line.ver \in 1 .. 2
  <2> HIDE DEF ends
  <2> QED
    BY <1>1, RowsAre
<1>3. Placed(f, id, from, c, gone)
  BY DEF CursorOf
<1>4. c.ino = id => Broken(f, id, ends) \subseteq gone
  BY DEF CursorOf
<1>5. c.ino = id => Covered(lines, t, c.pending)
  BY DEF CursorOf
<1>6. c.ino = id => Covered(lines, u, c.pending)
  <2> HIDE DEF lines
  <2> QED
    BY <1>2, <1>5 DEF Covered, Moved
<1>7. first => Current(lines, t, q, c.pending) /\ Stem(f, c.pending, c.at) /\ c.ino = id
  <2> HAVE first
  <2>1. Placed(f, id, from, c, gone)
    BY DEF CursorOf
  <2>2. c.ino = id
    BY <2>1 DEF Placed
  <2>3. Current(lines, t, q, c.pending) /\ Stem(f, c.pending, c.at)
    BY DEF CursorOf
  <2> QED
    BY <2>2, <2>3
<1>8. first => Current(lines, u, q, c.pending)
  <2> HAVE first
  <2> HIDE DEF lines
  <2>1. Current(lines, t, q, c.pending) /\ Covered(lines, t, c.pending)
    BY <1>5, <1>7
  <2>2. ASSUME NEW line \in lines
        PROVE  u[line.buy].ver >= line.ver \/ Waiting(c.pending, line.buy)
    <3>1. line.buy \in Buys /\ t[line.buy].ver > 0
      BY <1>2, <2>1 DEF Covered
    <3>2. t[line.buy].ver >= line.ver \/ Waiting(c.pending, line.buy)
      BY <2>1 DEF Current
    <3>3. CASE u[line.buy] = t[line.buy]
      BY <3>2, <3>3
    <3>4. CASE \E i \in DOMAIN q : \E x \in q[i] : x.buy = line.buy /\ u[line.buy].ver = x.ver
      <4>1. PICK i \in DOMAIN q : \E x \in q[i] : x.buy = line.buy /\ u[line.buy].ver = x.ver
        BY <3>4
      <4>2. PICK x \in q[i] : x.buy = line.buy /\ u[line.buy].ver = x.ver
        BY <4>1
      <4>3. Behind(lines, c.pending, q[i])
        BY <2>1 DEF Current
      <4> QED
        BY <4>2, <4>3 DEF Behind
    <3> QED
      BY <3>1, <3>3, <3>4 DEF Moved
  <2>3. \A i \in DOMAIN q : Behind(lines, c.pending, q[i])
    BY <2>1 DEF Current
  <2>4. /\ \A line \in lines : \A x \in c.pending : x.buy = line.buy => x.ver >= line.ver
        /\ \A p, x \in c.pending : p.buy = x.buy => p.ver = x.ver
    BY <2>1 DEF Current
  <2> QED
    BY <2>2, <2>3, <2>4 DEF Current
<1> QED
  BY <1>3, <1>4, <1>6, <1>7, <1>8 DEF CursorOf

\* It depends on the queue only by what the queue takes back.
LEMMA CursorQueue ==
  ASSUME NEW f, NEW from, NEW id, NEW gone, NEW t, NEW q, NEW r, NEW first, NEW c,
         CursorOf(f, id, from, gone, t, q, first, c),
         first => \A i \in DOMAIN r : Behind(RowsOf(f, Before(f, from, c.at)), c.pending, r[i])
  PROVE  CursorOf(f, id, from, gone, t, r, first, c)
BY DEF CursorOf, Current

\* The lines before a place are those before an earlier place and the new ones.
New(f, id, from, c, at) == {end \in Before(f, from, at) : c.ino = id => end > c.at}

LEMMA NewLines ==
  ASSUME NEW f \in Seq(Rows!Block), NEW id, NEW from \in Nat, NEW c \in Rows!Cursor, NEW at \in Nat
  PROVE  /\ New(f, id, from, c, at) \subseteq Before(f, from, at)
         /\ Before(f, from, at) \subseteq Rows!Ends(f)
            /\ Before(f, from, c.at) \subseteq Rows!Ends(f)
         /\ \A line \in RowsOf(f, Before(f, from, at)) :
              \/ line \in RowsOf(f, New(f, id, from, c, at))
              \/ c.ino = id /\ line \in RowsOf(f, Before(f, from, c.at))
         /\ \A x \in Broken(f, id, Before(f, from, at)) :
              \/ x \in Broken(f, id, New(f, id, from, c, at))
              \/ c.ino = id /\ x \in Broken(f, id, Before(f, from, c.at))
<1>1. c.at \in Nat /\ Rows!Ends(f) \subseteq Nat
  BY EndsOf DEF Rows!Cursor
<1>2. /\ Before(f, from, at) \subseteq Rows!Ends(f) /\ Before(f, from, c.at) \subseteq Rows!Ends(f)
      /\ New(f, id, from, c, at) \subseteq Before(f, from, at)
  BY DEF Before, New
<1>3. \A e \in Before(f, from, at) :
        e \in New(f, id, from, c, at) \/ (c.ino = id /\ e \in Before(f, from, c.at))
  BY <1>1 DEF Before, New
<1>4. \A line \in RowsOf(f, Before(f, from, at)) :
              \/ line \in RowsOf(f, New(f, id, from, c, at))
              \/ c.ino = id /\ line \in RowsOf(f, Before(f, from, c.at))
  BY <1>3 DEF RowsOf
<1>5. \A x \in Broken(f, id, Before(f, from, at)) :
              \/ x \in Broken(f, id, New(f, id, from, c, at))
              \/ c.ino = id /\ x \in Broken(f, id, Before(f, from, c.at))
  BY <1>3 DEF Broken
<1> QED
  BY <1>2, <1>4, <1>5

\* What the last copies in the context are ahead of.
LEMMA ContextStem ==
  ASSUME NEW f, NEW from, NEW q, NEW at, NEW lines \in Seq(Rows!Line),
         ContextOf(f, from, q, at, lines),
         NEW items \in SUBSET Rows!Item, \A r \in items : IsLast(lines, r.buy, r.ver)
  PROVE  /\ Stem(f, items, at)
         /\ \A p, r \in items : p.buy = r.buy => p.ver = r.ver
         /\ \A line \in RowsOf(f, Before(f, from, at)) : \A r \in items :
              r.buy = line.buy => line.ver <= r.ver
         /\ \A i \in DOMAIN q : \A s \in q[i] : \A r \in items : s.buy = r.buy => s.ver <= r.ver
<1>1. ASSUME NEW r \in items
      PROVE  \E end \in Rows!Ends(f) :
               end <= at /\ f[end].line = [kind |-> "row", buy |-> r.buy, ver |-> r.ver]
  <2>1. PICK i \in Rows!Copies(lines, r.buy) : lines[i].ver = r.ver
    BY DEF IsLast
  <2>2. i \in 1 .. Len(lines) /\ lines[i].kind = "row" /\ lines[i].buy = r.buy /\ i \in DOMAIN lines
    BY <2>1, CopiesOf, LengthOf
  <2>3. lines[i] = [kind |-> "row", buy |-> r.buy, ver |-> r.ver]
    <3>1. lines[i] \in Rows!Line
      BY <2>2, ItemOf
    <3> QED
      BY <2>1, <2>2, <3>1, LineOf
  <2> QED
    BY <2>2, <2>3 DEF ContextOf
<1>2. \A p, r \in items : p.buy = r.buy => p.ver = r.ver
  BY LastOnce
<1>3. ASSUME NEW r \in items
      PROVE  /\ \A line \in RowsOf(f, Before(f, from, at)) : r.buy = line.buy => line.ver <= r.ver
             /\ \A i \in DOMAIN q : \A s \in q[i] : s.buy = r.buy => s.ver <= r.ver
  <2>1. r.buy \in Buys /\ r.ver \in 1 .. 2 /\ IsLast(lines, r.buy, r.ver)
    BY DEF Rows!Item
  <2>2. /\ \A line \in RowsOf(f, Before(f, from, at)) : line.buy = r.buy => line.ver <= r.ver
        /\ \A i \in DOMAIN q : \A s \in q[i] : s.buy = r.buy => s.ver <= r.ver
    BY <2>1 DEF ContextOf
  <2> QED
    BY <2>2
<1>4. Stem(f, items, at)
  BY <1>1 DEF Stem
<1> QED
  BY <1>2, <1>3, <1>4

\* Some rows are last copies; the new lines are stored, and their rows are among some.
LastIn(lines, items) == \A r \in items : IsLast(lines, r.buy, r.ver)
NewStored(f, id, from, gone, t, c, n, items) ==
  n.ino = id =>
    /\ Broken(f, id, New(f, id, from, c, n.at)) \subseteq gone
    /\ \A line \in RowsOf(f, New(f, id, from, c, n.at)) :
         Waiting(items, line.buy) /\ t[line.buy].ver > 0

\* The rows of a batch, or of a refresh, become pending.
LEMMA CursorPends ==
  ASSUME NEW f \in Seq(Rows!Block), NEW from \in Nat, NEW id \in Nat, NEW c \in Rows!Cursor,
         NEW n \in Rows!Cursor,
         NEW gone, NEW t, NEW q \in Seq(SUBSET Rows!Item),
         NEW first \in BOOLEAN, first => id = 1,
         CursorOf(f, id, from, gone, t, q, first, c),
         Placed(f, id, from, n, gone),
         NEW items \in SUBSET Rows!Item, NEW lines \in Seq(Rows!Line), LastIn(lines, items),
         NewStored(f, id, from, gone, t, c, n, items),
         first => c.at <= n.at /\ ContextOf(f, from, q, n.at, lines)
  PROVE  CursorOf(f, id, from, gone, t, q, first,
                  [n EXCEPT !.pending = Rows!Over(items, c.pending)])
<1> DEFINE pending == Rows!Over(items, c.pending)
           d == [n EXCEPT !.pending = pending]
           old == RowsOf(f, Before(f, from, c.at))
           new == RowsOf(f, New(f, id, from, c, n.at))
           all == RowsOf(f, Before(f, from, n.at))
<1>1. /\ d.ino = n.ino /\ d.at = n.at /\ d.skip = n.skip /\ d.anchor = n.anchor
      /\ d.pending = pending /\ n.at \in Nat /\ c.at \in Nat /\ c.pending \in SUBSET Rows!Item
  BY DEF Rows!Cursor
<1>2. /\ items \subseteq pending /\ pending \subseteq items \cup c.pending
      /\ \A r \in pending : r \in items \/ (r \in c.pending /\ ~ \E s \in items : s.buy = r.buy)
      /\ \A r \in c.pending : \E s \in pending : s.buy = r.buy
  BY OverEither
<1>3. \A b : Waiting(items, b) \/ Waiting(c.pending, b) => Waiting(pending, b)
  BY <1>2 DEF Waiting
<1>4. /\ \A line \in all : line \in new \/ (c.ino = id /\ line \in old)
      /\ \A x \in Broken(f, id, Before(f, from, n.at)) :
              \/ x \in Broken(f, id, New(f, id, from, c, n.at))
              \/ c.ino = id /\ x \in Broken(f, id, Before(f, from, c.at))
      /\ Before(f, from, n.at) \subseteq Rows!Ends(f)
  BY <1>1, NewLines
<1>5. \A line \in all : line.buy \in Buys /\ line.ver \in 1 .. 2
  BY <1>4, RowsAre
<1>6. /\ c.ino = id => Broken(f, id, Before(f, from, c.at)) \subseteq gone
         /\ Covered(old, t, c.pending)
      /\ first => Current(old, t, q, c.pending) /\ Stem(f, c.pending, c.at)
  BY DEF CursorOf
<1>7. Placed(f, id, from, d, gone)
  <2> HIDE DEF d
  <2> QED
    BY <1>1 DEF Placed
<1> DEFINE fresh == New(f, id, from, c, n.at)
<1>12. /\ \A r \in items : IsLast(lines, r.buy, r.ver)
       /\ n.ino = id => /\ Broken(f, id, fresh) \subseteq gone
                        /\ \A line \in new : Waiting(items, line.buy) /\ t[line.buy].ver > 0
  BY DEF LastIn, NewStored
<1> HIDE DEF d, pending, old, new, all
<1>8. n.ino = id => Broken(f, id, Before(f, from, n.at)) \subseteq gone
  BY <1>4, <1>6, <1>12
<1>9. n.ino = id => Covered(all, t, pending)
  <2> HAVE n.ino = id
  <2>1. ASSUME NEW line \in all
        PROVE  t[line.buy].ver > 0 /\ (t[line.buy].chain = "none" => Waiting(pending, line.buy))
    <3>1. CASE line \in new
      BY <1>3, <1>12, <3>1
    <3>2. CASE c.ino = id /\ line \in old
      BY <1>3, <1>6, <3>2 DEF Covered
    <3> QED
      BY <1>4, <3>1, <3>2
  <2> QED
    BY <2>1 DEF Covered
<1>10. ASSUME first
       PROVE  Current(all, t, q, pending) /\ Stem(f, pending, n.at)
  <2>1. n.ino = id /\ c.ino = id
    BY <1>10 DEF Placed, CursorOf
  <2>2. /\ Stem(f, items, n.at)
        /\ \A p, r \in items : p.buy = r.buy => p.ver = r.ver
        /\ \A line \in all : \A r \in items : r.buy = line.buy => line.ver <= r.ver
    <3>1. ContextOf(f, from, q, n.at, lines)
      BY <1>10
    <3>2. Stem(f, items, n.at)
      BY <1>12, <3>1, ContextStem
    <3>4. \A p, r \in items : p.buy = r.buy => p.ver = r.ver
      BY <1>12, LastOnce
    <3>3. \A line \in RowsOf(f, Before(f, from, n.at)) : \A r \in items :
              r.buy = line.buy => line.ver <= r.ver
      BY <1>12, <3>1, ContextStem
    <3> QED
      BY <3>2, <3>3, <3>4 DEF all
  <2>3. Stem(f, c.pending, n.at)
    BY <1>1, <1>6, <1>10, StemStays
  <2>4. Stem(f, pending, n.at)
    BY <1>2, <2>2, <2>3 DEF Stem
  <2>5. Current(old, t, q, c.pending)
    BY <1>6, <1>10
  <2>6. ASSUME NEW line \in all
        PROVE  t[line.buy].ver >= line.ver \/ Waiting(pending, line.buy)
    <3>1. CASE line \in new
      BY <1>3, <1>12, <2>1, <3>1
    <3>2. CASE line \in old
      BY <1>3, <2>5, <3>2 DEF Current
    <3> QED
      BY <1>4, <3>1, <3>2
  <2>7. ASSUME NEW line \in all, NEW r \in pending, r.buy = line.buy
        PROVE  r.ver >= line.ver
    <3>1. r \in Rows!Item /\ r.ver \in 1 .. 2
      BY <1>1, <1>2 DEF Rows!Item
    <3>2. CASE r \in items
      BY <1>5, <2>2, <2>7, <3>1, <3>2
    <3>3. CASE r \in c.pending /\ ~ \E s \in items : s.buy = r.buy
      <4>1. line \notin new
        BY <1>12, <2>1, <2>7, <3>3 DEF Waiting
      <4>2. line \in old
        BY <1>4, <4>1
      <4> QED
        BY <2>5, <2>7, <3>3, <4>2 DEF Current
    <3> QED
      BY <1>2, <3>2, <3>3
  <2>8. ASSUME NEW i \in DOMAIN q PROVE Behind(all, pending, q[i])
    <3> SUFFICES ASSUME NEW line \in all, NEW r \in q[i], r.buy = line.buy
                 PROVE  r.ver >= line.ver \/ Waiting(pending, line.buy)
      BY DEF Behind
    <3>1. CASE line \in new
      BY <1>3, <1>12, <2>1, <3>1
    <3>2. CASE line \in old
      <4>1. Behind(old, c.pending, q[i])
        BY <2>5 DEF Current
      <4>2. r.ver >= line.ver \/ Waiting(c.pending, line.buy)
        BY <3>2, <4>1 DEF Behind
      <4> QED
        BY <1>3, <4>2
    <3> QED
      BY <1>4, <3>1, <3>2
  <2>9. \A p, r \in pending : p.buy = r.buy => p.ver = r.ver
    <3> TAKE p, r \in pending
    <3> HAVE p.buy = r.buy
    <3>1. CASE p \in items /\ r \in items
      BY <2>2, <3>1
    <3>2. CASE ~ (p \in items /\ r \in items)
      <4>1. p \in c.pending /\ r \in c.pending
        BY <1>2, <3>2
      <4> QED
        BY <2>5, <4>1 DEF Current
    <3> QED
      BY <3>1, <3>2
  <2>10. Current(all, t, q, pending)
    BY <2>6, <2>7, <2>8, <2>9 DEF Current
  <2> QED
    BY <2>4, <2>10
<1>11. CursorOf(f, id, from, gone, t, q, first, d)
  BY <1>1, <1>7, <1>8, <1>9, <1>10 DEF CursorOf, all
<1> QED
  BY <1>11 DEF d, pending

\* By the CLI nothing of a batch is pending: the chain was asked at once.
LEMMA CursorPasses ==
  ASSUME NEW f \in Seq(Rows!Block), NEW from \in Nat, NEW id \in Nat, NEW c \in Rows!Cursor,
         NEW n \in Rows!Cursor,
         NEW gone, NEW t, NEW q,
         CursorOf(f, id, from, gone, t, q, FALSE, c),
         Placed(f, id, from, n, gone),
         \A b \in Buys : t[b].ver > 0 => t[b].chain # "none",
         NEW items, NewStored(f, id, from, gone, t, c, n, items)
  PROVE  CursorOf(f, id, from, gone, t, q, FALSE, [n EXCEPT !.pending = c.pending])
<1> DEFINE d == [n EXCEPT !.pending = c.pending]
           old == RowsOf(f, Before(f, from, c.at))
           new == RowsOf(f, New(f, id, from, c, n.at))
           all == RowsOf(f, Before(f, from, n.at))
<1>1. /\ d.ino = n.ino /\ d.at = n.at /\ d.skip = n.skip /\ d.anchor = n.anchor
      /\ d.pending = c.pending /\ n.at \in Nat
  BY DEF Rows!Cursor
<1>2. /\ \A line \in all : line \in new \/ (c.ino = id /\ line \in old)
      /\ \A x \in Broken(f, id, Before(f, from, n.at)) :
              \/ x \in Broken(f, id, New(f, id, from, c, n.at))
              \/ c.ino = id /\ x \in Broken(f, id, Before(f, from, c.at))
      /\ Before(f, from, n.at) \subseteq Rows!Ends(f)
  BY <1>1, NewLines
<1>3. \A line \in all : line.buy \in Buys
  BY <1>2, RowsAre
<1>4. c.ino = id => Broken(f, id, Before(f, from, c.at)) \subseteq gone
        /\ Covered(old, t, c.pending)
  BY DEF CursorOf
<1>5. Placed(f, id, from, d, gone)
  <2> HIDE DEF d
  <2> QED
    BY <1>1 DEF Placed
<1> HIDE DEF d, old, new, all
<1>6. n.ino = id => Broken(f, id, Before(f, from, n.at)) \subseteq gone
  BY <1>2, <1>4 DEF NewStored
<1>7. n.ino = id => Covered(all, t, c.pending)
  <2> HAVE n.ino = id
  <2>1. \A line \in all : t[line.buy].ver > 0
    BY <1>2, <1>4 DEF Covered, new, NewStored
  <2> QED
    BY <1>3, <2>1 DEF Covered
<1>8. CursorOf(f, id, from, gone, t, q, FALSE, d)
  BY <1>1, <1>5, <1>6, <1>7 DEF CursorOf, all
<1> QED
  BY <1>8 DEF d

\* What a lookup of some rows leaves in the table.
LookedUp(t, u, items) ==
  \A b \in Buys : IF Waiting(items, b)
                 THEN /\ u[b].ver > 0 /\ u[b].chain # "none"
                      /\ \E r \in items : r.buy = b /\ u[b].ver = r.ver
                 ELSE u[b] = t[b]

\* The rows of the head of the queue are no later than those behind it.
HeadFirst(q) == \A i \in DOMAIN q : \A r \in q[1], s \in q[i] : r.buy = s.buy => r.ver <= s.ver

\* What was looked up is no longer pending.
LEMMA CursorAcknowledges ==
  ASSUME NEW f \in Seq(Rows!Block), NEW from \in Nat, NEW id \in Nat, NEW c \in Rows!Cursor,
         NEW gone, NEW t, NEW u, NEW q \in Seq(SUBSET Rows!Item), q # <<>>,
         NEW first \in BOOLEAN, first => id = 1,
         CursorOf(f, id, from, gone, t, q, first, c),
         LookedUp(t, u, q[1]), first => HeadFirst(q)
  PROVE  CursorOf(f, id, from, gone, u, q, first, [c EXCEPT !.pending = c.pending \ q[1]])
<1> DEFINE head == q[1]
           pending == c.pending \ head
           d == [c EXCEPT !.pending = pending]
           lines == RowsOf(f, Before(f, from, c.at))
<1>1. /\ d.ino = c.ino /\ d.at = c.at /\ d.skip = c.skip /\ d.anchor = c.anchor
      /\ d.pending = pending /\ c.at \in Nat /\ c.pending \in SUBSET Rows!Item
  BY DEF Rows!Cursor
<1>2. head \in SUBSET Rows!Item /\ 1 \in DOMAIN q
  OBVIOUS
<1>3. \A r \in c.pending : r \in head \/ r \in pending
  OBVIOUS
<1>4. \A b : Waiting(c.pending, b) /\ ~ Waiting(head, b) => Waiting(pending, b)
  BY <1>3 DEF Waiting
<1>5. Before(f, from, c.at) \subseteq Rows!Ends(f)
  BY DEF Before
<1>6. \A line \in lines : line.buy \in Buys /\ line.ver \in 1 .. 2
  BY <1>5, RowsAre
<1>7. /\ c.ino = id => Broken(f, id, Before(f, from, c.at)) \subseteq gone
                      /\ Covered(lines, t, c.pending)
      /\ first => Current(lines, t, q, c.pending) /\ Stem(f, c.pending, c.at)
      /\ Placed(f, id, from, c, gone)
  BY DEF CursorOf
<1>8. Placed(f, id, from, d, gone)
  <2> HIDE DEF d
  <2> QED
    BY <1>1, <1>7 DEF Placed
<1>9. \A b \in Buys : IF Waiting(head, b)
                     THEN /\ u[b].ver > 0 /\ u[b].chain # "none"
                          /\ \E r \in head : r.buy = b /\ u[b].ver = r.ver
                     ELSE u[b] = t[b]
  BY DEF LookedUp
<1> HIDE DEF d, lines
<1>10. c.ino = id => Covered(lines, u, pending)
  <2> HAVE c.ino = id
  <2>1. Covered(lines, t, c.pending)
    BY <1>7
  <2> HIDE DEF pending, head
  <2>2. ASSUME NEW line \in lines
        PROVE  u[line.buy].ver > 0 /\ (u[line.buy].chain = "none" => Waiting(pending, line.buy))
    <3>1. /\ t[line.buy].ver > 0 /\ (t[line.buy].chain = "none" => Waiting(c.pending, line.buy))
          /\ line.buy \in Buys
      BY <1>6, <2>1 DEF Covered
    <3> QED
      BY <1>4, <1>9, <3>1
  <2> QED
    BY <2>2 DEF Covered
<1>11. ASSUME first
       PROVE  Current(lines, u, q, pending) /\ Stem(f, pending, c.at)
  <2>1. Current(lines, t, q, c.pending) /\ Stem(f, c.pending, c.at)
    BY <1>7, <1>11
  <2>2. pending \subseteq c.pending
    OBVIOUS
  <2>3. \A i \in DOMAIN q : \A r \in head, s \in q[i] : r.buy = s.buy => r.ver <= s.ver
    BY <1>11 DEF HeadFirst
  <2>4. \A i \in DOMAIN q : \A s \in q[i] : s \in Rows!Item
    OBVIOUS
  <2> HIDE DEF pending, head
  <2>5. \A r \in head : r.ver \in Nat
    BY <1>2 DEF Rows!Item
  <2>6. \A p, r \in head : p.buy = r.buy => p.ver = r.ver
    <3> TAKE p, r \in head
    <3>1. p.buy = r.buy => p.ver <= r.ver /\ r.ver <= p.ver
      BY <1>2, <2>3 DEF head
    <3> QED
      BY <2>5, <3>1
  <2>7. ASSUME NEW line \in lines
        PROVE  u[line.buy].ver >= line.ver \/ Waiting(pending, line.buy)
    <3>1. /\ line.buy \in Buys /\ line.ver \in 1 .. 2
          /\ t[line.buy].ver >= line.ver \/ Waiting(c.pending, line.buy)
          /\ \A r \in c.pending : r.buy = line.buy => r.ver >= line.ver
          /\ Behind(lines, c.pending, head)
      BY <1>2, <1>6, <2>1 DEF Current, head
    <3>2. CASE ~ Waiting(head, line.buy)
      BY <1>4, <1>9, <3>1, <3>2
    <3>3. CASE Waiting(head, line.buy)
      <4>1. PICK r \in head : r.buy = line.buy /\ u[line.buy].ver = r.ver
        BY <1>9, <3>1, <3>3
      <4>2. r.ver >= line.ver \/ Waiting(c.pending, line.buy)
        BY <3>1, <4>1 DEF Behind
      <4>3. CASE Waiting(c.pending, line.buy)
        <5>1. PICK p \in c.pending : p.buy = line.buy
          BY <4>3 DEF Waiting
        <5>2. CASE p \in head
          BY <2>6, <3>1, <4>1, <5>1, <5>2
        <5>3. CASE p \notin head
          BY <1>3, <5>1, <5>3 DEF Waiting
        <5> QED
          BY <5>2, <5>3
      <4> QED
        BY <4>1, <4>2, <4>3
    <3> QED
      BY <3>2, <3>3
  <2>8. ASSUME NEW i \in DOMAIN q PROVE Behind(lines, pending, q[i])
    <3> SUFFICES ASSUME NEW line \in lines, NEW r \in q[i], r.buy = line.buy
                 PROVE  r.ver >= line.ver \/ Waiting(pending, line.buy)
      BY DEF Behind
    <3>1. /\ line.ver \in 1 .. 2 /\ Behind(lines, c.pending, q[i])
          /\ \A p \in c.pending : p.buy = line.buy => p.ver >= line.ver
      BY <1>6, <2>1 DEF Current
    <3>2. r.ver >= line.ver \/ Waiting(c.pending, line.buy)
      BY <3>1 DEF Behind
    <3>3. CASE Waiting(c.pending, line.buy)
      <4>1. PICK p \in c.pending : p.buy = line.buy
        BY <3>3 DEF Waiting
      <4>2. CASE p \in head
        <5>1. p.ver <= r.ver /\ p.ver >= line.ver /\ p.ver \in Nat
          BY <2>3, <2>5, <3>1, <4>1, <4>2
        <5>2. r.ver \in Nat
          BY <2>4 DEF Rows!Item
        <5> QED
          BY <3>1, <5>1, <5>2
      <4>3. CASE p \notin head
        BY <1>3, <4>1, <4>3 DEF Waiting
      <4> QED
        BY <4>2, <4>3
    <3> QED
      BY <3>2, <3>3
  <2>9. /\ \A line \in lines : \A r \in pending : r.buy = line.buy => r.ver >= line.ver
        /\ \A p, r \in pending : p.buy = r.buy => p.ver = r.ver
    BY <2>1, <2>2 DEF Current
  <2>10. Stem(f, pending, c.at)
    BY <2>1, <2>2 DEF Stem
  <2> QED
    BY <2>7, <2>8, <2>9, <2>10 DEF Current
<1>12. CursorOf(f, id, from, gone, u, q, first, d)
  BY <1>1, <1>7, <1>8, <1>10, <1>11 DEF CursorOf, lines
<1> QED
  BY <1>12 DEF d

LEMMA ContextQueue ==
  ASSUME NEW f, NEW from, NEW q, NEW r, NEW at, NEW lines, ContextOf(f, from, q, at, lines),
         \A i \in DOMAIN r : \E j \in DOMAIN q : r[i] = q[j]
  PROVE  ContextOf(f, from, r, at, lines)
BY DEF ContextOf

LEMMA TailOf ==
  ASSUME NEW S, NEW q \in Seq(S), q # <<>>
  PROVE  /\ Tail(q) \in Seq(S) /\ Head(q) = q[1] /\ Head(q) \in S /\ 1 \in DOMAIN q
         /\ \A i \in DOMAIN Tail(q) : i \in Nat /\ i + 1 \in DOMAIN q /\ Tail(q)[i] = q[i + 1]
OBVIOUS

LEMMA AppendOf ==
  ASSUME NEW S, NEW q \in Seq(S), NEW e \in S
  PROVE  /\ Append(q, e) \in Seq(S) /\ Len(q) \in Nat
         /\ \A i \in DOMAIN Append(q, e) :
              /\ i \in Nat /\ i <= Len(q) + 1
              /\ \/ i \in DOMAIN q /\ i <= Len(q) /\ Append(q, e)[i] = q[i]
                 \/ i = Len(q) + 1 /\ Append(q, e)[i] = e
OBVIOUS

LEMMA QueueGoesOn ==
  ASSUME NEW f, NEW q \in Seq(SUBSET Rows!Item), q # <<>>, NEW at, QueueOf(f, q, at)
  PROVE  QueueOf(f, Tail(q), at)
<1>1. \A i \in DOMAIN Tail(q) : i \in Nat /\ i + 1 \in DOMAIN q /\ Tail(q)[i] = q[i + 1]
  BY TailOf
<1>2. \A i \in DOMAIN Tail(q) : Stem(f, Tail(q)[i], at)
  BY <1>1 DEF QueueOf
<1>3. ASSUME NEW i \in DOMAIN Tail(q), NEW j \in DOMAIN Tail(q), i <= j
      PROVE  \A r \in Tail(q)[i], s \in Tail(q)[j] : r.buy = s.buy => r.ver <= s.ver
  <2>1. i + 1 \in DOMAIN q /\ j + 1 \in DOMAIN q /\ i + 1 <= j + 1
    BY <1>1, <1>3
  <2>2. \A r \in q[i + 1], s \in q[j + 1] : r.buy = s.buy => r.ver <= s.ver
    BY <2>1 DEF QueueOf
  <2> QED
    BY <1>1, <2>2
<1> QED
  BY <1>2, <1>3 DEF QueueOf

\* Last copies of the context are queued behind what was queued before.
LEMMA QueueAppended ==
  ASSUME NEW f \in Seq(Rows!Block), NEW from, NEW q \in Seq(SUBSET Rows!Item), NEW at \in Nat,
         NEW to \in Nat, at <= to,
         NEW lines \in Seq(Rows!Line), ContextOf(f, from, q, to, lines), QueueOf(f, q, at),
         NEW items \in SUBSET Rows!Item, \A r \in items : IsLast(lines, r.buy, r.ver)
  PROVE  /\ QueueOf(f, Append(q, items), to)
         /\ ContextOf(f, from, Append(q, items), to, lines)
         /\ \A pending : Behind(RowsOf(f, Before(f, from, to)), pending, items)
<1> DEFINE a == Append(q, items)
<1>1. /\ a \in Seq(SUBSET Rows!Item) /\ Len(q) \in Nat
      /\ \A i \in DOMAIN a :
              /\ i \in Nat /\ i <= Len(q) + 1
              /\ \/ i \in DOMAIN q /\ i <= Len(q) /\ a[i] = q[i]
                 \/ i = Len(q) + 1 /\ a[i] = items
  BY AppendOf
<1> HIDE DEF a
<1>2. Stem(f, items, to)
  BY ContextStem
<1>3. \A p, r \in items : p.buy = r.buy => p.ver = r.ver
  BY LastOnce
<1>4. /\ \A line \in RowsOf(f, Before(f, from, to)) : \A r \in items :
           r.buy = line.buy => line.ver <= r.ver
      /\ \A i \in DOMAIN q : \A s \in q[i] : \A r \in items : s.buy = r.buy => s.ver <= r.ver
  BY ContextStem
<1>5. \A r \in items : r.ver \in 1 .. 2 /\ r.buy \in Buys
  BY DEF Rows!Item
<1>6. \A i \in DOMAIN q : Stem(f, q[i], to)
  <2> TAKE i \in DOMAIN q
  <2>1. Stem(f, q[i], at)
    BY DEF QueueOf
  <2> QED
    BY <2>1, StemStays
<1>7. \A i \in DOMAIN a : Stem(f, a[i], to)
  BY <1>1, <1>2, <1>6
<1>8. ASSUME NEW i \in DOMAIN a, NEW j \in DOMAIN a, i <= j, NEW r \in a[i], NEW s \in a[j],
             r.buy = s.buy
      PROVE  r.ver <= s.ver
  <2>1. CASE i \in DOMAIN q /\ a[i] = q[i] /\ j \in DOMAIN q /\ a[j] = q[j]
    BY <1>8, <2>1 DEF QueueOf
  <2>2. CASE i \in DOMAIN q /\ a[i] = q[i] /\ a[j] = items
    BY <1>4, <1>8, <2>2
  <2>3. CASE a[i] = items /\ a[j] = items
    BY <1>3, <1>5, <1>8, <2>3
  <2>4. i = Len(q) + 1 => j = Len(q) + 1
    BY <1>1, <1>8
  <2> QED
    BY <1>1, <2>1, <2>2, <2>3, <2>4
<1>9. QueueOf(f, a, to)
  BY <1>7, <1>8 DEF QueueOf
<1>10. ASSUME NEW b \in Buys, NEW ver \in 1 .. 2, IsLast(lines, b, ver), NEW i \in DOMAIN a,
              NEW r \in a[i],
              r.buy = b
       PROVE  r.ver <= ver
  <2>1. CASE i \in DOMAIN q /\ a[i] = q[i]
    BY <1>10, <2>1 DEF ContextOf
  <2>2. CASE a[i] = items
    BY <1>10, <2>2, LastOnce
  <2> QED
    BY <1>1, <2>1, <2>2
<1>11. ContextOf(f, from, a, to, lines)
  BY <1>10 DEF ContextOf
<1>12. \A line \in RowsOf(f, Before(f, from, to)) : line.ver \in 1 .. 2
  <2>1. Before(f, from, to) \subseteq Rows!Ends(f)
    BY DEF Before
  <2> QED
    BY <2>1, RowsAre
<1>13. \A pending : Behind(RowsOf(f, Before(f, from, to)), pending, items)
  BY <1>4, <1>5, <1>12 DEF Behind
<1> QED
  BY <1>9, <1>11, <1>13 DEF a

LEMMA QueueGrows ==
  ASSUME NEW f \in Seq(Rows!Block), NEW more \in Seq(Rows!Block), NEW q, NEW at, QueueOf(f, q, at)
  PROVE  QueueOf(f \o more, q, at)
<1>1. \A i \in DOMAIN q : Stem(f \o more, q[i], at)
  BY StemGrows DEF QueueOf
<1> QED
  BY <1>1 DEF QueueOf

LEMMA ContextGrows ==
  ASSUME NEW f \in Seq(Rows!Block), NEW more \in Seq(Rows!Block), NEW from \in Nat, NEW q,
         NEW at \in Nat, at <= Len(f),
         NEW lines, ContextOf(f, from, q, at, lines)
  PROVE  ContextOf(f \o more, from, q, at, lines)
<1> DEFINE g == f \o more
           ends == Before(f, from, at)
<1>1. Before(g, from, at) = ends
  BY LinesGrow
<1>2. RowsOf(g, ends) = RowsOf(f, ends)
  <2>1. ends \in SUBSET Rows!Ends(f)
    BY DEF Before
  <2> HIDE DEF ends
  <2> QED
    BY <2>1, RowsGrow
<1>3. /\ Rows!Ends(f) \subseteq 1 .. Len(f) /\ Len(f) \in Nat
      /\ \A i \in 1 .. Len(f) : g[i] = f[i]
      /\ \A i \in 1 .. Len(f) : i \in Rows!Ends(g) <=> i \in Rows!Ends(f)
  BY AppendedText, EndsOf
<1>4. \A end \in Rows!Ends(f) : end \in Rows!Ends(g) /\ g[end].line = f[end].line
  BY <1>3
<1> HIDE DEF g, ends
<1>5. \A i \in DOMAIN lines : lines[i].kind = "row" =>
        \E end \in Rows!Ends(g) : end <= at /\ g[end].line = lines[i]
  BY <1>4 DEF ContextOf
<1> QED
  BY <1>1, <1>2, <1>5 DEF ContextOf, g, ends

LEMMA BatchGrows ==
  ASSUME NEW f \in Seq(Rows!Block), NEW more \in Seq(Rows!Block), NEW from \in Nat,
         NEW id \in Nat, NEW gone,
         NEW first, NEW c, NEW b, b.cursor \in Rows!Cursor, NEW r,
         BatchOf(f, id, from, gone, first, c, b, r)
  PROVE  BatchOf(f \o more, id, from, gone, first, c, b, r)
<1> DEFINE g == f \o more
           n == b.cursor
           ends == Before(f, from, n.at)
           new == New(f, id, from, c, n.at)
<1>1. n.at \in Nat
  BY DEF Rows!Cursor
<1>2. Placed(g, id, from, n, gone \cup b.bad)
  BY PlacedGrows DEF BatchOf
<1>3. n.ino = id => Before(g, from, n.at) = ends
  <2> HAVE n.ino = id
  <2>1. n.at <= Len(f)
    BY DEF BatchOf, Placed
  <2> QED
    BY <1>1, <2>1, LinesGrow
<1>4. n.ino = id => New(g, id, from, c, n.at) = new
  BY <1>3 DEF New
<1>5. RowsOf(g, new) = RowsOf(f, new) /\ Broken(g, id, new) = Broken(f, id, new)
  <2>1. new \in SUBSET Rows!Ends(f)
    BY DEF New, Before
  <2> HIDE DEF new
  <2> QED
    BY <2>1, RowsGrow
<1>6. n.ino = id => /\ Broken(f, id, new) \subseteq gone \cup b.bad
                   /\ \A line \in RowsOf(f, new) : Waiting(r, line.buy)
  BY DEF BatchOf, New
<1>7. first => n.at > c.at
  BY DEF BatchOf
<1> HIDE DEF g, new, ends
<1>8. n.ino = id => /\ Broken(g, id, New(g, id, from, c, n.at)) \subseteq gone \cup b.bad
                   /\ \A line \in RowsOf(g, New(g, id, from, c, n.at)) : Waiting(r, line.buy)
  BY <1>4, <1>5, <1>6
<1> QED
  BY <1>2, <1>7, <1>8 DEF BatchOf, New, g

\* The context after a batch knows the last copies of what was read up to its end.
LEMMA ContextReads ==
  ASSUME Rows!RowsAssumption, NEW f \in Seq(Rows!Block), Ordered(f), NEW from,
         NEW q \in Seq(SUBSET Rows!Item),
         NEW at \in Nat, NEW to \in Nat, at <= to,
         NEW before \in Seq(Rows!Line), ContextOf(f, from, q, at, before), QueueOf(f, q, at),
         NEW lines \in Seq(Rows!Line), NEW pos \in [1 .. Len(lines) -> Rows!Ends(f)],
         \A k \in 1 .. Len(lines) : at < pos[k] /\ pos[k] <= to /\ lines[k] = f[pos[k]].line,
         \A j, k \in 1 .. Len(lines) : j < k => pos[j] < pos[k],
         \A end \in Before(f, from, to) : end > at /\ Rows!Whole(f, end) =>
           \E k \in 1 .. Len(lines) : pos[k] = end
  PROVE  ContextOf(f, from, q, to, KeptLines(before \o lines))
<1> DEFINE kept == KeptLines(before \o lines)
<1>1. /\ kept \in Seq(Rows!Line)
      /\ \A i \in 1 .. Len(kept) :
              \/ \E k \in 1 .. Len(before) : kept[i] = before[k]
              \/ \E k \in 1 .. Len(lines) : kept[i] = lines[k]
  BY KeptTyped
<1>2. /\ DOMAIN kept = 1 .. Len(kept) /\ DOMAIN before = 1 .. Len(before)
      /\ Len(before) \in Nat /\ Len(lines) \in Nat
      /\ Rows!Ends(f) \subseteq 1 .. Len(f) /\ Len(f) \in Nat /\ DOMAIN f = 1 .. Len(f)
  BY <1>1, LengthOf, EndsOf
<1> HIDE DEF kept
<1>3. \A e \in Rows!Ends(f) : e <= at => e <= to
  BY <1>2
<1>4. ASSUME NEW i \in DOMAIN kept, kept[i].kind = "row"
      PROVE  \E end \in Rows!Ends(f) : end <= to /\ f[end].line = kept[i]
  <2>1. CASE \E k \in 1 .. Len(before) : kept[i] = before[k]
    <3>1. PICK k \in 1 .. Len(before) : kept[i] = before[k]
      BY <2>1
    <3>2. PICK end \in Rows!Ends(f) : end <= at /\ f[end].line = before[k]
      BY <1>2, <1>4, <3>1 DEF ContextOf
    <3> QED
      BY <1>3, <3>1, <3>2
  <2>2. CASE \E k \in 1 .. Len(lines) : kept[i] = lines[k]
    <3>1. PICK k \in 1 .. Len(lines) : kept[i] = lines[k]
      BY <2>2
    <3> QED
      BY <3>1
  <2> QED
    BY <1>1, <1>2, <2>1, <2>2
<1>5. ASSUME NEW b \in Buys, NEW ver \in 1 .. 2, IsLast(kept, b, ver)
      PROVE  /\ \A line \in RowsOf(f, Before(f, from, to)) : line.buy = b => line.ver <= ver
             /\ \A i \in DOMAIN q : \A r \in q[i] : r.buy = b => r.ver <= ver
  <2>1. IsLast(lines, b, ver) \/ (Rows!Copies(lines, b) = {} /\ IsLast(before, b, ver))
    BY <1>5, KeptLast DEF kept
  <2>2. CASE IsLast(lines, b, ver)
    <3>1. PICK i \in Rows!Copies(lines, b) : lines[i].ver = ver /\ \A k \in Rows!Copies(lines, b) :
                                               k <= i
      BY <2>2 DEF IsLast
    <3>2. i \in 1 .. Len(lines) /\ lines[i].kind = "row" /\ lines[i].buy = b
      BY CopiesOf
    <3>3. pos[i] \in Rows!Ends(f) /\ pos[i] \in DOMAIN f /\ at < pos[i] /\ f[pos[i]].line = lines[i]
          /\ pos[i] \in Nat
      <4>1. pos[i] \in Rows!Ends(f)
        BY <3>2
      <4>2. at < pos[i] /\ f[pos[i]].line = lines[i]
        BY <3>2
      <4> QED
        BY <1>2, <4>1, <4>2
    <3>4. \A e \in Rows!Ends(f) : e < pos[i] /\ f[e].line.kind = "row" /\ f[e].line.buy = b
            => f[e].line.ver <= ver
      BY <1>2, <3>1, <3>2, <3>3 DEF Ordered
    <3>5. ASSUME NEW e \in Before(f, from, to), Rows!Whole(f, e), f[e].line.kind = "row",
                 f[e].line.buy = b
          PROVE  f[e].line.ver <= ver
      <4>1. e \in Rows!Ends(f) /\ e \in Nat
        BY <1>2 DEF Before
      <4>2. CASE e > at
        <5>1. PICK k \in 1 .. Len(lines) : pos[k] = e
          BY <3>5, <4>2
        <5>2. lines[k] = f[e].line
          BY <5>1
        <5>3. k \in Rows!Copies(lines, b)
          BY <3>5, <5>2, CopiesOf
        <5>4. k <= i /\ k \in Nat /\ i \in Nat
          BY <1>2, <3>1, <3>2, <5>1, <5>3
        <5>5. k = i \/ k < i
          BY <5>4
        <5>6. CASE k = i
          <6>1. f[e].line.ver = ver /\ ver \in Nat
            BY <3>1, <5>2, <5>6
          <6> QED
            BY <6>1
        <5>7. CASE k < i
          <6>1. e < pos[i]
            BY <3>2, <5>1, <5>7
          <6> QED
            BY <3>4, <3>5, <4>1, <6>1
        <5> QED
          BY <5>5, <5>6, <5>7
      <4>3. CASE ~ (e > at)
        <5>1. e < pos[i]
          BY <3>3, <4>1, <4>3
        <5> QED
          BY <3>4, <3>5, <4>1, <5>1
      <4> QED
        BY <4>2, <4>3
    <3>6. \A line \in RowsOf(f, Before(f, from, to)) : line.buy = b => line.ver <= ver
      BY <3>5 DEF RowsOf
    <3>7. ASSUME NEW j \in DOMAIN q, NEW r \in q[j], r.buy = b
          PROVE  r.ver <= ver
      <4>1. PICK e \in Rows!Ends(f) :
              e <= at /\ f[e].line = [kind |-> "row", buy |-> r.buy, ver |-> r.ver]
        BY DEF QueueOf, Stem
      <4>2. e < pos[i]
        BY <1>2, <3>3, <4>1
      <4>3. f[e].line.kind = "row" /\ f[e].line.buy = b /\ f[e].line.ver = r.ver
        BY <3>7, <4>1
      <4> QED
        BY <3>4, <4>2, <4>3
    <3> QED
      BY <3>6, <3>7
  <2>3. CASE Rows!Copies(lines, b) = {} /\ IsLast(before, b, ver)
    <3>1. /\ \A line \in RowsOf(f, Before(f, from, at)) : line.buy = b => line.ver <= ver
          /\ \A i \in DOMAIN q : \A r \in q[i] : r.buy = b => r.ver <= ver
      BY <2>3 DEF ContextOf
    <3>2. ASSUME NEW e \in Before(f, from, to), Rows!Whole(f, e), f[e].line.kind = "row",
                 f[e].line.buy = b
          PROVE  f[e].line \in RowsOf(f, Before(f, from, at))
      <4>1. e \in Rows!Ends(f) /\ e \in Nat /\ Rows!Begin(f, e) >= from
        BY <1>2 DEF Before
      <4>2. ~ (e > at)
        <5> SUFFICES ASSUME e > at PROVE FALSE
          OBVIOUS
        <5>1. PICK k \in 1 .. Len(lines) : pos[k] = e
          BY <3>2
        <5>2. lines[k] = f[e].line
          BY <5>1
        <5>3. k \in Rows!Copies(lines, b)
          BY <3>2, <5>2, CopiesOf
        <5> QED
          BY <2>3, <5>3
      <4>3. e \in Before(f, from, at)
        BY <4>1, <4>2 DEF Before
      <4> QED
        BY <3>2, <4>3 DEF RowsOf
    <3>3. \A line \in RowsOf(f, Before(f, from, to)) : line.buy = b => line.ver <= ver
      <4> TAKE line \in RowsOf(f, Before(f, from, to))
      <4> HAVE line.buy = b
      <4>1. PICK e \in Before(f, from, to) : Rows!Whole(f, e) /\ f[e].line.kind = "row"
                                               /\ line = f[e].line
        BY DEF RowsOf
      <4>2. line \in RowsOf(f, Before(f, from, at))
        BY <3>2, <4>1
      <4> QED
        BY <3>1, <4>2
    <3> QED
      BY <3>1, <3>3
  <2> QED
    BY <2>1, <2>2, <2>3
<1> QED
  BY <1>4, <1>5 DEF ContextOf, kept

LEMMA InsertedRows ==
  ASSUME Rows!TypeOK, NEW items \in SUBSET Rows!Item
  PROVE  /\ Rows!Inserted(items) \in [Buys -> Row]
         /\ \A b \in Buys : table[b].ver > 0 => Rows!Inserted(items)[b] = table[b]
         /\ \A b \in Buys : Waiting(items, b) => Rows!Inserted(items)[b].ver > 0
<1>1. table \in [Buys -> Row]
  BY DEF Rows!TypeOK, Row
<1> DEFINE first(b) == CHOOSE r \in items : r.buy = b
<1>2. ASSUME NEW b \in Buys, \E r \in items : r.buy = b
      PROVE  first(b).ver \in 1 .. 2
  <2>1. first(b) \in items
    BY <1>2
  <2> HIDE DEF first
  <2> QED
    BY <2>1 DEF Rows!Item
<1>3. ASSUME NEW b \in Buys
      PROVE  Rows!Inserted(items)[b] = IF table[b].ver = 0 /\ \E r \in items : r.buy = b
                                  THEN [ver |-> first(b).ver, chain |-> "none"] ELSE table[b]
  BY DEF Rows!Inserted
<1>4. Rows!Inserted(items) = [b \in Buys |-> Rows!Inserted(items)[b]]
  BY DEF Rows!Inserted
<1> HIDE DEF first
<1>5. \A b \in Buys : Rows!Inserted(items)[b] \in Row
  <2> TAKE b \in Buys
  <2>1. table[b] \in Row
    BY <1>1
  <2>2. CASE table[b].ver = 0 /\ \E r \in items : r.buy = b
    <3>1. first(b).ver \in 0 .. 2
      BY <1>2, <2>2
    <3>2. [ver |-> first(b).ver, chain |-> "none"] \in Row
      BY <3>1 DEF Row
    <3> QED
      BY <1>3, <2>2, <3>2
  <2>3. CASE ~ (table[b].ver = 0 /\ \E r \in items : r.buy = b)
    BY <1>3, <2>1, <2>3
  <2> QED
    BY <2>2, <2>3
<1>6. ASSUME NEW b \in Buys, table[b].ver > 0 PROVE Rows!Inserted(items)[b] = table[b]
  <2>1. table[b].ver # 0
    BY <1>6
  <2> QED
    BY <1>3, <2>1
<1>7. ASSUME NEW b \in Buys, Waiting(items, b) PROVE Rows!Inserted(items)[b].ver > 0
  <2>1. \E r \in items : r.buy = b
    BY <1>7 DEF Waiting
  <2>2. CASE table[b].ver = 0
    <3>1. Rows!Inserted(items)[b] = [ver |-> first(b).ver, chain |-> "none"]
      BY <1>3, <2>1, <2>2
    <3>2. first(b).ver \in 1 .. 2 /\ Rows!Inserted(items)[b].ver = first(b).ver
      BY <1>2, <2>1, <3>1
    <3> QED
      BY <3>2
  <2>3. CASE table[b].ver # 0
    <3>1. table[b] \in Row
      BY <1>1
    <3>2. table[b].ver \in 0 .. 2
      BY <3>1 DEF Row
    <3>3. table[b].ver > 0
      BY <2>3, <3>2
    <3>4. Rows!Inserted(items)[b] = table[b]
      BY <1>6, <3>3
    <3> QED
      BY <3>3, <3>4
  <2> QED
    BY <2>2, <2>3
<1> QED
  BY <1>4, <1>5, <1>6, <1>7

LEMMA EnrichedRows ==
  ASSUME Rows!RowsAssumption, Rows!TypeOK, NEW items \in SUBSET Rows!Item, NEW heard
  PROVE  /\ Rows!Enriched(items, heard) \in [Buys -> Row]
         /\ \A b \in Buys :
              IF Waiting(items, b)
              THEN /\ Rows!Enriched(items, heard)[b].ver > 0
                      /\ Rows!Enriched(items, heard)[b].chain # "none"
                   /\ \E r \in items : r.buy = b /\ Rows!Enriched(items, heard)[b].ver = r.ver
              ELSE Rows!Enriched(items, heard)[b] = table[b]
<1>1. table \in [Buys -> Row] /\ End \in [Buys -> {"landed", "failed"}]
  BY DEF Rows!TypeOK, Row, Rows!RowsAssumption
<1> DEFINE first(b) == CHOOSE r \in items : r.buy = b
           new(b) == [ver |-> first(b).ver, chain |-> Rows!ChainReport(first(b), heard)]
<1>2. ASSUME NEW b \in Buys, \E r \in items : r.buy = b
      PROVE  first(b) \in items /\ first(b).buy = b /\ first(b).ver \in 1 .. 2
  <2>1. first(b) \in items /\ first(b).buy = b
    BY <1>2
  <2> HIDE DEF first
  <2> QED
    BY <2>1 DEF Rows!Item
<1>3. ASSUME NEW b \in Buys
      PROVE  Rows!Enriched(items, heard)[b] = IF \E r \in items : r.buy = b THEN new(b)
               ELSE table[b]
  BY DEF Rows!Enriched
<1>4. Rows!Enriched(items, heard) = [b \in Buys |-> Rows!Enriched(items, heard)[b]]
  BY DEF Rows!Enriched
<1> HIDE DEF first
<1>5. ASSUME NEW b \in Buys, \E r \in items : r.buy = b
      PROVE  Rows!ChainReport(first(b), heard) \in {"submitted", "landed", "failed"}
  BY <1>1, <1>2, <1>5 DEF Rows!ChainReport, Rows!BuyStatus
<1>6. ASSUME NEW b \in Buys, \E r \in items : r.buy = b
      PROVE  /\ new(b) \in Row /\ new(b).ver > 0 /\ new(b).chain # "none"
             /\ \E r \in items : r.buy = b /\ new(b).ver = r.ver
  <2>1. first(b).ver \in 0 .. 2 /\ first(b).ver > 0
    BY <1>2, <1>6
  <2>2. Rows!ChainReport(first(b), heard) \in {"submitted", "landed", "failed"}
    BY <1>5, <1>6
  <2>3. new(b).ver = first(b).ver /\ new(b).chain = Rows!ChainReport(first(b), heard)
    OBVIOUS
  <2>4. new(b) \in Row
    BY <2>1, <2>2 DEF Row
  <2> HIDE DEF new
  <2> QED
    BY <1>2, <1>6, <2>1, <2>2, <2>3, <2>4
<1> HIDE DEF new
<1>7. \A b \in Buys : Rows!Enriched(items, heard)[b] \in Row
  BY <1>1, <1>3, <1>6
<1>8. \A b \in Buys :
              IF Waiting(items, b)
              THEN /\ Rows!Enriched(items, heard)[b].ver > 0
                      /\ Rows!Enriched(items, heard)[b].chain # "none"
                   /\ \E r \in items : r.buy = b /\ Rows!Enriched(items, heard)[b].ver = r.ver
              ELSE Rows!Enriched(items, heard)[b] = table[b]
  BY <1>3, <1>6 DEF Waiting
<1> QED
  BY <1>4, <1>7, <1>8

-----------------------------------------------------------------------------
(* The worker *)

LEMMA FileGrows ==
  ASSUME Rows!RowsAssumption, RowsInv, Rows!TypeOK', WriterInv', NEW more \in Seq(Rows!Block),
         file' = file \o more,
         UNCHANGED <<ino, Rows!settings, Rows!sidecar, Rows!store>>
  PROVE  RowsInv'
<1>1. /\ Rows!TypeOK /\ ShapeInv /\ SavedInv
      /\ cursor # Null => CursorInv(cursor) /\ BatchInv /\ QueueInv
      /\ saving # Null => SavingInv
      /\ file \in Seq(Rows!Block) /\ ino \in Nat
      /\ Versioned \in BOOLEAN /\ (Versioned => ino = 1)
  BY DEF RowsInv, Rows!TypeOK, Versioned
<1>2. /\ ino' = ino /\ rest' = rest /\ chunk' = chunk /\ saved' = saved /\ origin' = origin
      /\ cursor' = cursor /\ saving' = saving /\ seen' = seen /\ batch' = batch
      /\ rows' = rows /\ pc' = pc /\ queue' = queue /\ table' = table /\ dead' = dead
      /\ Versioned' = Versioned /\ At' = At
  BY DEF Rows!settings, Rows!sidecar, Rows!loop, Rows!store, Versioned, At
<1>3. cursor # Null \/ saved # Null \/ saving # Null => origin \in Nat
  BY <1>1 DEF ShapeInv, Rows!TypeOK
<1>4. ASSUME NEW c \in Rows!Cursor, CursorInv(c), origin \in Nat
      PROVE  CursorOf(file', ino, origin, dead, table, queue, Versioned, c)
  <2>1. CursorOf(file, ino, origin, dead, table, queue, Versioned, c)
    BY <1>4 DEF CursorInv
  <2>2. CursorOf(file \o more, ino, origin, dead, table, queue, Versioned, c)
    BY <1>1, <1>4, <2>1, CursorGrows
  <2> QED
    BY <2>2
<1>5. ShapeInv'
  BY <1>1, <1>2 DEF ShapeInv
<1>6. SavedInv'
  <2> SUFFICES ASSUME saved # Null PROVE CursorInv(saved)'
                      /\ (cursor # Null /\ saved.ino = ino => cursor.ino = ino)
    BY <1>2 DEF SavedInv
  <2>1. saved \in Rows!Cursor /\ CursorInv(saved)
          /\ (cursor # Null /\ saved.ino = ino => cursor.ino = ino)
    BY <1>1 DEF SavedInv, Rows!TypeOK
  <2> QED
    BY <1>2, <1>3, <1>4, <2>1 DEF CursorInv
<1>7. ASSUME cursor # Null
      PROVE  CursorInv(cursor)' /\ BatchInv' /\ QueueInv'
  <2>1. cursor \in Rows!Cursor /\ CursorInv(cursor) /\ BatchInv /\ QueueInv /\ origin \in Nat
        /\ (batch.cursor # Null => batch.cursor \in Rows!Cursor)
    BY <1>1, <1>3, <1>7 DEF Rows!TypeOK, Rows!Batch
  <2>2. CursorInv(cursor)'
    BY <1>2, <1>4, <2>1 DEF CursorInv
  <2>3. batch.cursor # Null =>
          BatchOf(file', ino, origin, dead, Versioned, cursor, batch, rows)
    <3> HAVE batch.cursor # Null
    <3>1. BatchOf(file, ino, origin, dead, Versioned, cursor, batch, rows)
      BY <2>1 DEF BatchInv
    <3>2. BatchOf(file \o more, ino, origin, dead, Versioned, cursor, batch, rows)
      BY <1>1, <2>1, <3>1, BatchGrows
    <3> QED
      BY <3>2
  <2>4. BatchInv'
    BY <1>2, <2>1, <2>3 DEF BatchInv
  <2>5. Versioned => /\ ContextOf(file', origin, queue, At, seen)
                     /\ QueueOf(file', queue, cursor.at)
    <3> HAVE Versioned
    <3>1. /\ ContextOf(file, origin, queue, At, seen)
          /\ QueueOf(file, queue, cursor.at)
      BY <2>1 DEF QueueInv
    <3>2. At \in Nat /\ At <= Len(file)
      <4>1. ino = 1
        BY <1>1
      <4>2. CASE batch.cursor = Null
        <5>1. Placed(file, ino, origin, cursor, dead)
          BY <2>1 DEF CursorInv, CursorOf
        <5> QED
          BY <2>1, <4>1, <4>2, <5>1 DEF At, Placed, Rows!Cursor
      <4>3. CASE batch.cursor # Null
        <5>1. Placed(file, ino, origin, batch.cursor, dead \cup batch.bad)
          BY <2>1, <4>3 DEF BatchInv, BatchOf
        <5> QED
          BY <2>1, <4>1, <4>3, <5>1 DEF At, Placed, Rows!Cursor
      <4> QED
        BY <4>2, <4>3
    <3>3. ContextOf(file \o more, origin, queue, At, seen)
      BY <1>1, <2>1, <3>1, <3>2, ContextGrows
    <3>4. QueueOf(file \o more, queue, cursor.at)
      BY <1>1, <3>1, QueueGrows
    <3> QED
      BY <3>3, <3>4
  <2>6. QueueInv'
    BY <1>2, <2>5 DEF QueueInv
  <2> QED
    BY <2>2, <2>4, <2>6
<1>8. ASSUME saving # Null PROVE SavingInv'
  <2>1. saving.cursor \in Rows!Cursor /\ SavingInv /\ CursorInv(saving.cursor)
    BY <1>1, <1>8 DEF Rows!TypeOK, Rows!Saving, SavingInv
  <2>2. CursorInv(saving.cursor)'
    BY <1>2, <1>3, <1>4, <1>8, <2>1 DEF CursorInv
  <2> QED
    BY <1>2, <2>1, <2>2 DEF SavingInv
<1> QED
  BY <1>2, <1>5, <1>6, <1>7, <1>8 DEF RowsInv

LEMMA OrderGrows ==
  ASSUME NEW f \in Seq(Rows!Block), Ordered(f), NEW lines, \A i \in DOMAIN f : f[i].line \in lines,
         NEW line \in Rows!Line, NEW more \in Seq(Rows!Block), \A i \in 1 .. Len(more) :
         more[i].line = line,
         line.kind = "row" /\ line.ver = 1 =>
           [kind |-> "row", buy |-> line.buy, ver |-> 2] \notin lines
  PROVE  /\ Ordered(f \o more)
         /\ \A i \in DOMAIN (f \o more) : (f \o more)[i].line \in lines \cup {line}
<1> DEFINE g == f \o more
<1>1. /\ g \in Seq(Rows!Block) /\ Len(g) = Len(f) + Len(more) /\ Len(f) \in Nat /\ Len(more) \in Nat
      /\ \A i \in 1 .. Len(f) : g[i] = f[i]
      /\ \A i \in 1 .. Len(more) : g[Len(f) + i] = more[i]
      /\ DOMAIN g = 1 .. Len(g) /\ DOMAIN f = 1 .. Len(f)
  BY LengthOf
<1> HIDE DEF g
<1>2. ASSUME NEW i \in DOMAIN g
      PROVE  IF i <= Len(f) THEN i \in DOMAIN f /\ g[i] = f[i] ELSE g[i].line = line
  <2>1. CASE i <= Len(f)
    BY <1>1, <2>1
  <2>2. CASE ~ (i <= Len(f))
    <3>1. i - Len(f) \in 1 .. Len(more) /\ Len(f) + (i - Len(f)) = i
      BY <1>1, <2>2
    <3> QED
      BY <1>1, <2>2, <3>1
  <2> QED
    BY <2>1, <2>2
<1>3. \A i \in DOMAIN g : g[i].line \in lines \cup {line}
  BY <1>2
<1>4. \A i \in DOMAIN g : g[i].line \in Rows!Line
  BY <1>1, ItemOf, BlockLine
<1>5. ASSUME NEW i \in DOMAIN g, NEW j \in DOMAIN g, i < j, g[i].line.kind = "row",
             g[j].line.kind = "row", g[i].line.buy = g[j].line.buy
      PROVE  g[i].line.ver <= g[j].line.ver
  <2>1. i \in Nat /\ j \in Nat /\ g[i].line.ver \in 1 .. 2 /\ g[j].line.ver \in 1 .. 2
    BY <1>1, <1>4, LineOf
  <2>2. CASE j <= Len(f)
    <3>1. i <= Len(f)
      BY <1>1, <1>5, <2>1, <2>2
    <3> QED
      BY <1>2, <1>5, <2>2, <3>1 DEF Ordered
  <2>3. CASE ~ (j <= Len(f))
    <3>1. g[j].line = line
      BY <1>2, <2>3
    <3>2. CASE i <= Len(f)
      <4>1. g[i].line \in lines
        BY <1>2, <3>2
      <4>2. SUFFICES ASSUME line.ver = 1, g[i].line.ver = 2 PROVE FALSE
        BY <2>1, <3>1
      <4>3. g[i].line = [kind |-> "row", buy |-> line.buy, ver |-> 2]
        BY <1>4, <1>5, <3>1, <4>2, LineOf
      <4> QED
        BY <1>5, <3>1, <4>1, <4>2, <4>3
    <3>3. CASE ~ (i <= Len(f))
      <4>1. g[i].line = line
        BY <1>2, <3>3
      <4> QED
        BY <2>1, <3>1, <4>1
    <3> QED
      BY <3>2, <3>3
  <2> QED
    BY <2>2, <2>3
<1>6. Ordered(g)
  BY <1>5 DEF Ordered
<1> QED
  BY <1>3, <1>6 DEF g

LEMMA BlockOf ==
  ASSUME NEW line \in Rows!Line
  PROVE  /\ [line |-> line, half |-> 1] \in Rows!Block /\ [line |-> line, half |-> 2] \in Rows!Block
         /\ [line |-> line, half |-> 1].line = line /\ [line |-> line, half |-> 2].line = line
BY DEF Rows!Block

\* One or two blocks at the end of the file.
LEMMA Blocks ==
  ASSUME NEW f \in Seq(Rows!Block), NEW x \in Rows!Block, NEW y \in Rows!Block
  PROVE  /\ <<>> \in Seq(Rows!Block) /\ f = f \o <<>> /\ Len(<<>>) = 0
         /\ <<x>> \in Seq(Rows!Block) /\ Append(f, x) = f \o <<x>> /\ Len(<<x>>) = 1 /\ <<x>>[1] = x
         /\ <<x, y>> \in Seq(Rows!Block) /\ Len(<<x, y>>) = 2 /\ <<x, y>>[1] = x /\ <<x, y>>[2] = y
OBVIOUS

LEMMA RowVersions ==
  ASSUME NEW b, NEW c, NEW v, NEW w,
         [kind |-> "row", buy |-> b, ver |-> v] = [kind |-> "row", buy |-> c, ver |-> w]
  PROVE  b = c /\ v = w
<1>1. [kind |-> "row", buy |-> b, ver |-> v].buy = b
        /\ [kind |-> "row", buy |-> b, ver |-> v].ver = v
  OBVIOUS
<1>2. [kind |-> "row", buy |-> c, ver |-> w].buy = c
        /\ [kind |-> "row", buy |-> c, ver |-> w].ver = w
  OBVIOUS
<1> QED
  BY <1>1, <1>2

LEMMA DecideKeeps ==
  ASSUME Rows!RowsAssumption, RowsInv, NEW b \in Buys, Rows!Decide(b)
  PROVE  RowsInv'
<1>1. Rows!TypeOK /\ WriterInv
  BY DEF RowsInv
<1>2. /\ decided' = decided \cup {b}
      /\ UNCHANGED <<done, writing, file, ino, Rows!settings, Rows!sidecar, Rows!store>>
  BY DEF Rows!Decide
<1>3. Rows!TypeOK'
  BY <1>1, <1>2 DEF Rows!TypeOK, Rows!settings, Rows!sidecar, Rows!loop, Rows!store
<1>4. WriterInv'
  BY <1>1, <1>2 DEF WriterInv
<1>5. <<>> \in Seq(Rows!Block) /\ file' = file \o <<>>
  BY <1>1, <1>2 DEF Rows!TypeOK
<1> QED
  BY <1>2, <1>3, <1>4, <1>5, FileGrows

LEMMA WorkerDiesKeeps ==
  ASSUME Rows!RowsAssumption, RowsInv, Rows!WorkerDies
  PROVE  RowsInv'
<1>1. Rows!TypeOK /\ WriterInv
  BY DEF RowsInv
<1>2. writing' = Null /\ UNCHANGED <<decided, done, file, ino, Rows!settings, Rows!sidecar,
                                     Rows!store>>
  BY DEF Rows!WorkerDies
<1>3. Rows!TypeOK'
  BY <1>1, <1>2 DEF Rows!TypeOK, Rows!settings, Rows!sidecar, Rows!loop, Rows!store
<1>4. \A b, v : Null # [kind |-> "row", buy |-> b, ver |-> v] \/ b \notin Buys \/ v \notin 1 .. 2
  BY DEF Rows!RowsAssumption, Rows!Line
<1>5. WriterInv'
  BY <1>1, <1>2, <1>4 DEF WriterInv
<1>6. <<>> \in Seq(Rows!Block) /\ file' = file \o <<>>
  BY <1>1, <1>2 DEF Rows!TypeOK
<1> QED
  BY <1>2, <1>3, <1>5, <1>6, FileGrows

LEMMA FlushKeeps ==
  ASSUME Rows!RowsAssumption, RowsInv, Rows!Flush
  PROVE  RowsInv'
<1> DEFINE x == [line |-> writing, half |-> 2]
<1>1. Rows!TypeOK /\ WriterInv
  BY DEF RowsInv
<1>2. /\ writing # Null /\ writing' = Null /\ file' = Append(file, x)
      /\ UNCHANGED <<decided, done, ino, Rows!settings, Rows!sidecar, Rows!store>>
  BY DEF Rows!Flush
<1>3. writing \in Rows!Line /\ file \in Seq(Rows!Block) /\ done \subseteq Rows!Line
  BY <1>1, <1>2 DEF Rows!TypeOK
<1>4. x \in Rows!Block /\ x.line = writing
  BY <1>3, BlockOf
<1> HIDE DEF x
<1>5. /\ <<x>> \in Seq(Rows!Block) /\ file' = file \o <<x>>
      /\ \A i \in 1 .. Len(<<x>>) : <<x>>[i].line = writing
  BY <1>2, <1>3, <1>4
<1>6. Rows!TypeOK'
  <2>1. file' \in Seq(Rows!Block)
    BY <1>3, <1>5
  <2> QED
    BY <1>1, <1>2, <2>1 DEF Rows!TypeOK, Rows!settings, Rows!sidecar, Rows!loop, Rows!store
<1>7. WriterInv'
  <2>1. writing.kind = "row" /\ writing.ver = 1 =>
          [kind |-> "row", buy |-> writing.buy, ver |-> 2] \notin done
    <3> HAVE writing.kind = "row" /\ writing.ver = 1
    <3>1. writing = [kind |-> "row", buy |-> writing.buy, ver |-> 1] /\ writing.buy \in Buys
      BY <1>3, LineOf
    <3> QED
      BY <1>1, <3>1 DEF WriterInv
  <2>2. /\ Ordered(file') /\ \A i \in DOMAIN file' : file'[i].line \in done \cup {writing}
    BY <1>1, <1>3, <1>5, <2>1, OrderGrows DEF WriterInv
  <2>3. done \cup {writing} = done
    BY <1>1, <1>2 DEF WriterInv
  <2>4. \A b, v : Null # [kind |-> "row", buy |-> b, ver |-> v] \/ b \notin Buys \/ v \notin 1 .. 2
    BY DEF Rows!RowsAssumption, Rows!Line
  <2> QED
    BY <1>1, <1>2, <2>2, <2>3, <2>4 DEF WriterInv
<1> QED
  BY <1>2, <1>5, <1>6, <1>7, FileGrows

LEMMA ProduceKeeps ==
  ASSUME Rows!RowsAssumption, RowsInv, NEW line \in Rows!Line, Rows!Produce(line)
  PROVE  RowsInv'
<1> DEFINE x == [line |-> line, half |-> 1]
           y == [line |-> line, half |-> 2]
           firstOf(b) == [kind |-> "row", buy |-> b, ver |-> 1]
           second(b) == [kind |-> "row", buy |-> b, ver |-> 2]
<1>1. Rows!TypeOK /\ WriterInv
  BY DEF RowsInv
<1>2. /\ writing = Null /\ line \notin done
      /\ line # firstOf(line.buy) => firstOf(line.buy) \in done
      /\ done' = done \cup {line}
      /\ \/ writing' = line /\ file' = Append(file, x)
         \/ file' = file \o <<x, y>> /\ writing' = writing
         \/ file' = file /\ writing' = writing
      /\ UNCHANGED <<decided, ino, Rows!settings, Rows!sidecar, Rows!store>>
  BY DEF Rows!Produce
<1>3. file \in Seq(Rows!Block) /\ done \subseteq Rows!Line /\ line.buy \in Buys
  BY <1>1, LineOf DEF Rows!TypeOK
<1>4. x \in Rows!Block /\ y \in Rows!Block /\ x.line = line /\ y.line = line
  BY BlockOf
<1>5. \A b \in Buys : second(b) \in done => firstOf(b) \in done
  BY <1>1 DEF WriterInv
<1>6. \A b \in Buys : second(b) \in done' => firstOf(b) \in done' /\ (line # firstOf(b))
  <2> TAKE b \in Buys
  <2> HAVE second(b) \in done'
  <2>1. CASE second(b) \in done
    BY <1>2, <1>5, <2>1
  <2>2. CASE second(b) = line
    <3>1. line.buy = b /\ line # firstOf(b)
      BY <2>2, RowVersions
    <3> QED
      BY <1>2, <3>1
  <2> QED
    BY <1>2, <2>1, <2>2
<1>7. line.kind = "row" /\ line.ver = 1 => second(line.buy) \notin done
  <2> HAVE line.kind = "row" /\ line.ver = 1
  <2>1. line = firstOf(line.buy)
    BY LineOf
  <2> QED
    BY <1>2, <1>3, <1>5, <2>1
<1> HIDE DEF x, y
<1>8. PICK more \in {<<>>, <<x>>, <<x, y>>} : file' = file \o more
  BY <1>2, <1>3, <1>4, Blocks
<1>9. more \in Seq(Rows!Block) /\ \A i \in 1 .. Len(more) : more[i].line = line
  <2>1. CASE more = <<>>
    BY <2>1
  <2>2. CASE more = <<x>>
    BY <1>4, <2>2
  <2>3. CASE more = <<x, y>>
    BY <1>4, <2>3
  <2> QED
    BY <2>1, <2>2, <2>3
<1>10. writing' \in {Null, line}
  BY <1>2
<1>11. Rows!TypeOK'
  <2>1. file' \in Seq(Rows!Block)
    BY <1>3, <1>8, <1>9
  <2> QED
    BY <1>1, <1>2, <1>10, <2>1 DEF Rows!TypeOK, Rows!settings, Rows!sidecar, Rows!loop, Rows!store
<1>12. WriterInv'
  <2>1. \A i \in DOMAIN file : file[i].line \in done /\ Ordered(file)
    BY <1>1 DEF WriterInv
  <2>2. Ordered(file)
    BY <1>1 DEF WriterInv
  <2>3. /\ Ordered(file') /\ \A i \in DOMAIN file' : file'[i].line \in done \cup {line}
    BY <1>3, <1>7, <1>8, <1>9, <2>1, <2>2, OrderGrows
  <2>4. \A b \in Buys : Null # firstOf(b)
    BY DEF Rows!RowsAssumption, Rows!Line
  <2> QED
    BY <1>2, <1>6, <1>10, <2>3, <2>4 DEF WriterInv
<1> QED
  BY <1>2, <1>8, <1>9, <1>11, <1>12, FileGrows

\* A cursor of an earlier file has nothing to answer for.
LEMMA CursorElsewhere ==
  ASSUME NEW c, NEW id \in Nat, c.ino \in 1 .. id, NEW more \in Nat, more > id,
         NEW f, NEW from, NEW gone, NEW t, NEW q
  PROVE  CursorOf(f, more, from, gone, t, q, FALSE, c)
<1>1. c.ino # more /\ c.ino \in 1 .. more
  OBVIOUS
<1> QED
  BY <1>1 DEF CursorOf, Placed

LEMMA RotateKeeps ==
  ASSUME Rows!RowsAssumption, RowsInv, Rows!Rotate
  PROVE  RowsInv'
<1>1. /\ Rows!TypeOK /\ WriterInv /\ ShapeInv /\ SavedInv
      /\ cursor # Null => CursorInv(cursor) /\ BatchInv /\ QueueInv
      /\ saving # Null => SavingInv
      /\ ino \in Nat /\ ino > 0
  BY DEF RowsInv, Rows!TypeOK, ShapeInv
<1>2. /\ file' = <<>> /\ ino' = ino + 1 /\ decided' = decided /\ done' = done /\ writing' = writing
      /\ rest' = rest /\ chunk' = chunk /\ saved' = saved /\ origin' = origin
      /\ cursor' = cursor /\ saving' = saving /\ seen' = seen /\ batch' = batch
      /\ rows' = rows /\ pc' = pc /\ queue' = queue /\ cached' = cached
      /\ table' = table /\ dead' = dead /\ writing = Null
  BY DEF Rows!Rotate, Rows!settings, Rows!sidecar, Rows!loop, Rows!store
<1>3. ~ Versioned' /\ Versioned' = FALSE
  BY <1>1, <1>2 DEF Versioned
<1>4. <<>> \in Seq(Rows!Block) /\ DOMAIN <<>> = {} /\ ino + 1 \in Nat /\ ino + 1 > ino
  BY <1>1
<1>5. Rows!TypeOK'
  BY <1>1, <1>2, <1>4 DEF Rows!TypeOK
<1>6. WriterInv'
  BY <1>1, <1>2, <1>4 DEF WriterInv, Ordered
<1>7. ShapeInv'
  BY <1>1, <1>2 DEF ShapeInv
<1>8. ASSUME NEW c, c.ino \in 1 .. ino
      PROVE  CursorOf(file', ino', origin', dead', table', queue', Versioned', c)
  BY <1>1, <1>2, <1>3, <1>4, <1>8, CursorElsewhere
<1>9. \A c : CursorInv(c) => c.ino \in 1 .. ino
  BY DEF CursorInv, CursorOf, Placed
<1>10. SavedInv'
  <2> SUFFICES ASSUME saved # Null PROVE CursorInv(saved)' /\ saved.ino # ino'
    BY <1>2 DEF SavedInv
  <2>1. saved.ino \in 1 .. ino
    BY <1>1, <1>9 DEF SavedInv
  <2>2. CursorInv(saved)'
    BY <1>2, <1>8, <2>1 DEF CursorInv
  <2> QED
    BY <1>1, <1>2, <2>1, <2>2
<1>11. ASSUME cursor # Null PROVE CursorInv(cursor)' /\ BatchInv' /\ QueueInv'
  <2>1. CursorInv(cursor) /\ BatchInv
    BY <1>1, <1>11
  <2>2. CursorInv(cursor)'
    BY <1>2, <1>8, <1>9, <2>1 DEF CursorInv
  <2>3. batch.cursor # Null => BatchOf(file', ino', origin', dead', Versioned', cursor', batch',
                                       rows')
    <3> HAVE batch.cursor # Null
    <3>1. batch.cursor.ino \in 1 .. ino
      BY <2>1 DEF BatchInv, BatchOf, Placed
    <3>2. batch.cursor.ino \in 1 .. ino' /\ batch.cursor.ino # ino'
      BY <1>1, <1>2, <3>1
    <3> QED
      BY <1>2, <1>3, <3>2 DEF BatchOf, Placed
  <2>4. BatchInv'
    BY <1>2, <2>1, <2>3 DEF BatchInv
  <2> QED
    BY <1>3, <2>2, <2>4 DEF QueueInv
<1>12. ASSUME saving # Null PROVE SavingInv'
  <2>1. SavingInv /\ CursorInv(saving.cursor)
    BY <1>1, <1>12 DEF SavingInv
  <2>2. CursorInv(saving.cursor)'
    BY <1>2, <1>8, <1>9, <2>1 DEF CursorInv
  <2> QED
    BY <1>2, <2>1, <2>2 DEF SavingInv
<1> QED
  BY <1>2, <1>5, <1>6, <1>7, <1>10, <1>11, <1>12 DEF RowsInv

LEMMA RecentStartIs ==
  ASSUME Rows!RowsAssumption, Rows!TypeOK
  PROVE  Rows!RecentStart \in Nat /\ Rows!RecentStart <= Len(file)
<1> DEFINE starts == {i \in Rows!Ends(file) : Rows!Whole(file, i) /\ file[i].line.kind = "row"}
           last == {i \in starts : Rows!Cardinality({j \in starts : j >= i}) <= Recent}
<1>1. Rows!RecentStart = IF last = {} THEN Len(file) ELSE Rows!Min(last) - 2
  BY DEF Rows!RecentStart
<1>2. file \in Seq(Rows!Block) /\ Len(file) \in Nat /\ Rows!Ends(file) \subseteq 1 .. Len(file)
  BY EndsOf DEF Rows!TypeOK
<1>3. last \in SUBSET Nat
  BY <1>2
<1>4. \A i \in last : i \in Rows!Ends(file) /\ Rows!Whole(file, i)
  OBVIOUS
<1> HIDE DEF last
<1>5. CASE last # {}
  <2>1. Rows!Min(last) \in last
    BY <1>3, <1>5, Lowest
  <2>2. PICK m \in last : m = Rows!Min(last)
    BY <2>1
  <2>3. m \in 1 .. Len(file) /\ m \in Nat \ {0} /\ m - Rows!Begin(file, m) = 2
    BY <1>2, <1>4 DEF Rows!Whole
  <2>4. Rows!Begin(file, m) \in Nat
    BY <1>2, <2>3, BeginOf
  <2>5. m - 2 \in Nat /\ m - 2 <= Len(file)
    BY <1>2, <2>3, <2>4
  <2> QED
    BY <1>1, <1>5, <2>2, <2>5
<1> QED
  BY <1>1, <1>2, <1>5

\* A cursor at the beginning of a file, or where the first one was placed, has passed nothing.
LEMMA CursorBegins ==
  ASSUME NEW f \in Seq(Rows!Block), NEW id \in Nat \ {0}, NEW from \in Nat, NEW gone, NEW t, NEW q,
         NEW first, NEW c \in Rows!Cursor, c.ino = id, c.at <= from, c.at <= Len(f), ~ c.skip,
         c.anchor = Null,
         c.at = 0 \/ c.at = from,
         first => c.pending = {}
  PROVE  CursorOf(f, id, from, gone, t, q, first, c)
<1>1. c.at \in Nat /\ Rows!Ends(f) \subseteq 1 .. Len(f)
  BY EndsOf DEF Rows!Cursor
<1>2. Before(f, from, c.at) = {}
  <2> SUFFICES ASSUME NEW e \in Before(f, from, c.at) PROVE FALSE
    OBVIOUS
  <2>1. e \in Rows!Ends(f) /\ e <= c.at /\ Rows!Begin(f, e) >= from
    BY DEF Before
  <2>2. e \in Nat \ {0}
    BY <1>1, <2>1
  <2>3. Rows!Begin(f, e) \in Nat /\ Rows!Begin(f, e) < e
    BY <2>2, BeginOf
  <2> QED
    BY <1>1, <2>1, <2>2, <2>3
<1>3. RowsOf(f, {}) = {} /\ Broken(f, id, {}) = {}
  BY DEF RowsOf, Broken
<1>4. Edge(f, c.at) = c.at \/ Edge(f, c.at) < from
  <2>1. c.at + 1 \in Nat \ {0}
    BY <1>1
  <2>2. Edge(f, c.at) \in Nat /\ Edge(f, c.at) < c.at + 1
    BY <2>1, BeginOf DEF Edge
  <2> QED
    BY <1>1, <2>2
<1>5. Placed(f, id, from, c, gone)
  BY <1>4 DEF Placed
<1>6. first => Current({}, t, q, c.pending) /\ Stem(f, c.pending, c.at)
  BY DEF Current, Stem, Behind
<1> QED
  BY <1>2, <1>3, <1>5, <1>6 DEF CursorOf, Covered

LEMMA EmptyContext ==
  ASSUME NEW f, NEW from, NEW q, NEW at
  PROVE  ContextOf(f, from, q, at, <<>>)
<1>1. \A b, ver : ~ IsLast(<<>>, b, ver)
  BY DEF IsLast, Rows!Copies
<1> QED
  BY <1>1 DEF ContextOf

LEMMA DieKeeps ==
  ASSUME Rows!RowsAssumption, RowsInv, Rows!Die
  PROVE  RowsInv'
<1>1. /\ Rows!TypeOK /\ WriterInv /\ ShapeInv /\ SavedInv
      /\ saving # Null => SavingInv
  BY DEF RowsInv
<1>2. /\ pc' = "down" /\ cursor' = Null /\ seen' = <<>> /\ batch' = Rows!NoBatch /\ rows' = {}
      /\ queue' = <<>> /\ cached' = {} /\ saving' = Null
      /\ saved' \in {saved} \cup (IF saving = Null THEN {} ELSE {saving.cursor})
      /\ decided' = decided /\ done' = done /\ writing' = writing /\ file' = file /\ ino' = ino
      /\ rest' = rest /\ chunk' = chunk /\ origin' = origin /\ table' = table /\ dead' = dead
      /\ pc # "down"
  BY DEF Rows!Die, Rows!Dead, Rows!worker, Rows!settings, Rows!store
<1>3. Rows!NoBatch \in Rows!Batch
  <2>1. <<>> \in Seq(Rows!Line) /\ {} \in SUBSET (Nat \X Nat)
    OBVIOUS
  <2> QED
    BY <2>1 DEF Rows!NoBatch, Rows!Batch
<1>4. saving # Null => saving.cursor \in Rows!Cursor /\ CursorInv(saving.cursor)
  BY <1>1 DEF SavingInv, Rows!TypeOK, Rows!Saving
<1>5. saved' = saved \/ (saving # Null /\ saved' = saving.cursor)
  BY <1>2
<1>6. Rows!TypeOK'
  <2>1. saved' \in Rows!Cursor \cup {Null}
    BY <1>1, <1>4, <1>5 DEF Rows!TypeOK
  <2>2. <<>> \in Seq(Rows!Line) /\ <<>> \in Seq(SUBSET Rows!Item)
    OBVIOUS
  <2> QED
    BY <1>1, <1>2, <1>3, <2>1, <2>2 DEF Rows!TypeOK
<1>7. WriterInv'
  BY <1>1, <1>2 DEF WriterInv
<1>8. cursor # Null /\ origin # Null
  BY <1>1, <1>2 DEF ShapeInv
<1>9. ShapeInv'
  BY <1>1, <1>2, <1>8 DEF ShapeInv
<1>10. SavedInv'
  <2> SUFFICES ASSUME saved' # Null PROVE CursorInv(saved)'
    BY <1>2 DEF SavedInv
  <2>1. saved' \in Rows!Cursor /\ CursorInv(saved')
    BY <1>1, <1>4, <1>5 DEF SavedInv, Rows!TypeOK
  <2>2. PICK c \in Rows!Cursor : c = saved' /\ CursorOf(file, ino, origin, dead, table, queue,
                                                        Versioned, c)
    BY <2>1 DEF CursorInv
  <2>3. /\ file \in Seq(Rows!Block) /\ ino \in Nat /\ origin \in Nat /\ table \in [Buys -> Row]
        /\ queue \in Seq(SUBSET Rows!Item) /\ Versioned \in BOOLEAN /\ (Versioned => ino = 1)
    BY <1>1, <1>8 DEF Rows!TypeOK, Row, Versioned
  <2>4. DOMAIN <<>> = {}
    OBVIOUS
  <2>5. CursorOf(file, ino, origin, dead, table, <<>>, Versioned, c)
    BY <2>2, <2>4, CursorQueue
  <2>6. Versioned' = Versioned
    BY <1>2 DEF Versioned
  <2> QED
    BY <1>2, <2>2, <2>5, <2>6 DEF CursorInv
<1> QED
  BY <1>2, <1>6, <1>7, <1>9, <1>10 DEF RowsInv

LEMMA StatKeeps ==
  ASSUME Rows!RowsAssumption, RowsInv, Rows!Stat
  PROVE  RowsInv'
<1> DEFINE same == /\ cursor.ino = ino /\ cursor.at <= Len(file)
                   /\ cursor.at > 0 /\ cursor.anchor # Null => file[cursor.at] = cursor.anchor
<1>1. /\ Rows!TypeOK /\ WriterInv /\ ShapeInv /\ SavedInv
      /\ cursor # Null => CursorInv(cursor) /\ BatchInv /\ QueueInv
      /\ saving # Null => SavingInv
      /\ ino \in Nat /\ ino > 0
  BY DEF RowsInv, ShapeInv, Rows!TypeOK
<1>2. /\ pc = "stat" /\ pc' = "read"
      /\ IF same THEN UNCHANGED <<cursor, seen, origin>>
         ELSE /\ cursor' = [cursor EXCEPT !.ino = ino, !.at = 0, !.skip = FALSE, !.anchor = Null]
              /\ seen' = <<>> /\ origin' = 0
      /\ decided' = decided /\ done' = done /\ writing' = writing /\ file' = file /\ ino' = ino
      /\ rest' = rest /\ chunk' = chunk /\ saved' = saved /\ saving' = saving /\ batch' = batch
      /\ rows' = rows /\ queue' = queue /\ cached' = cached /\ table' = table /\ dead' = dead
  BY DEF Rows!Stat, Rows!worker, Rows!settings, Rows!store
<1> HIDE DEF same
<1>3. cursor # Null /\ cursor \in Rows!Cursor /\ origin # Null /\ origin \in Nat
  BY <1>1, <1>2 DEF ShapeInv, Rows!TypeOK
<1>4. batch.cursor = Null /\ batch = Rows!NoBatch /\ CursorInv(cursor) /\ QueueInv
  BY <1>1, <1>2, <1>3 DEF BatchInv
<1>5. WriterInv'
  BY <1>1, <1>2 DEF WriterInv
<1>6. saving # Null => saving.by \notin {"main", "refresh"}
  BY <1>1, <1>2 DEF SavingInv
<1>7. Versioned' = Versioned
  BY <1>2 DEF Versioned
<1>8. CASE same
  <2>1. UNCHANGED <<cursor, seen, origin>>
    BY <1>2, <1>8
  <2>2. Rows!TypeOK'
    BY <1>1, <1>2, <2>1 DEF Rows!TypeOK
  <2>3. ShapeInv'
    BY <1>1, <1>2, <1>3, <2>1 DEF ShapeInv
  <2>4. SavedInv' /\ CursorInv(cursor)'
    BY <1>1, <1>2, <1>4, <1>7, <2>1 DEF SavedInv, CursorInv
  <2>5. BatchInv'
    BY <1>2, <1>4 DEF BatchInv
  <2>6. At' = At
    BY <1>2, <2>1 DEF At
  <2>7. QueueInv'
    BY <1>2, <1>4, <1>7, <2>1, <2>6 DEF QueueInv
  <2>8. saving # Null => SavingInv'
    <3> HAVE saving # Null
    <3>1. CursorInv(saving.cursor)'
      BY <1>1, <1>2, <1>7, <2>1 DEF CursorInv, SavingInv
    <3> QED
      BY <1>1, <1>2, <1>6, <2>1, <3>1 DEF SavingInv
  <2> QED
    BY <1>2, <1>5, <2>2, <2>3, <2>4, <2>5, <2>7, <2>8 DEF RowsInv
<1>9. CASE ~ same
  <2>1. /\ cursor' = [cursor EXCEPT !.ino = ino, !.at = 0, !.skip = FALSE, !.anchor = Null]
        /\ seen' = <<>> /\ origin' = 0
    BY <1>2, <1>9
  <2>2. /\ cursor' \in Rows!Cursor /\ cursor'.ino = ino /\ cursor'.at = 0 /\ cursor'.skip = FALSE
        /\ cursor'.anchor = Null
    BY <1>1, <1>3, <2>1 DEF Rows!Cursor
  <2>3. cursor.ino \in 1 .. ino /\ cursor.ino # ino
    <3>1. Placed(file, ino, origin, cursor, dead)
      BY <1>4 DEF CursorInv, CursorOf
    <3> QED
      BY <1>9, <3>1 DEF Placed, same
  <2>4. ino > 1 /\ ~ Versioned /\ Versioned' = FALSE
    BY <1>1, <1>7, <2>3 DEF Versioned
  <2>5. Rows!TypeOK'
    <3>1. <<>> \in Seq(Rows!Line) /\ 0 \in Nat
      OBVIOUS
    <3> QED
      BY <1>1, <1>2, <2>1, <2>2, <3>1 DEF Rows!TypeOK
  <2>6. cursor' # Null /\ origin' # Null
    BY <2>1, <2>2 DEF Rows!RowsAssumption
  <2>7. ShapeInv'
    BY <1>1, <1>2, <1>3, <2>6 DEF ShapeInv
  <2>8. ASSUME NEW c, c.ino \in 1 .. ino, c.ino # ino
        PROVE  CursorOf(file', ino', origin', dead', table', queue', Versioned', c)
    BY <1>2, <2>4, <2>8 DEF CursorOf, Placed
  <2>9. SavedInv'
    <3> SUFFICES ASSUME saved # Null PROVE CursorInv(saved)'
      BY <1>2, <2>2 DEF SavedInv
    <3>1. saved.ino # ino
      BY <1>1, <1>3, <2>3 DEF SavedInv
    <3>2. saved.ino \in 1 .. ino
      BY <1>1 DEF SavedInv, CursorInv, CursorOf, Placed
    <3> QED
      BY <1>2, <2>8, <3>1, <3>2 DEF CursorInv
  <2>10. CursorInv(cursor)'
    <3>1. file \in Seq(Rows!Block) /\ ino \in Nat \ {0} /\ 0 \in Nat /\ Len(file) \in Nat
      BY <1>1, LengthOf DEF Rows!TypeOK
    <3> DEFINE c == cursor'
    <3>2. c \in Rows!Cursor /\ c.ino = ino /\ c.at <= 0 /\ c.at <= Len(file) /\ ~ c.skip
            /\ c.anchor = Null
          /\ c.at = 0
      BY <2>2, <3>1
    <3> HIDE DEF c
    <3>3. CursorOf(file, ino, 0, dead, table, queue, FALSE, c)
      BY <3>1, <3>2, CursorBegins
    <3> QED
      BY <1>2, <2>1, <2>4, <3>3 DEF CursorInv, c
  <2>11. BatchInv'
    BY <1>2, <1>4 DEF BatchInv
  <2>12. QueueInv'
    BY <2>4 DEF QueueInv
  <2>13. saving # Null => SavingInv'
    <3> HAVE saving # Null
    <3>1. saving.cursor \in Rows!Cursor /\ CursorInv(saving.cursor) /\ SavingInv
      BY <1>1 DEF SavingInv, Rows!TypeOK, Rows!Saving
    <3>2. saving.cursor.ino \in 1 .. ino
      BY <3>1 DEF CursorInv, CursorOf, Placed
    <3>3. saving.cursor.ino <= cursor.ino
      BY <1>1, <1>6, <2>3, <3>1, <3>2 DEF SavingInv
    <3>4. saving.cursor.ino < ino
      BY <1>1, <2>3, <3>2, <3>3
    <3>5. CursorInv(saving.cursor)'
      BY <1>1, <1>2, <2>8, <3>2, <3>4 DEF CursorInv
    <3> QED
      BY <1>2, <1>6, <2>2, <3>1, <3>4, <3>5 DEF SavingInv
  <2> QED
    BY <1>2, <1>5, <2>5, <2>7, <2>9, <2>10, <2>11, <2>12, <2>13 DEF RowsInv
<1> QED
  BY <1>8, <1>9

\* At the beginning of a file it does not matter where the first cursor began.
LEMMA CursorAtZero ==
  ASSUME NEW f \in Seq(Rows!Block), NEW id \in Nat \ {0}, NEW from \in Nat, NEW gone, NEW t, NEW q,
         NEW first \in BOOLEAN, NEW c \in Rows!Cursor, c.ino = id, c.at = 0,
         CursorOf(f, id, from, gone, t, q, first, c)
  PROVE  CursorOf(f, id, 0, gone, t, q, first, c)
<1>1. Rows!Ends(f) \subseteq 1 .. Len(f) /\ Len(f) \in Nat
  BY EndsOf
<1>2. Before(f, from, c.at) = {} /\ Before(f, 0, c.at) = {}
  BY <1>1 DEF Before
<1>3. Edge(f, c.at) = 0
  <2>1. 1 \in Nat \ {0} /\ c.at + 1 = 1
    OBVIOUS
  <2>2. Rows!Begin(f, 1) \in Nat /\ Rows!Begin(f, 1) < 1
    BY <2>1, BeginOf
  <2> QED
    BY <2>1, <2>2 DEF Edge
<1>4. Placed(f, id, from, c, gone)
  BY DEF CursorOf
<1>5. Placed(f, id, 0, c, gone)
  BY <1>3, <1>4 DEF Placed
<1> QED
  BY <1>2, <1>5 DEF CursorOf

LEMMA PendingBehind ==
  ASSUME NEW pending, NEW lines, NEW r, r = <<>> \/ r = <<pending>>
  PROVE  \A i \in DOMAIN r : r[i] = pending /\ Behind(lines, pending, r[i])
<1>1. Behind(lines, pending, pending)
  BY DEF Behind, Waiting
<1>2. \A i \in DOMAIN r : r[i] = pending
  OBVIOUS
<1> QED
  BY <1>1, <1>2

LEMMA StartsAt ==
  ASSUME Rows!RowsAssumption, RowsInv, Rows!Start
  PROVE  /\ cursor' \in Rows!Cursor /\ cursor'.ino = ino /\ origin' \in Nat
         /\ queue' \in Seq(SUBSET Rows!Item) /\ \A i \in DOMAIN queue' : queue'[i] = cursor'.pending
         /\ CursorOf(file, ino, origin', dead, table, queue', Versioned, cursor')
         /\ saved # Null => CursorOf(file, ino, origin', dead, table, queue', Versioned, saved)
<1> DEFINE known == saved \notin {Null, Rows!Torn}
           same == known /\ saved.ino = ino
           here == same /\ saved.at <= Len(file)
           start == CASE here -> saved.at
                      [] known /\ ~ here -> 0
                      [] OTHER -> Rows!RecentStart
           pending == IF known THEN saved.pending ELSE {}
<1>1. /\ Rows!TypeOK /\ ShapeInv /\ SavedInv
      /\ ino \in Nat \ {0} /\ Versioned \in BOOLEAN /\ (Versioned => ino = 1)
  BY DEF RowsInv, ShapeInv, Rows!TypeOK, Versioned
<1>2. /\ pc = "down"
      /\ cursor' = [ino |-> ino, at |-> start, skip |-> same /\ saved.skip,
                    anchor |-> IF same THEN saved.anchor ELSE Null, pending |-> pending]
      /\ queue' = IF pending = {} THEN <<>> ELSE <<pending>>
      /\ origin' = CASE saved = Null -> start
                     [] saved # Null /\ start = 0 -> 0
                     [] OTHER -> origin
  BY DEF Rows!Start
<1>3. file \in Seq(Rows!Block) /\ Len(file) \in Nat
  BY <1>1, LengthOf DEF Rows!TypeOK
<1>4. saved # Null => /\ saved \in Rows!Cursor /\ CursorInv(saved) /\ saved.ino \in 1 .. ino
                      /\ (saved.ino = ino => saved.at <= Len(file))
                      /\ saved # Rows!Torn /\ origin \in Nat
  <2> HAVE saved # Null
  <2>1. saved \in Rows!Cursor /\ CursorInv(saved) /\ origin \in Nat
    BY <1>1 DEF SavedInv, Rows!TypeOK, ShapeInv
  <2>2. Placed(file, ino, origin, saved, dead)
    BY <2>1 DEF CursorInv, CursorOf
  <2>3. saved.ino \in 1 .. ino /\ (saved.ino = ino => saved.at <= Len(file))
    BY <2>2 DEF Placed
  <2>4. Rows!Torn.ino = 0
    BY DEF Rows!Torn
  <2> QED
    BY <2>1, <2>3, <2>4
<1>5. cursor = Null /\ queue = <<>>
  BY <1>1, <1>2 DEF ShapeInv
<1>6. pending \in SUBSET Rows!Item
  BY <1>4 DEF Rows!Cursor
<1>7. queue' \in Seq(SUBSET Rows!Item) /\ (queue' = <<>> \/ queue' = <<pending>>)
  <2> DEFINE p == pending
  <2>1. p \in SUBSET Rows!Item /\ (queue' = <<>> \/ queue' = <<p>>)
    BY <1>2, <1>6
  <2> HIDE DEF p
  <2>2. <<>> \in Seq(SUBSET Rows!Item) /\ <<p>> \in Seq(SUBSET Rows!Item)
    BY <2>1
  <2>3. queue' \in Seq(SUBSET Rows!Item) /\ (queue' = <<>> \/ queue' = <<p>>)
    BY <2>1, <2>2
  <2> QED
    BY <2>3 DEF p
<1>8. \A lines : \A i \in DOMAIN queue' : queue'[i] = pending /\ Behind(lines, pending, queue'[i])
  <2> DEFINE p == pending
             r == queue'
  <2>1. r = <<>> \/ r = <<p>>
    BY <1>7
  <2> HIDE DEF p, r
  <2>2. \A lines : \A i \in DOMAIN r : r[i] = p /\ Behind(lines, p, r[i])
    BY <2>1, PendingBehind
  <2> QED
    BY <2>2 DEF p, r
<1>9. CASE saved = Null
  <2>1. start = Rows!RecentStart /\ pending = {} /\ ~ same
    BY <1>9
  <2>2. cursor' = [ino |-> ino, at |-> Rows!RecentStart, skip |-> FALSE, anchor |-> Null,
                   pending |-> {}]
    BY <1>2, <2>1
  <2>3. Rows!RecentStart \in Nat /\ Rows!RecentStart <= Len(file) /\ origin' = Rows!RecentStart
    BY <1>1, <1>2, <1>9, <2>1, RecentStartIs
  <2>4. /\ cursor' \in Rows!Cursor /\ cursor'.ino = ino /\ cursor'.at = origin' /\ ~ cursor'.skip
        /\ cursor'.anchor = Null /\ cursor'.pending = {}
    BY <1>1, <2>2, <2>3 DEF Rows!Cursor
  <2> DEFINE c == cursor'
             o == origin'
             r == queue'
  <2>5. /\ c \in Rows!Cursor /\ c.ino = ino /\ c.at = o /\ ~ c.skip /\ c.anchor = Null
           /\ c.pending = {}
        /\ o \in Nat /\ o <= Len(file) /\ c.at <= o
    BY <2>3, <2>4
  <2> HIDE DEF c, o, r
  <2>6. CursorOf(file, ino, o, dead, table, r, Versioned, c)
    BY <1>1, <1>3, <2>5, CursorBegins
  <2> QED
    BY <1>7, <1>8, <1>9, <2>1, <2>4, <2>5, <2>6 DEF c, o, r
<1>10. CASE saved # Null /\ saved.ino = ino
  <2>1. known /\ same /\ here /\ start = saved.at /\ pending = saved.pending
    BY <1>4, <1>10
  <2>2. cursor' = saved
    <3>1. saved = [ino |-> saved.ino, at |-> saved.at, skip |-> saved.skip,
                   anchor |-> saved.anchor, pending |-> saved.pending]
      BY <1>4, <1>10 DEF Rows!Cursor
    <3>2. saved.skip \in BOOLEAN
      BY <1>4, <1>10 DEF Rows!Cursor
    <3>3. (same /\ saved.skip) = saved.skip
      BY <2>1, <3>2
    <3> QED
      BY <1>2, <1>10, <2>1, <3>1, <3>3
  <2>3. origin' = IF saved.at = 0 THEN 0 ELSE origin
    BY <1>2, <1>10, <2>1
  <2>4. CursorOf(file, ino, origin, dead, table, queue, Versioned, saved)
    BY <1>4, <1>10 DEF CursorInv
  <2> DEFINE r == queue'
             o == origin'
  <2>5. \A lines : \A i \in DOMAIN r : Behind(lines, saved.pending, r[i])
    BY <1>8, <2>1
  <2>6. o = IF saved.at = 0 THEN 0 ELSE origin
    BY <2>3
  <2> HIDE DEF r, o, known, same, here, start, pending
  <2>7. CursorOf(file, ino, origin, dead, table, r, Versioned, saved)
    BY <2>4, <2>5, CursorQueue
  <2>8. CursorOf(file, ino, o, dead, table, r, Versioned, saved)
    <3>1. CASE saved.at = 0
      <4>1. CursorOf(file, ino, 0, dead, table, r, Versioned, saved)
        BY <1>1, <1>3, <1>4, <1>10, <2>7, <3>1, CursorAtZero
      <4> QED
        BY <2>6, <3>1, <4>1
    <3>2. CASE saved.at # 0
      BY <2>6, <2>7, <3>2
    <3> QED
      BY <3>1, <3>2
  <2> QED
    BY <1>4, <1>7, <1>8, <1>10, <2>1, <2>2, <2>3, <2>8 DEF r, o
<1>11. CASE saved # Null /\ saved.ino # ino
  <2>1. known /\ ~ same /\ ~ here /\ start = 0 /\ pending = saved.pending
    BY <1>4, <1>11
  <2>2. cursor' = [ino |-> ino, at |-> 0, skip |-> FALSE, anchor |-> Null, pending |-> pending]
    BY <1>2, <2>1
  <2>3. origin' = 0
    BY <1>2, <1>11, <2>1
  <2>4. /\ cursor' \in Rows!Cursor /\ cursor'.ino = ino /\ cursor'.at = 0 /\ ~ cursor'.skip
        /\ cursor'.anchor = Null /\ cursor'.pending = pending
    BY <1>1, <1>6, <2>2 DEF Rows!Cursor
  <2>5. Versioned = FALSE
    BY <1>1, <1>4, <1>11
  <2> DEFINE c == cursor'
             r == queue'
  <2>6. c \in Rows!Cursor /\ c.ino = ino /\ c.at = 0 /\ ~ c.skip /\ c.anchor = Null
          /\ c.at <= Len(file)
        /\ c.at <= 0 /\ 0 \in Nat
    BY <1>3, <2>4
  <2> HIDE DEF c, r, known, same, here, start, pending
  <2>7. CursorOf(file, ino, 0, dead, table, r, FALSE, c)
    BY <1>1, <1>3, <2>6, CursorBegins
  <2>8. CursorOf(file, ino, 0, dead, table, r, FALSE, saved)
    BY <1>4, <1>11 DEF CursorOf, Placed
  <2> QED
    BY <1>7, <1>8, <2>3, <2>4, <2>5, <2>7, <2>8 DEF c, r
<1> QED
  BY <1>9, <1>10, <1>11

LEMMA SidecarStartKeeps ==
  ASSUME Rows!RowsAssumption, RowsInv, Rows!Start
  PROVE  RowsInv'
<1>1. /\ Rows!TypeOK /\ WriterInv /\ ShapeInv /\ SavedInv
      /\ ino \in Nat /\ ino > 0
  BY DEF RowsInv, ShapeInv, Rows!TypeOK
<1>2. /\ pc' = "stat"
      /\ seen' = <<>> /\ batch' = Rows!NoBatch /\ rows' = {} /\ cached' = {} /\ saving' = Null
      /\ decided' = decided /\ done' = done /\ writing' = writing /\ file' = file /\ ino' = ino
      /\ rest' = rest /\ chunk' = chunk /\ saved' = saved /\ table' = table /\ dead' = dead
  BY DEF Rows!Start, Rows!worker, Rows!settings, Rows!store
<1>3. /\ cursor' \in Rows!Cursor /\ cursor'.ino = ino /\ origin' \in Nat
      /\ queue' \in Seq(SUBSET Rows!Item) /\ \A i \in DOMAIN queue' : queue'[i] = cursor'.pending
      /\ CursorOf(file, ino, origin', dead, table, queue', Versioned, cursor')
      /\ saved # Null => CursorOf(file, ino, origin', dead, table, queue', Versioned, saved)
  BY StartsAt
<1>4. Versioned' = Versioned
  BY <1>2 DEF Versioned
<1>5. cursor' # Null /\ origin' # Null
  BY <1>3 DEF Rows!RowsAssumption
<1>6. Rows!NoBatch \in Rows!Batch /\ Rows!NoBatch.cursor = Null
  <2>1. <<>> \in Seq(Rows!Line) /\ {} \in SUBSET (Nat \X Nat)
    OBVIOUS
  <2> QED
    BY <2>1 DEF Rows!NoBatch, Rows!Batch
<1>7. Rows!TypeOK'
  <2>1. <<>> \in Seq(Rows!Line)
    OBVIOUS
  <2> QED
    BY <1>1, <1>2, <1>3, <1>6, <2>1 DEF Rows!TypeOK
<1>8. WriterInv'
  BY <1>1, <1>2 DEF WriterInv
<1>9. ShapeInv'
  BY <1>1, <1>2, <1>5 DEF ShapeInv
<1>10. SavedInv' /\ CursorInv(cursor)'
  BY <1>2, <1>3, <1>4 DEF SavedInv, CursorInv
<1>11. BatchInv'
  BY <1>2, <1>6 DEF BatchInv
<1>12. QueueInv'
  <2>1. ContextOf(file', origin', queue', At', <<>>)
    BY EmptyContext
  <2>2. Versioned => /\ Stem(file, cursor'.pending, cursor'.at)
                     /\ \A p, r \in cursor'.pending : p.buy = r.buy => p.ver = r.ver
    BY <1>3 DEF CursorOf, Current
  <2>3. \A i \in DOMAIN queue', r \in cursor'.pending : r.ver \in Nat
    BY <1>3 DEF Rows!Cursor, Rows!Item
  <2>4. Versioned => QueueOf(file, queue', cursor'.at)
    <3> HAVE Versioned
    <3>1. \A i \in DOMAIN queue' : Stem(file, queue'[i], cursor'.at)
      BY <1>3, <2>2
    <3>2. ASSUME NEW i \in DOMAIN queue', NEW j \in DOMAIN queue', NEW r \in queue'[i],
                 NEW s \in queue'[j], r.buy = s.buy
          PROVE  r.ver <= s.ver
      <4>1. r \in cursor'.pending /\ s \in cursor'.pending
        BY <1>3
      <4> QED
        BY <2>2, <2>3, <3>2, <4>1
    <3> QED
      BY <3>1, <3>2 DEF QueueOf
  <2> QED
    BY <1>2, <1>4, <2>1, <2>4 DEF QueueInv
<1> QED
  BY <1>2, <1>7, <1>8, <1>9, <1>10, <1>11, <1>12 DEF RowsInv

\* What is known of a step within the loop.
LEMMA InLoop ==
  ASSUME Rows!RowsAssumption, RowsInv, pc # "down"
  PROVE  /\ cursor # Null /\ cursor \in Rows!Cursor /\ cursor.at \in Nat /\ origin # Null
            /\ origin \in Nat
         /\ ino \in Nat \ {0} /\ Versioned \in BOOLEAN /\ (Versioned => ino = 1 /\ rest)
         /\ file \in Seq(Rows!Block) /\ Len(file) \in Nat /\ table \in [Buys -> Row]
         /\ queue \in Seq(SUBSET Rows!Item) /\ seen \in Seq(Rows!Line) /\ rows \in SUBSET Rows!Item
         /\ CursorInv(cursor) /\ BatchInv /\ QueueInv
         /\ CursorOf(file, ino, origin, dead, table, queue, Versioned, cursor)
         /\ Placed(file, ino, origin, cursor, dead) /\ cursor.ino \in 1 .. ino
         /\ (cursor.ino = ino => cursor.at <= Len(file))
         /\ (Versioned => cursor.ino = ino)
<1>1. Rows!TypeOK /\ ShapeInv
  BY DEF RowsInv
<1>2. cursor # Null /\ cursor \in Rows!Cursor /\ origin # Null /\ origin \in Nat
  BY <1>1 DEF ShapeInv, Rows!TypeOK
<1>3. CursorInv(cursor) /\ BatchInv /\ QueueInv
  BY <1>2 DEF RowsInv
<1>4. CursorOf(file, ino, origin, dead, table, queue, Versioned, cursor)
  BY <1>3 DEF CursorInv
<1>5. Placed(file, ino, origin, cursor, dead)
  BY <1>4 DEF CursorOf
<1>6. /\ ino \in Nat \ {0} /\ Versioned \in BOOLEAN /\ (Versioned => ino = 1 /\ rest)
      /\ file \in Seq(Rows!Block) /\ Len(file) \in Nat /\ table \in [Buys -> Row]
      /\ queue \in Seq(SUBSET Rows!Item) /\ seen \in Seq(Rows!Line) /\ rows \in SUBSET Rows!Item
  BY <1>1, LengthOf DEF ShapeInv, Rows!TypeOK, Versioned, Row
<1>7. cursor.ino \in 1 .. ino /\ (cursor.ino = ino => cursor.at <= Len(file))
  BY <1>5 DEF Placed
<1> QED
  BY <1>2, <1>3, <1>4, <1>5, <1>6, <1>7 DEF Rows!Cursor

LEMMA ReadBatchIs ==
  ASSUME Rows!RowsAssumption, RowsInv, Rows!Read, batch'.cursor # Null
  PROVE  BatchOf(file, ino, origin, dead, Versioned, cursor, batch', rows')
<1> DEFINE read == Rows!ReadBatch(cursor)
           kept == KeptLines(seen \o read.lines)
<1>1. Rows!TypeOK /\ pc = "read" /\ pc # "down" /\ batch' = read
        /\ rows' = Rows!BatchRowsOf(read.lines, kept)
  BY DEF Rows!Read, RowsInv, KeptLines
<1>2. /\ cursor \in Rows!Cursor /\ origin \in Nat /\ Placed(file, ino, origin, cursor, dead)
      /\ seen \in Seq(Rows!Line) /\ ino \in Nat \ {0} /\ file \in Seq(Rows!Block)
  BY <1>1, InLoop
<1>3. /\ read \in Rows!Batch /\ Len(read.lines) <= BatchRows /\ read.cursor # Null
      /\ read.cursor \in Rows!Cursor /\ read.cursor.ino = cursor.ino /\ read.cursor.at > cursor.at
  BY <1>1, <1>2, ReadTyped
<1>4. read.lines \in Seq(Rows!Line)
  BY <1>3 DEF Rows!Batch
<1>5. \A k \in 1 .. Len(read.lines) : read.lines[k].kind = "row" =>
        \E r \in rows' : r.buy = read.lines[k].buy
  BY <1>1, <1>2, <1>3, <1>4, BatchRowsCover
<1>6. CASE cursor.ino # ino
  <2>1. Placed(file, ino, origin, read.cursor, dead \cup read.bad)
    BY <1>2, <1>3, <1>6 DEF Placed
  <2> HIDE DEF read, kept
  <2>2. BatchOf(file, ino, origin, dead, Versioned, cursor, read, rows')
    BY <1>3, <1>6, <2>1 DEF BatchOf
  <2> QED
    BY <1>1, <2>2
<1>7. CASE cursor.ino = ino
  <2>1. /\ Placed(file, ino, origin, read.cursor, dead \cup read.bad)
        /\ \E at : Reads(at, cursor, read)
    BY <1>1, <1>2, <1>3, <1>7, ReadHere
  <2> HIDE DEF read, kept
  <2>2. PICK at : Reads(at, cursor, read)
    BY <2>1
  <2> DEFINE new == {end \in Before(file, origin, read.cursor.at) : cursor.ino = ino =>
                     end > cursor.at}
  <2>3. \A end \in new :
          IF Rows!Whole(file, end) THEN \E k \in 1 .. Len(read.lines) : at[k] = end
          ELSE <<ino, Rows!Begin(file, end)>> \in dead \cup read.bad
    BY <1>7, <2>2 DEF Reads
  <2> HIDE DEF new
  <2>4. Broken(file, ino, new) \subseteq dead \cup read.bad
    BY <2>3 DEF Broken
  <2>5. ASSUME NEW line \in RowsOf(file, new)
        PROVE  Waiting(rows', line.buy)
    <3>1. PICK end \in new : Rows!Whole(file, end) /\ file[end].line.kind = "row"
                               /\ line = file[end].line
      BY DEF RowsOf
    <3>2. PICK k \in 1 .. Len(read.lines) : at[k] = end
      BY <2>3, <3>1
    <3>3. read.lines[k] = line
      BY <2>2, <3>1, <3>2 DEF Reads
    <3> QED
      BY <1>5, <3>1, <3>3 DEF Waiting
  <2>6. BatchOf(file, ino, origin, dead, Versioned, cursor, read, rows')
    BY <1>3, <2>1, <2>4, <2>5 DEF BatchOf, new
  <2> QED
    BY <1>1, <2>6
<1> QED
  BY <1>6, <1>7

LEMMA ReadContext ==
  ASSUME Rows!RowsAssumption, RowsInv, Rows!Read, Versioned
  PROVE  ContextOf(file, origin, queue, IF batch'.cursor = Null THEN cursor.at
                   ELSE batch'.cursor.at, seen')
<1> DEFINE read == Rows!ReadBatch(cursor)
           kept == KeptLines(seen \o read.lines)
           to == IF read.cursor = Null THEN cursor.at ELSE read.cursor.at
<1>1. Rows!TypeOK /\ WriterInv /\ pc = "read" /\ pc # "down" /\ batch' = read /\ seen' = kept
  BY DEF Rows!Read, RowsInv, KeptLines
<1>2. /\ cursor \in Rows!Cursor /\ cursor.at \in Nat /\ origin \in Nat
      /\ Placed(file, ino, origin, cursor, dead) /\ cursor.ino = ino
      /\ seen \in Seq(Rows!Line) /\ ino \in Nat \ {0} /\ file \in Seq(Rows!Block)
      /\ queue \in Seq(SUBSET Rows!Item) /\ BatchInv /\ QueueInv
  BY <1>1, InLoop
<1>3. At = cursor.at /\ ContextOf(file, origin, queue, cursor.at, seen)
      /\ QueueOf(file, queue, cursor.at) /\ Ordered(file)
  <2>1. batch.cursor = Null
    BY <1>1, <1>2 DEF BatchInv
  <2> QED
    BY <1>1, <1>2, <2>1 DEF At, QueueInv, WriterInv
<1>4. read \in Rows!Batch /\ read.lines \in Seq(Rows!Line)
  BY <1>1, <1>2, ReadTyped DEF Rows!Batch
<1>5. CASE read.cursor = Null
  <2>1. read.lines = <<>> /\ to = cursor.at
    BY <1>1, <1>2, <1>5, ReadTyped DEF Rows!NoBatch
  <2>2. <<>> \in Seq(Rows!Line) /\ Len(<<>>) = 0 /\ <<>> \in [1 .. 0 -> Rows!Ends(file)]
    OBVIOUS
  <2>3. /\ \A k \in 1 .. 0 : FALSE
        /\ \A end \in Before(file, origin, cursor.at) : ~ end > cursor.at
    <3>1. Rows!Ends(file) \subseteq 1 .. Len(file) /\ Len(file) \in Nat
      BY <1>2, EndsOf
    <3> QED
      BY <1>2, <3>1 DEF Before
  <2> DEFINE none == <<>>
             pos == <<>>
             z == cursor.at
  <2>4. /\ none \in Seq(Rows!Line) /\ pos \in [1 .. Len(none) -> Rows!Ends(file)]
        /\ \A k \in 1 .. Len(none) : cursor.at < pos[k] /\ pos[k] <= z
           /\ none[k] = file[pos[k]].line
        /\ \A j, k \in 1 .. Len(none) : j < k => pos[j] < pos[k]
        /\ \A end \in Before(file, origin, z) : end > cursor.at /\ Rows!Whole(file, end) =>
             \E k \in 1 .. Len(none) : pos[k] = end
        /\ cursor.at <= z /\ z \in Nat
    BY <1>2, <2>2, <2>3
  <2> HIDE DEF none, pos, z, read
  <2>5. ContextOf(file, origin, queue, z, KeptLines(seen \o none))
    BY <1>2, <1>3, <2>4, ContextReads
  <2>6. read.lines = none /\ to = z
    BY <2>1 DEF none, z
  <2> QED
    BY <1>1, <1>5, <2>5, <2>6 DEF z
<1>6. CASE read.cursor # Null
  <2>1. read.cursor \in Rows!Cursor /\ read.cursor.at > cursor.at /\ \E at : Reads(at, cursor, read)
    BY <1>1, <1>2, <1>6, ReadTyped, ReadHere
  <2> HIDE DEF read, kept
  <2>2. PICK at : Reads(at, cursor, read)
    BY <2>1
  <2> DEFINE lines == read.lines
             z == read.cursor.at
  <2>3. z \in Nat /\ cursor.at <= z /\ lines \in Seq(Rows!Line)
    BY <1>2, <1>4, <2>1 DEF Rows!Cursor
  <2>4. /\ at \in [1 .. Len(lines) -> Rows!Ends(file)]
        /\ \A k \in 1 .. Len(lines) : cursor.at < at[k] /\ at[k] <= z /\ lines[k] = file[at[k]].line
        /\ \A j, k \in 1 .. Len(lines) : j < k => at[j] < at[k]
        /\ \A end \in Before(file, origin, z) : end > cursor.at /\ Rows!Whole(file, end) =>
             \E k \in 1 .. Len(lines) : at[k] = end
    BY <2>2 DEF Reads
  <2> HIDE DEF lines, z
  <2>5. ContextOf(file, origin, queue, z, KeptLines(seen \o lines))
    BY <1>2, <1>3, <2>3, <2>4, ContextReads
  <2> QED
    BY <1>1, <1>6, <2>5 DEF lines, z, kept
<1> QED
  BY <1>5, <1>6

LEMMA ReadKeeps ==
  ASSUME Rows!RowsAssumption, RowsInv, Rows!Read
  PROVE  RowsInv'
<1> DEFINE read == Rows!ReadBatch(cursor)
           kept == KeptLines(seen \o read.lines)
<1>1. /\ Rows!TypeOK /\ WriterInv /\ ShapeInv /\ SavedInv
      /\ saving # Null => SavingInv
  BY DEF RowsInv
<1>2. /\ pc = "read" /\ pc # "down"
      /\ batch' = read /\ seen' = kept /\ rows' = Rows!BatchRowsOf(read.lines, kept)
      /\ pc' = IF read.cursor = Null THEN "refresh" ELSE "letter"
      /\ decided' = decided /\ done' = done /\ writing' = writing /\ file' = file /\ ino' = ino
      /\ rest' = rest /\ chunk' = chunk /\ saved' = saved /\ origin' = origin /\ cursor' = cursor
      /\ saving' = saving /\ queue' = queue /\ cached' = cached /\ table' = table /\ dead' = dead
  BY DEF Rows!Read, KeptLines, Rows!worker, Rows!settings, Rows!store
<1>3. /\ cursor # Null /\ cursor \in Rows!Cursor /\ seen \in Seq(Rows!Line)
      /\ CursorInv(cursor) /\ BatchInv /\ QueueInv /\ origin # Null
  BY <1>2, InLoop
<1>4. read \in Rows!Batch /\ read.lines \in Seq(Rows!Line)
        /\ (read.cursor = Null => read = Rows!NoBatch)
  BY <1>1, <1>3, ReadTyped DEF Rows!Batch
<1>5. kept \in Seq(Rows!Line)
  BY <1>3, <1>4, KeptTyped
<1>6. \A r \in rows' : r \in Rows!Item /\ IsLast(kept, r.buy, r.ver)
  BY <1>2, <1>4, <1>5, BatchRowsLast
<1>7. read.cursor # Null => BatchOf(file, ino, origin, dead, Versioned, cursor, read, rows')
  BY <1>2, ReadBatchIs
<1>8. Versioned => ContextOf(file, origin, queue,
                             IF read.cursor = Null THEN cursor.at ELSE read.cursor.at, kept)
  BY <1>2, ReadContext
<1> HIDE DEF read, kept
<1>9. Versioned' = Versioned
  BY <1>2 DEF Versioned
<1>10. Rows!TypeOK'
  BY <1>1, <1>2, <1>4, <1>5, <1>6 DEF Rows!TypeOK
<1>11. WriterInv'
  BY <1>1, <1>2 DEF WriterInv
<1>12. ShapeInv'
  BY <1>1, <1>2, <1>3 DEF ShapeInv
<1>13. SavedInv' /\ CursorInv(cursor)'
  BY <1>1, <1>2, <1>3, <1>9 DEF SavedInv, CursorInv
<1>14. BatchInv'
  <2>1. batch'.cursor = Null <=> pc' \notin {"letter", "raw", "commit"}
    BY <1>2
  <2>2. batch'.cursor # Null => pc' = "letter"
    BY <1>2
  <2> QED
    BY <1>2, <1>4, <1>6, <1>7, <1>9, <2>1, <2>2 DEF BatchInv
<1>15. QueueInv'
  BY <1>2, <1>3, <1>8, <1>9 DEF QueueInv, At
<1>16. saving # Null => SavingInv'
  <2> HAVE saving # Null
  <2>1. SavingInv /\ saving.by # "main" /\ saving.by # "refresh"
    BY <1>1, <1>2 DEF SavingInv
  <2>2. CursorInv(saving.cursor)'
    BY <1>2, <1>9, <2>1 DEF CursorInv, SavingInv
  <2> QED
    BY <1>2, <2>1, <2>2 DEF SavingInv
<1> QED
  BY <1>2, <1>10, <1>11, <1>12, <1>13, <1>14, <1>15, <1>16 DEF RowsInv

\* The same in this state, when also the queue goes on.
LEMMA TableMoves ==
  ASSUME Rows!RowsAssumption, RowsInv, pc # "down", NEW u, NEW r, Moved(table, u, queue, Versioned),
         \A i \in DOMAIN r : \E j \in DOMAIN queue : r[i] = queue[j],
         NEW c \in Rows!Cursor, CursorInv(c)
  PROVE  CursorOf(file, ino, origin, dead, u, r, Versioned, c)
<1> DEFINE first == Versioned
<1>1. /\ file \in Seq(Rows!Block) /\ origin \in Nat /\ ino \in Nat
      /\ first \in BOOLEAN /\ (first => ino = 1) /\ Moved(table, u, queue, first)
      /\ CursorOf(file, ino, origin, dead, table, queue, first, c)
  BY InLoop DEF CursorInv
<1> HIDE DEF first
<1>2. CursorOf(file, ino, origin, dead, u, queue, first, c)
  BY <1>1, CursorMoves
<1>3. first => \A i \in DOMAIN r : Behind(RowsOf(file, Before(file, origin, c.at)), c.pending, r[i])
  BY <1>2 DEF CursorOf, Current
<1>4. CursorOf(file, ino, origin, dead, u, r, first, c)
  BY <1>2, <1>3, CursorQueue
<1> QED
  BY <1>4 DEF first

LEMMA CursorReports ==
  ASSUME NEW f, NEW from, NEW id, NEW gone, NEW lost, gone \subseteq lost, NEW t, NEW q,
         NEW first, NEW c,
         CursorOf(f, id, from, gone, t, q, first, c)
  PROVE  CursorOf(f, id, from, lost, t, q, first, c)
<1>1. Placed(f, id, from, c, lost)
  BY PlacedStays DEF CursorOf
<1> QED
  BY <1>1 DEF CursorOf

LEMMA PersistMalformedKeeps ==
  ASSUME Rows!RowsAssumption, RowsInv, Rows!PersistMalformed
  PROVE  RowsInv'
<1>1. /\ Rows!TypeOK /\ WriterInv /\ ShapeInv /\ SavedInv
      /\ saving # Null => SavingInv
  BY DEF RowsInv
<1>2. /\ pc = "letter" /\ pc # "down" /\ pc' = "raw" /\ dead' = dead \cup batch.bad
      /\ decided' = decided /\ done' = done /\ writing' = writing /\ file' = file /\ ino' = ino
      /\ rest' = rest /\ chunk' = chunk /\ saved' = saved /\ origin' = origin /\ cursor' = cursor
      /\ saving' = saving /\ seen' = seen /\ batch' = batch /\ rows' = rows
      /\ queue' = queue /\ cached' = cached /\ table' = table
  BY DEF Rows!PersistMalformed, Rows!worker, Rows!settings
<1>3. cursor # Null /\ CursorInv(cursor) /\ BatchInv /\ QueueInv
  BY <1>2, InLoop
<1>4. Versioned' = Versioned
  BY <1>2 DEF Versioned
<1>5. ASSUME NEW c, CursorInv(c)
      PROVE  CursorOf(file', ino', origin', dead', table', queue', Versioned', c)
  <2> DEFINE lost == dead'
             first == Versioned
  <2>1. CursorOf(file, ino, origin, dead, table, queue, first, c) /\ dead \subseteq lost
    BY <1>2, <1>5 DEF CursorInv
  <2> HIDE DEF lost, first
  <2>2. CursorOf(file, ino, origin, lost, table, queue, first, c)
    BY <2>1, CursorReports
  <2> QED
    BY <1>2, <1>4, <2>2 DEF lost, first
<1>6. Rows!TypeOK'
  BY <1>1, <1>2 DEF Rows!TypeOK
<1>7. WriterInv' /\ ShapeInv'
  BY <1>1, <1>2 DEF WriterInv, ShapeInv
<1>8. SavedInv' /\ CursorInv(cursor)'
  BY <1>1, <1>2, <1>3, <1>5 DEF SavedInv, CursorInv
<1>9. BatchInv'
  <2>1. batch.cursor # Null /\ BatchOf(file, ino, origin, dead, Versioned, cursor, batch, rows)
        /\ \A r \in rows : IsLast(seen, r.buy, r.ver)
    BY <1>2, <1>3 DEF BatchInv
  <2>2. dead' \cup batch.bad = dead \cup batch.bad /\ batch.bad \subseteq dead'
    BY <1>2
  <2>3. BatchOf(file, ino, origin, dead', Versioned, cursor, batch, rows)
    BY <2>1, <2>2 DEF BatchOf
  <2> QED
    BY <1>2, <1>4, <2>1, <2>2, <2>3 DEF BatchInv
<1>10. QueueInv'
  BY <1>2, <1>3, <1>4 DEF QueueInv, At
<1>11. saving # Null => SavingInv'
  <2> HAVE saving # Null
  <2>1. SavingInv /\ saving.by # "main" /\ saving.by # "refresh"
    BY <1>1, <1>2 DEF SavingInv
  <2>2. CursorInv(saving.cursor)'
    BY <1>2, <1>5, <2>1 DEF CursorInv, SavingInv
  <2> QED
    BY <1>2, <2>1, <2>2 DEF SavingInv
<1> QED
  BY <1>2, <1>6, <1>7, <1>8, <1>9, <1>10, <1>11 DEF RowsInv

LEMMA RawTable ==
  ASSUME Rows!RowsAssumption, RowsInv, Rows!Raw
  PROVE  /\ table' \in [Buys -> Row] /\ cached' \in SUBSET Buys
         /\ \A b \in Buys : table[b].ver > 0 =>
              /\ table'[b].ver > 0 /\ (table'[b].chain = "none" => table[b].chain = "none")
              /\ Versioned => table'[b] = table[b]
         /\ \A r \in rows : table'[r.buy].ver > 0
         /\ ~ rest => \A b \in Buys : table'[b].ver > 0 => table'[b].chain # "none"
<1>1. Rows!TypeOK /\ rows \in SUBSET Rows!Item /\ (\A r \in rows : r.buy \in Buys)
        /\ cached \in SUBSET Buys
      /\ decided \in SUBSET Buys
         /\ (~ rest => \A b \in Buys : table[b].ver > 0 => table[b].chain # "none")
  BY DEF RowsInv, Rows!TypeOK, Rows!Item, ShapeInv
<1>2. PICK heard \in SUBSET Buys :
        /\ table' = IF rest THEN Rows!Inserted(rows) ELSE Rows!Enriched(rows, heard \cup cached)
        /\ IF rest THEN heard = {} /\ UNCHANGED cached
           ELSE heard \cap cached = {} /\ Rows!Heard(heard)
  BY DEF Rows!Raw
<1>3. cached' \in SUBSET Buys
  BY <1>1, <1>2 DEF Rows!Heard
<1>4. CASE rest
  <2>1. table' = Rows!Inserted(rows)
    BY <1>2, <1>4
  <2>2. /\ table' \in [Buys -> Row]
        /\ \A b \in Buys : table[b].ver > 0 => table'[b] = table[b]
        /\ \A b \in Buys : Waiting(rows, b) => table'[b].ver > 0
    BY <1>1, <2>1, InsertedRows
  <2>3. \A r \in rows : Waiting(rows, r.buy)
    BY DEF Waiting
  <2> QED
    BY <1>1, <1>3, <1>4, <2>2, <2>3
<1>5. CASE ~ rest
  <2>1. table' = Rows!Enriched(rows, heard \cup cached)
    BY <1>2, <1>5
  <2>2. /\ table' \in [Buys -> Row]
        /\ \A b \in Buys : IF Waiting(rows, b)
                          THEN table'[b].ver > 0 /\ table'[b].chain # "none"
                          ELSE table'[b] = table[b]
    BY <1>1, <2>1, EnrichedRows
  <2>3. \A r \in rows : Waiting(rows, r.buy)
    BY DEF Waiting
  <2>4. ~ Versioned
    BY <1>5 DEF Versioned
  <2> QED
    BY <1>1, <1>3, <1>5, <2>2, <2>3, <2>4
<1> QED
  BY <1>4, <1>5

LEMMA RawKeeps ==
  ASSUME Rows!RowsAssumption, RowsInv, Rows!Raw
  PROVE  RowsInv'
<1>1. /\ Rows!TypeOK /\ WriterInv /\ ShapeInv /\ SavedInv
      /\ saving # Null => SavingInv
  BY DEF RowsInv
<1>2. /\ pc = "raw" /\ pc # "down" /\ pc' = "commit" /\ dead' = dead
      /\ decided' = decided /\ done' = done /\ writing' = writing /\ file' = file /\ ino' = ino
      /\ rest' = rest /\ chunk' = chunk /\ saved' = saved /\ origin' = origin /\ cursor' = cursor
      /\ saving' = saving /\ seen' = seen /\ batch' = batch /\ rows' = rows
      /\ queue' = queue
  BY DEF Rows!Raw, Rows!worker, Rows!settings
<1>3. /\ cursor # Null /\ cursor \in Rows!Cursor /\ CursorInv(cursor) /\ BatchInv /\ QueueInv
      /\ origin # Null
  BY <1>2, InLoop
<1>4. /\ table' \in [Buys -> Row] /\ cached' \in SUBSET Buys
      /\ \A b \in Buys : table[b].ver > 0 =>
           /\ table'[b].ver > 0 /\ (table'[b].chain = "none" => table[b].chain = "none")
           /\ Versioned => table'[b] = table[b]
      /\ \A r \in rows : table'[r.buy].ver > 0
      /\ ~ rest => \A b \in Buys : table'[b].ver > 0 => table'[b].chain # "none"
  BY RawTable
<1>5. Versioned' = Versioned
  BY <1>2 DEF Versioned
<1>6. ASSUME NEW c \in Rows!Cursor, CursorInv(c)
      PROVE  CursorOf(file', ino', origin', dead', table', queue', Versioned', c)
  <2> DEFINE u == table'
  <2>1. Moved(table, u, queue, Versioned)
    BY <1>4 DEF Moved
  <2> HIDE DEF u
  <2>2. CursorOf(file, ino, origin, dead, u, queue, Versioned, c)
    BY <1>2, <1>6, <2>1, TableMoves
  <2> QED
    BY <1>2, <1>5, <2>2 DEF u
<1>7. Rows!TypeOK'
  BY <1>1, <1>2, <1>4 DEF Rows!TypeOK, Row
<1>8. WriterInv' /\ ShapeInv'
  BY <1>1, <1>2, <1>4 DEF WriterInv, ShapeInv
<1>9. SavedInv' /\ CursorInv(cursor)'
  <2>1. CursorInv(cursor)'
    BY <1>2, <1>3, <1>6 DEF CursorInv
  <2>2. saved # Null => saved \in Rows!Cursor /\ CursorInv(saved)
    BY <1>1 DEF SavedInv, Rows!TypeOK
  <2>3. saved # Null => CursorInv(saved)'
    BY <1>2, <1>6, <2>2 DEF CursorInv
  <2> QED
    BY <1>1, <1>2, <2>1, <2>3 DEF SavedInv
<1>10. BatchInv'
  BY <1>2, <1>3, <1>4, <1>5 DEF BatchInv
<1>11. QueueInv'
  BY <1>2, <1>3, <1>5 DEF QueueInv, At
<1>12. saving # Null => SavingInv'
  <2> HAVE saving # Null
  <2>1. SavingInv /\ saving.by # "main" /\ saving.by # "refresh" /\ saving.cursor \in Rows!Cursor
    BY <1>1, <1>2 DEF SavingInv, Rows!TypeOK, Rows!Saving
  <2>2. CursorInv(saving.cursor)'
    BY <1>2, <1>6, <2>1 DEF CursorInv, SavingInv
  <2> QED
    BY <1>2, <2>1, <2>2 DEF SavingInv
<1> QED
  BY <1>2, <1>7, <1>8, <1>9, <1>10, <1>11, <1>12 DEF RowsInv

LEMMA NoRefreshKeeps ==
  ASSUME Rows!RowsAssumption, RowsInv, Rows!NoRefresh
  PROVE  RowsInv'
<1>1. /\ Rows!TypeOK /\ WriterInv /\ ShapeInv /\ SavedInv
      /\ saving # Null => SavingInv
  BY DEF RowsInv
<1>2. /\ pc = "refresh" /\ pc # "down" /\ pc' = "stat" /\ dead' = dead
      /\ decided' = decided /\ done' = done /\ writing' = writing /\ file' = file /\ ino' = ino
      /\ rest' = rest /\ chunk' = chunk /\ saved' = saved /\ origin' = origin /\ cursor' = cursor
      /\ saving' = saving /\ seen' = seen /\ batch' = batch /\ rows' = rows
      /\ queue' = queue /\ cached' = cached /\ table' = table
      /\ saving = Null \/ saving.by = "enrich"
  BY DEF Rows!NoRefresh, Rows!worker, Rows!settings, Rows!store, Rows!Acknowledging
<1>3. cursor # Null /\ CursorInv(cursor) /\ BatchInv /\ QueueInv
  BY <1>2, InLoop
<1>4. Versioned' = Versioned
  BY <1>2 DEF Versioned
<1>5. Rows!TypeOK' /\ WriterInv' /\ ShapeInv'
  BY <1>1, <1>2 DEF Rows!TypeOK, WriterInv, ShapeInv
<1>6. SavedInv' /\ CursorInv(cursor)'
  BY <1>1, <1>2, <1>3, <1>4 DEF SavedInv, CursorInv
<1>7. BatchInv'
  BY <1>2, <1>3 DEF BatchInv
<1>8. QueueInv'
  BY <1>2, <1>3, <1>4 DEF QueueInv, At
<1>9. saving # Null => SavingInv'
  <2> HAVE saving # Null
  <2>1. SavingInv
    BY <1>1
  <2>2. CursorInv(saving.cursor)'
    BY <1>2, <1>4, <2>1 DEF CursorInv, SavingInv
  <2> QED
    BY <1>2, <2>1, <2>2 DEF SavingInv
<1> QED
  BY <1>2, <1>5, <1>6, <1>7, <1>8, <1>9 DEF RowsInv

\* What a lookup of the rows at the head of the queue does to the table.
LEMMA HeadTable ==
  ASSUME Rows!RowsAssumption, RowsInv, pc # "down", queue # <<>>, NEW heard
  PROVE  LET u == Rows!Enriched(Head(queue), heard)
         IN /\ u \in [Buys -> Row] /\ Head(queue) = queue[1] /\ Head(queue) \in SUBSET Rows!Item
            /\ Moved(table, u, queue, Versioned)
            /\ \A b \in Buys : table[b].ver > 0 => u[b].ver > 0
            /\ ~ rest => \A b \in Buys : u[b].ver > 0 => u[b].chain # "none"
            /\ LookedUp(table, u, queue[1])
<1> DEFINE u == Rows!Enriched(Head(queue), heard)
<1>1. /\ Rows!TypeOK /\ queue \in Seq(SUBSET Rows!Item) /\ table \in [Buys -> Row]
      /\ ~ rest => \A b \in Buys : table[b].ver > 0 => table[b].chain # "none"
  BY InLoop DEF RowsInv, ShapeInv
<1>2. Head(queue) = queue[1] /\ Head(queue) \in SUBSET Rows!Item /\ 1 \in DOMAIN queue
  BY <1>1, TailOf
<1>3. /\ u \in [Buys -> Row]
      /\ \A b \in Buys : IF Waiting(queue[1], b)
                        THEN /\ u[b].ver > 0 /\ u[b].chain # "none"
                             /\ \E r \in queue[1] : r.buy = b /\ u[b].ver = r.ver
                        ELSE u[b] = table[b]
  BY <1>1, <1>2, EnrichedRows
<1> HIDE DEF u
<1>4. Moved(table, u, queue, Versioned)
  BY <1>2, <1>3 DEF Moved
<1>5. \A b \in Buys : table[b].ver > 0 => u[b].ver > 0
  BY <1>3
<1>6. ~ rest => \A b \in Buys : u[b].ver > 0 => u[b].chain # "none"
  BY <1>1, <1>3
<1>7. LookedUp(table, u, queue[1])
  BY <1>3 DEF LookedUp
<1> QED
  BY <1>2, <1>3, <1>4, <1>5, <1>6, <1>7 DEF u

LEMMA EnrichFailsTable ==
  ASSUME Rows!RowsAssumption, RowsInv, Rows!EnrichFails
  PROVE  /\ table' \in [Buys -> Row] /\ Moved(table, table', queue, Versioned)
         /\ \A b \in Buys : table[b].ver > 0 => table'[b].ver > 0
         /\ ~ rest => \A b \in Buys : table'[b].ver > 0 => table'[b].chain # "none"
<1>1. pc # "down" /\ queue # <<>> /\ table' \in {table, Rows!Enriched(Head(queue), cached)}
  BY DEF Rows!EnrichFails
<1>2. CASE table' = table
  <2>1. /\ table \in [Buys -> Row]
        /\ ~ rest => \A b \in Buys : table[b].ver > 0 => table[b].chain # "none"
    BY <1>1, InLoop DEF RowsInv, ShapeInv
  <2>2. Moved(table, table, queue, Versioned)
    BY DEF Moved
  <2> QED
    BY <1>2, <2>1, <2>2
<1>3. CASE table' = Rows!Enriched(Head(queue), cached)
  BY <1>1, <1>3, HeadTable
<1> QED
  BY <1>1, <1>2, <1>3

LEMMA EnrichFailsKeeps ==
  ASSUME Rows!RowsAssumption, RowsInv, Rows!EnrichFails
  PROVE  RowsInv'
<1>1. /\ Rows!TypeOK /\ WriterInv /\ ShapeInv /\ SavedInv
      /\ saving # Null => SavingInv
  BY DEF RowsInv
<1>2. /\ pc # "down" /\ pc' = pc /\ dead' = dead /\ queue # <<>> /\ queue' = Tail(queue)
      /\ decided' = decided /\ done' = done /\ writing' = writing /\ file' = file /\ ino' = ino
      /\ rest' = rest /\ chunk' = chunk /\ saved' = saved /\ origin' = origin /\ cursor' = cursor
      /\ seen' = seen /\ batch' = batch /\ rows' = rows /\ cached' = cached
      /\ saving' = Null \/ (saving' = saving /\ ~ Rows!Acknowledging)
  BY DEF Rows!EnrichFails, Rows!worker, Rows!settings, Rows!loop
<1>3. /\ cursor # Null /\ cursor \in Rows!Cursor /\ CursorInv(cursor) /\ BatchInv /\ QueueInv
      /\ origin # Null /\ queue \in Seq(SUBSET Rows!Item) /\ rows \in SUBSET Rows!Item
  BY <1>2, InLoop
<1>4. /\ table' \in [Buys -> Row] /\ Moved(table, table', queue, Versioned)
      /\ \A b \in Buys : table[b].ver > 0 => table'[b].ver > 0
      /\ ~ rest => \A b \in Buys : table'[b].ver > 0 => table'[b].chain # "none"
  BY EnrichFailsTable
<1>5. Versioned' = Versioned
  BY <1>2 DEF Versioned
<1>6. /\ Tail(queue) \in Seq(SUBSET Rows!Item)
      /\ \A i \in DOMAIN Tail(queue) : \E j \in DOMAIN queue : Tail(queue)[i] = queue[j]
  BY <1>2, <1>3, TailOf
<1>7. ASSUME NEW c \in Rows!Cursor, CursorInv(c)
      PROVE  CursorOf(file', ino', origin', dead', table', queue', Versioned', c)
  <2> DEFINE u == table'
             r == Tail(queue)
  <2>1. Moved(table, u, queue, Versioned) /\ \A i \in DOMAIN r : \E j \in DOMAIN queue :
          r[i] = queue[j]
    BY <1>4, <1>6
  <2> HIDE DEF u, r
  <2>2. CursorOf(file, ino, origin, dead, u, r, Versioned, c)
    BY <1>2, <1>7, <2>1, TableMoves
  <2> QED
    BY <1>2, <1>5, <2>2 DEF u, r
<1>8. Rows!TypeOK'
  BY <1>1, <1>2, <1>4, <1>6 DEF Rows!TypeOK, Row
<1>9. WriterInv' /\ ShapeInv'
  BY <1>1, <1>2, <1>3, <1>4 DEF WriterInv, ShapeInv
<1>10. SavedInv' /\ CursorInv(cursor)'
  <2>1. CursorInv(cursor)'
    BY <1>2, <1>3, <1>7 DEF CursorInv
  <2>2. saved # Null => saved \in Rows!Cursor /\ CursorInv(saved)
    BY <1>1 DEF SavedInv, Rows!TypeOK
  <2>3. saved # Null => CursorInv(saved)'
    BY <1>2, <1>7, <2>2 DEF CursorInv
  <2> QED
    BY <1>1, <1>2, <2>1, <2>3 DEF SavedInv
<1>11. BatchInv'
  <2>1. \A r \in rows : r.buy \in Buys
    BY <1>3 DEF Rows!Item
  <2> QED
    BY <1>2, <1>3, <1>4, <1>5, <2>1 DEF BatchInv
<1>12. QueueInv'
  <2> SUFFICES ASSUME Versioned
               PROVE  /\ ContextOf(file, origin, Tail(queue), At, seen)
                      /\ QueueOf(file, Tail(queue), cursor.at)
    BY <1>2, <1>5 DEF QueueInv, At
  <2>1. ContextOf(file, origin, queue, At, seen) /\ QueueOf(file, queue, cursor.at)
    BY <1>3 DEF QueueInv
  <2> QED
    BY <1>2, <1>3, <1>6, <2>1, ContextQueue, QueueGoesOn
<1>13. saving' # Null => SavingInv'
  <2> HAVE saving' # Null
  <2>1. SavingInv /\ saving.cursor \in Rows!Cursor /\ saving' = saving /\ saving.by # "enrich"
    BY <1>1, <1>2 DEF Rows!TypeOK, Rows!Saving, Rows!Acknowledging
  <2>2. CursorInv(saving.cursor)'
    BY <1>2, <1>7, <2>1 DEF CursorInv, SavingInv
  <2> QED
    BY <1>2, <2>1, <2>2 DEF SavingInv
<1> QED
  BY <1>2, <1>8, <1>9, <1>10, <1>11, <1>12, <1>13 DEF RowsInv

LEMMA EnrichKeeps ==
  ASSUME Rows!RowsAssumption, RowsInv, Rows!Enrich
  PROVE  RowsInv'
<1>1. /\ Rows!TypeOK /\ WriterInv /\ ShapeInv /\ SavedInv
  BY DEF RowsInv
<1>2. /\ pc # "down" /\ pc' = pc /\ dead' = dead /\ queue # <<>> /\ queue' = queue
      /\ decided' = decided /\ done' = done /\ writing' = writing /\ file' = file /\ ino' = ino
      /\ rest' = rest /\ chunk' = chunk /\ saved' = saved /\ origin' = origin /\ cursor' = cursor
      /\ seen' = seen /\ batch' = batch /\ rows' = rows
      /\ saving' = [by |-> "enrich", cursor |-> [cursor EXCEPT !.pending = @ \ Head(queue)]]
  BY DEF Rows!Enrich, Rows!worker, Rows!settings, Rows!loop
<1>3. PICK heard \in SUBSET ({r.buy : r \in {x \in Head(queue) : ~ x.side}} \ cached) :
        Rows!Heard(heard) /\ table' = Rows!Enriched(Head(queue), heard \cup cached)
  BY DEF Rows!Enrich
<1>4. /\ cursor # Null /\ cursor \in Rows!Cursor /\ CursorInv(cursor) /\ BatchInv /\ QueueInv
      /\ origin # Null /\ queue \in Seq(SUBSET Rows!Item) /\ rows \in SUBSET Rows!Item
      /\ file \in Seq(Rows!Block) /\ ino \in Nat /\ origin \in Nat /\ table \in [Buys -> Row]
      /\ Versioned \in BOOLEAN /\ (Versioned => ino = 1)
      /\ CursorOf(file, ino, origin, dead, table, queue, Versioned, cursor)
  BY <1>2, InLoop
<1>5. /\ table' \in [Buys -> Row] /\ Head(queue) = queue[1] /\ Head(queue) \in SUBSET Rows!Item
      /\ Moved(table, table', queue, Versioned)
      /\ \A b \in Buys : table[b].ver > 0 => table'[b].ver > 0
      /\ ~ rest => \A b \in Buys : table'[b].ver > 0 => table'[b].chain # "none"
      /\ LookedUp(table, table', queue[1])
  BY <1>2, <1>3, HeadTable
<1>6. Versioned' = Versioned
  BY <1>2 DEF Versioned
<1>7. ASSUME NEW c \in Rows!Cursor, CursorInv(c)
      PROVE  CursorOf(file', ino', origin', dead', table', queue', Versioned', c)
  <2> DEFINE u == table'
  <2>1. Moved(table, u, queue, Versioned)
        /\ \A i \in DOMAIN queue : \E j \in DOMAIN queue : queue[i] = queue[j]
    BY <1>5
  <2> HIDE DEF u
  <2>2. CursorOf(file, ino, origin, dead, u, queue, Versioned, c)
    BY <1>2, <1>7, <2>1, TableMoves
  <2> QED
    BY <1>2, <1>6, <2>2 DEF u
<1>8. cached' \in SUBSET Buys
  BY <1>1, <1>3 DEF Rows!Heard, Rows!TypeOK
<1>9. saving' \in Rows!Saving
  <2>1. cursor.pending \ Head(queue) \in SUBSET Rows!Item
    BY <1>4 DEF Rows!Cursor
  <2>2. [cursor EXCEPT !.pending = @ \ Head(queue)] \in Rows!Cursor
    BY <1>4, <2>1 DEF Rows!Cursor
  <2> QED
    BY <1>2, <2>2 DEF Rows!Saving
<1>10. Rows!TypeOK'
  BY <1>1, <1>2, <1>5, <1>8, <1>9 DEF Rows!TypeOK, Row
<1>11. WriterInv' /\ ShapeInv'
  BY <1>1, <1>2, <1>4, <1>5 DEF WriterInv, ShapeInv
<1>12. SavedInv' /\ CursorInv(cursor)'
  <2>1. CursorInv(cursor)'
    BY <1>2, <1>4, <1>7 DEF CursorInv
  <2>2. saved # Null => saved \in Rows!Cursor /\ CursorInv(saved)
    BY <1>1 DEF SavedInv, Rows!TypeOK
  <2>3. saved # Null => CursorInv(saved)'
    BY <1>2, <1>7, <2>2 DEF CursorInv
  <2> QED
    BY <1>1, <1>2, <2>1, <2>3 DEF SavedInv
<1>13. BatchInv'
  <2>1. \A r \in rows : r.buy \in Buys
    BY <1>4 DEF Rows!Item
  <2> QED
    BY <1>2, <1>4, <1>5, <1>6, <2>1 DEF BatchInv
<1>14. QueueInv'
  BY <1>2, <1>4, <1>6 DEF QueueInv, At
<1>15. SavingInv'
  <2> DEFINE u == table'
             first == Versioned
  <2>1. LookedUp(table, u, queue[1])
    BY <1>5
  <2>2. first => HeadFirst(queue)
    <3> HAVE first
    <3>1. QueueOf(file, queue, cursor.at) /\ 1 \in DOMAIN queue /\ \A i \in DOMAIN queue : 1 <= i
      BY <1>2, <1>4 DEF QueueInv
    <3> QED
      BY <3>1 DEF QueueOf, HeadFirst
  <2>3. first \in BOOLEAN /\ (first => ino = 1)
        /\ CursorOf(file, ino, origin, dead, table, queue, first, cursor)
    BY <1>4
  <2> HIDE DEF u, first
  <2>4. CursorOf(file, ino, origin, dead, u, queue, first,
                 [cursor EXCEPT !.pending = cursor.pending \ queue[1]])
    BY <1>2, <1>4, <2>1, <2>2, <2>3, CursorAcknowledges
  <2>5. saving'.cursor = [cursor EXCEPT !.pending = cursor.pending \ queue[1]]
          /\ saving'.by = "enrich"
    BY <1>2, <1>5
  <2>6. CursorInv(saving.cursor)'
    BY <1>2, <1>6, <2>4, <2>5 DEF CursorInv, u, first
  <2>7. saving'.cursor.ino = cursor'.ino /\ saving'.cursor.at = cursor'.at
    BY <1>2, <1>4, <2>5 DEF Rows!Cursor
  <2> QED
    BY <1>2, <2>5, <2>6, <2>7 DEF SavingInv
<1> QED
  BY <1>2, <1>10, <1>11, <1>12, <1>13, <1>14, <1>15 DEF RowsInv

\* Only what is being saved changes.
LEMMA SavingChanges ==
  ASSUME Rows!RowsAssumption, RowsInv, saving' \in Rows!Saving, SavingInv',
         UNCHANGED <<Rows!worker, Rows!settings, saved, origin, cursor, Rows!loop, queue, cached,
                     Rows!store>>,
         cursor # Null
  PROVE  RowsInv'
<1>1. /\ Rows!TypeOK /\ WriterInv /\ ShapeInv /\ SavedInv /\ CursorInv(cursor) /\ BatchInv
         /\ QueueInv
  BY DEF RowsInv
<1>2. /\ pc' = pc /\ dead' = dead /\ queue' = queue /\ table' = table /\ cached' = cached
      /\ decided' = decided /\ done' = done /\ writing' = writing /\ file' = file /\ ino' = ino
      /\ rest' = rest /\ chunk' = chunk /\ saved' = saved /\ origin' = origin /\ cursor' = cursor
      /\ seen' = seen /\ batch' = batch /\ rows' = rows
  BY DEF Rows!worker, Rows!settings, Rows!loop, Rows!store
<1>3. Versioned' = Versioned
  BY <1>2 DEF Versioned
<1>4. Rows!TypeOK' /\ WriterInv' /\ ShapeInv'
  BY <1>1, <1>2 DEF Rows!TypeOK, WriterInv, ShapeInv
<1>5. SavedInv' /\ CursorInv(cursor)'
  BY <1>1, <1>2, <1>3 DEF SavedInv, CursorInv
<1>6. BatchInv' /\ QueueInv'
  BY <1>1, <1>2, <1>3 DEF BatchInv, QueueInv, At
<1> QED
  BY <1>4, <1>5, <1>6 DEF RowsInv

LEMMA RefreshKeeps ==
  ASSUME Rows!RowsAssumption, RowsInv, Rows!Refresh
  PROVE  RowsInv'
<1> DEFINE items == Rows!RefreshRows(seen)
           n == [cursor EXCEPT !.pending = Rows!Over(items, cursor.pending)]
<1>1. /\ pc = "refresh" /\ pc # "down" /\ pc' = pc
      /\ saving' = [by |-> "refresh", cursor |-> n]
      /\ UNCHANGED <<Rows!worker, Rows!settings, saved, origin, cursor, Rows!loop, queue, cached,
                     Rows!store>>
  BY DEF Rows!Refresh, Rows!loop
<1>2. /\ cursor # Null /\ cursor \in Rows!Cursor /\ CursorInv(cursor) /\ BatchInv /\ QueueInv
      /\ queue \in Seq(SUBSET Rows!Item) /\ seen \in Seq(Rows!Line) /\ cursor.at \in Nat
      /\ file \in Seq(Rows!Block) /\ ino \in Nat /\ origin \in Nat /\ table \in [Buys -> Row]
      /\ Versioned \in BOOLEAN /\ (Versioned => ino = 1)
      /\ CursorOf(file, ino, origin, dead, table, queue, Versioned, cursor)
      /\ Placed(file, ino, origin, cursor, dead)
  BY <1>1, InLoop
<1>3. items \in SUBSET Rows!Item /\ LastIn(seen, items)
  BY <1>2, RefreshRowsLast DEF LastIn
<1> HIDE DEF items
<1>4. At = cursor.at
  BY <1>1, <1>2 DEF BatchInv, At
<1>5. Versioned => cursor.at <= cursor.at /\ ContextOf(file, origin, queue, cursor.at, seen)
  BY <1>2, <1>4 DEF QueueInv
<1>6. cursor.ino = ino => New(file, ino, origin, cursor, cursor.at) = {}
  <2>1. Rows!Ends(file) \subseteq 1 .. Len(file) /\ Len(file) \in Nat
    BY <1>2, EndsOf
  <2> QED
    BY <1>2, <2>1 DEF New, Before
<1>7. NewStored(file, ino, origin, dead, table, cursor, cursor, items)
  BY <1>6 DEF NewStored, Broken, RowsOf
<1>8. CursorOf(file, ino, origin, dead, table, queue, Versioned, n)
  <2> DEFINE first == Versioned
             to == cursor
  <2>1. /\ first \in BOOLEAN /\ (first => ino = 1)
        /\ CursorOf(file, ino, origin, dead, table, queue, first, cursor)
        /\ (first => cursor.at <= to.at /\ ContextOf(file, origin, queue, to.at, seen))
        /\ to \in Rows!Cursor /\ Placed(file, ino, origin, to, dead)
        /\ NewStored(file, ino, origin, dead, table, cursor, to, items)
    BY <1>2, <1>5, <1>7
  <2> HIDE DEF first, to
  <2>2. CursorOf(file, ino, origin, dead, table, queue, first,
                 [to EXCEPT !.pending = Rows!Over(items, cursor.pending)])
    BY <1>2, <1>3, <2>1, CursorPends
  <2> QED
    BY <2>2 DEF first, to
<1>9. n \in Rows!Cursor /\ n.ino = cursor.ino /\ n.at = cursor.at
  <2>1. Rows!Over(items, cursor.pending) \in SUBSET Rows!Item
    BY <1>2, <1>3, OverEither DEF Rows!Cursor
  <2> QED
    BY <1>2, <2>1 DEF Rows!Cursor
<1> HIDE DEF n
<1>10. saving' \in Rows!Saving /\ saving'.cursor = n /\ saving'.by = "refresh"
  BY <1>1, <1>9 DEF Rows!Saving
<1>11. SavingInv'
  <2>1. /\ dead' = dead /\ queue' = queue /\ table' = table /\ pc' = pc
        /\ file' = file /\ ino' = ino /\ rest' = rest /\ origin' = origin /\ cursor' = cursor
        /\ Versioned' = Versioned
    BY <1>1 DEF Rows!worker, Rows!settings, Rows!store, Versioned
  <2>2. CursorInv(saving.cursor)'
    BY <1>8, <1>10, <2>1 DEF CursorInv
  <2> QED
    BY <1>1, <1>9, <1>10, <2>1, <2>2 DEF SavingInv
<1> QED
  BY <1>1, <1>2, <1>10, <1>11, SavingChanges

LEMMA CommitKeeps ==
  ASSUME Rows!RowsAssumption, RowsInv, Rows!Commit
  PROVE  RowsInv'
<1> DEFINE pending == IF rest THEN Rows!Over(rows, cursor.pending) ELSE cursor.pending
           n == [batch.cursor EXCEPT !.pending = pending]
<1>1. /\ pc = "commit" /\ pc # "down" /\ pc' = pc
      /\ saving' = [by |-> "main", cursor |-> n]
      /\ UNCHANGED <<Rows!worker, Rows!settings, saved, origin, cursor, Rows!loop, queue, cached,
                     Rows!store>>
  BY DEF Rows!Commit, Rows!loop
<1>2. /\ cursor # Null /\ cursor \in Rows!Cursor /\ CursorInv(cursor) /\ BatchInv /\ QueueInv
      /\ queue \in Seq(SUBSET Rows!Item) /\ seen \in Seq(Rows!Line) /\ cursor.at \in Nat
      /\ rows \in SUBSET Rows!Item
      /\ file \in Seq(Rows!Block) /\ ino \in Nat /\ origin \in Nat /\ table \in [Buys -> Row]
      /\ Versioned \in BOOLEAN /\ (Versioned => ino = 1 /\ rest)
      /\ CursorOf(file, ino, origin, dead, table, queue, Versioned, cursor)
      /\ Placed(file, ino, origin, cursor, dead)
  BY <1>1, InLoop
<1>3. /\ batch.cursor # Null /\ batch.cursor \in Rows!Cursor /\ batch.cursor.at \in Nat
      /\ BatchOf(file, ino, origin, dead, Versioned, cursor, batch, rows)
      /\ batch.bad \subseteq dead /\ dead \cup batch.bad = dead
      /\ \A r \in rows : table[r.buy].ver > 0 /\ IsLast(seen, r.buy, r.ver)
  <2>1. batch.cursor # Null
    BY <1>1, <1>2 DEF BatchInv
  <2>2. batch.cursor \in Rows!Cursor
    BY <2>1 DEF RowsInv, Rows!TypeOK, Rows!Batch
  <2> QED
    BY <1>1, <1>2, <2>1, <2>2 DEF BatchInv, Rows!Cursor
<1> DEFINE to == batch.cursor
<1>4. /\ to \in Rows!Cursor /\ to.at \in Nat /\ Placed(file, ino, origin, to, dead)
      /\ NewStored(file, ino, origin, dead, table, cursor, to, rows)
      /\ Versioned => cursor.at <= to.at /\ ContextOf(file, origin, queue, to.at, seen)
  <2>1. Placed(file, ino, origin, to, dead)
    BY <1>3 DEF BatchOf
  <2>2. to.ino = ino =>
          /\ Broken(file, ino, New(file, ino, origin, cursor, to.at)) \subseteq dead
          /\ \A line \in RowsOf(file, New(file, ino, origin, cursor, to.at)) :
             Waiting(rows, line.buy)
    BY <1>3 DEF BatchOf, New
  <2>3. ASSUME to.ino = ino, NEW line \in RowsOf(file, New(file, ino, origin, cursor, to.at))
        PROVE  table[line.buy].ver > 0
    <3>1. Waiting(rows, line.buy)
      BY <2>2, <2>3
    <3> QED
      BY <1>3, <3>1 DEF Waiting
  <2>4. Versioned => cursor.at <= to.at
    BY <1>2, <1>3 DEF BatchOf
  <2>5. Versioned => ContextOf(file, origin, queue, to.at, seen)
    BY <1>2, <1>3 DEF QueueInv, At
  <2>6. NewStored(file, ino, origin, dead, table, cursor, to, rows)
    BY <2>2, <2>3 DEF NewStored
  <2> QED
    BY <1>3, <2>1, <2>4, <2>5, <2>6
<1>5. CursorOf(file, ino, origin, dead, table, queue, Versioned, n)
  <2>1. CASE rest
    <3> DEFINE first == Versioned
    <3> HIDE DEF to
    <3>1. first \in BOOLEAN /\ (first => ino = 1)
          /\ CursorOf(file, ino, origin, dead, table, queue, first, cursor)
          /\ (first => cursor.at <= to.at /\ ContextOf(file, origin, queue, to.at, seen))
          /\ LastIn(seen, rows)
      BY <1>2, <1>3, <1>4 DEF LastIn
    <3> HIDE DEF first
    <3>2. CursorOf(file, ino, origin, dead, table, queue, first,
                   [to EXCEPT !.pending = Rows!Over(rows, cursor.pending)])
      BY <1>2, <1>4, <3>1, CursorPends
    <3> QED
      BY <2>1, <3>2 DEF first, to
  <2>2. CASE ~ rest
    <3>1. Versioned = FALSE
      BY <1>2, <2>2
    <3>2. \A b \in Buys : table[b].ver > 0 => table[b].chain # "none"
      BY <2>2 DEF RowsInv, ShapeInv
    <3>3. CursorOf(file, ino, origin, dead, table, queue, FALSE, cursor)
      BY <1>2, <3>1
    <3> HIDE DEF to
    <3>4. CursorOf(file, ino, origin, dead, table, queue, FALSE,
                   [to EXCEPT !.pending = cursor.pending])
      BY <1>2, <1>4, <3>2, <3>3, CursorPasses
    <3> QED
      BY <2>2, <3>1, <3>4 DEF to
  <2> QED
    BY <2>1, <2>2
<1>6. n \in Rows!Cursor /\ n.ino = batch.cursor.ino /\ n.at = batch.cursor.at
  <2>1. pending \in SUBSET Rows!Item
    BY <1>2, OverEither DEF Rows!Cursor
  <2> HIDE DEF pending, to
  <2> QED
    BY <1>3, <2>1 DEF Rows!Cursor
<1> HIDE DEF n
<1>7. saving' \in Rows!Saving /\ saving'.cursor = n /\ saving'.by = "main"
  BY <1>1, <1>6 DEF Rows!Saving
<1>8. SavingInv'
  <2>1. /\ dead' = dead /\ queue' = queue /\ table' = table /\ pc' = pc /\ batch' = batch
        /\ file' = file /\ ino' = ino /\ rest' = rest /\ origin' = origin /\ cursor' = cursor
        /\ Versioned' = Versioned
    BY <1>1 DEF Rows!worker, Rows!settings, Rows!store, Rows!loop, Versioned
  <2>2. CursorInv(saving.cursor)'
    BY <1>5, <1>7, <2>1 DEF CursorInv
  <2> QED
    BY <1>1, <1>6, <1>7, <2>1, <2>2 DEF SavingInv
<1> QED
  BY <1>1, <1>2, <1>7, <1>8, SavingChanges

\* Some rows of the context are queued behind the others, and a cursor is at its end.
LEMMA Queued ==
  ASSUME Rows!RowsAssumption, RowsInv, pc # "down", NEW items \in SUBSET Rows!Item,
         LastIn(seen, items),
         NEW n \in Rows!Cursor, CursorInv(n), Versioned => n.at = At
  PROVE  /\ CursorOf(file, ino, origin, dead, table, Append(queue, items), Versioned, n)
         /\ Versioned => /\ ContextOf(file, origin, Append(queue, items), n.at, seen)
                         /\ QueueOf(file, Append(queue, items), n.at)
<1> DEFINE r == Append(queue, items)
<1>1. /\ CursorInv(cursor) /\ BatchInv /\ QueueInv /\ cursor.at \in Nat
      /\ queue \in Seq(SUBSET Rows!Item) /\ seen \in Seq(Rows!Line) /\ file \in Seq(Rows!Block)
  BY InLoop
<1>2. Versioned => cursor.at <= At
  <2>1. CASE batch.cursor = Null
    BY <1>1, <2>1 DEF At
  <2>2. CASE batch.cursor # Null
    <3>1. batch.cursor.at \in Nat
      BY <2>2 DEF RowsInv, Rows!TypeOK, Rows!Batch, Rows!Cursor
    <3>2. Versioned => batch.cursor.at > cursor.at
      BY <1>1, <2>2 DEF BatchInv, BatchOf
    <3> QED
      BY <1>1, <2>2, <3>1, <3>2 DEF At
  <2> QED
    BY <2>1, <2>2
<1>3. n.at \in Nat /\ \A x \in items : IsLast(seen, x.buy, x.ver)
  BY DEF Rows!Cursor, LastIn
<1>4. ASSUME Versioned
      PROVE  /\ ContextOf(file, origin, r, n.at, seen) /\ QueueOf(file, r, n.at)
             /\ Behind(RowsOf(file, Before(file, origin, n.at)), n.pending, items)
  <2>1. ContextOf(file, origin, queue, n.at, seen) /\ QueueOf(file, queue, cursor.at)
        /\ cursor.at <= n.at
    BY <1>1, <1>2, <1>4 DEF QueueInv
  <2> HIDE DEF r
  <2>2. QueueOf(file, Append(queue, items), n.at)
    BY <1>1, <1>3, <2>1, QueueAppended
  <2>3. ContextOf(file, origin, Append(queue, items), n.at, seen)
    BY <1>1, <1>3, <2>1, QueueAppended
  <2>4. Behind(RowsOf(file, Before(file, origin, n.at)), n.pending, items)
    BY <1>1, <1>3, <2>1, QueueAppended
  <2> QED
    BY <2>2, <2>3, <2>4 DEF r
<1>5. CursorOf(file, ino, origin, dead, table, queue, Versioned, n)
  BY DEF CursorInv
<1>6. Versioned => \A i \in DOMAIN r :
        Behind(RowsOf(file, Before(file, origin, n.at)), n.pending, r[i])
  <2> HAVE Versioned
  <2>1. \A i \in DOMAIN queue :
          Behind(RowsOf(file, Before(file, origin, n.at)), n.pending, queue[i])
    BY <1>5 DEF CursorOf, Current
  <2>2. \A i \in DOMAIN r : (i \in DOMAIN queue /\ r[i] = queue[i]) \/ r[i] = items
    BY <1>1, AppendOf
  <2> QED
    BY <1>4, <2>1, <2>2
<1> DEFINE first == Versioned
<1> HIDE DEF r, first
<1>7. CursorOf(file, ino, origin, dead, table, queue, first, n)
      /\ (first => \A i \in DOMAIN r :
          Behind(RowsOf(file, Before(file, origin, n.at)), n.pending, r[i]))
  BY <1>5, <1>6 DEF first
<1>8. CursorOf(file, ino, origin, dead, table, r, first, n)
  BY <1>7, CursorQueue
<1> QED
  BY <1>4, <1>8 DEF r, first

\* The queue, its cursor and the context after a save.
Saved(r, n) ==
  /\ r \in Seq(SUBSET Rows!Item)
  /\ CursorOf(file, ino, origin, dead, table, r, Versioned, n)
  /\ Versioned => QueueOf(file, r, n.at)

LEMMA SaveMain ==
  ASSUME Rows!RowsAssumption, RowsInv, Rows!Save, saving.by = "main"
  PROVE  /\ Saved(queue', saving.cursor)
         /\ Versioned => ContextOf(file, origin, queue', saving.cursor.at, seen)
<1> DEFINE n == saving.cursor
<1>1. saving # Null /\ pc # "down" /\ SavingInv /\ n \in Rows!Cursor /\ CursorInv(n)
  BY DEF Rows!Save, RowsInv, ShapeInv, SavingInv, Rows!TypeOK, Rows!Saving
<1>2. queue' = IF rest /\ rows # {} THEN Append(queue, rows) ELSE queue
  BY DEF Rows!Save
<1>3. /\ BatchInv /\ QueueInv /\ rows \in SUBSET Rows!Item /\ queue \in Seq(SUBSET Rows!Item)
      /\ cursor.at \in Nat /\ file \in Seq(Rows!Block)
  BY <1>1, InLoop
<1>4. /\ batch.cursor # Null /\ n.at = batch.cursor.at /\ LastIn(seen, rows)
      /\ n.at = At
  BY <1>1, <1>3 DEF SavingInv, BatchInv, LastIn, At
<1>5. n.at \in Nat
  BY <1>1 DEF Rows!Cursor
<1> HIDE DEF n
<1>6. CASE queue' = Append(queue, rows)
  <2>1. /\ CursorOf(file, ino, origin, dead, table, Append(queue, rows), Versioned, n)
        /\ Versioned => /\ ContextOf(file, origin, Append(queue, rows), n.at, seen)
                        /\ QueueOf(file, Append(queue, rows), n.at)
    BY <1>1, <1>3, <1>4, Queued
  <2>2. Append(queue, rows) \in Seq(SUBSET Rows!Item)
    BY <1>3, AppendOf
  <2> QED
    BY <1>6, <2>1, <2>2 DEF Saved, n
<1>7. CASE queue' = queue
  <2>1. CursorOf(file, ino, origin, dead, table, queue, Versioned, n)
    BY <1>1 DEF CursorInv
  <2>2. ASSUME Versioned
        PROVE  ContextOf(file, origin, queue, n.at, seen) /\ QueueOf(file, queue, n.at)
    <3>1. ContextOf(file, origin, queue, n.at, seen) /\ QueueOf(file, queue, cursor.at)
      BY <1>3, <1>4, <2>2 DEF QueueInv
    <3>2. cursor.at <= n.at
      BY <1>3, <1>4, <1>5, <2>2 DEF BatchInv, BatchOf
    <3>3. ASSUME NEW i \in DOMAIN queue PROVE Stem(file, queue[i], n.at)
      <4>1. Stem(file, queue[i], cursor.at)
        BY <3>1 DEF QueueOf
      <4> QED
        BY <1>3, <1>5, <3>2, <4>1, StemStays
    <3>4. QueueOf(file, queue, n.at)
      BY <3>1, <3>3 DEF QueueOf
    <3> QED
      BY <3>1, <3>4
  <2> QED
    BY <1>3, <1>7, <2>1, <2>2 DEF Saved, n
<1> QED
  BY <1>2, <1>6, <1>7

\* A save that is not of a batch leaves the cursor where it is in the first file.
LEMMA SaveStays ==
  ASSUME Rows!RowsAssumption, RowsInv, Rows!Save, saving.by # "main", Versioned
  PROVE  saving.cursor.at = cursor.at /\ saving.cursor.ino = cursor.ino
<1>1. SavingInv /\ pc # "down" /\ CursorInv(saving.cursor)
  BY DEF Rows!Save, RowsInv, ShapeInv, SavingInv
<1>2. cursor.ino = 1 /\ ino = 1
  BY <1>1, InLoop
<1>3. saving.cursor.ino \in 1 .. ino
  BY <1>1 DEF CursorInv, CursorOf, Placed
<1> QED
  BY <1>1, <1>2, <1>3 DEF SavingInv

LEMMA SaveRefresh ==
  ASSUME Rows!RowsAssumption, RowsInv, Rows!Save, saving.by = "refresh"
  PROVE  /\ Saved(queue', saving.cursor)
         /\ Versioned => ContextOf(file, origin, queue', saving.cursor.at, seen)
<1> DEFINE n == saving.cursor
           items == Rows!RefreshRows(seen)
<1>1. saving # Null /\ pc # "down" /\ SavingInv /\ n \in Rows!Cursor /\ CursorInv(n)
        /\ pc = "refresh"
  BY DEF Rows!Save, RowsInv, ShapeInv, SavingInv, Rows!TypeOK, Rows!Saving
<1>2. queue' = Append(queue, items)
  BY DEF Rows!Save
<1>3. BatchInv /\ queue \in Seq(SUBSET Rows!Item) /\ seen \in Seq(Rows!Line)
  BY <1>1, InLoop
<1>4. Versioned => n.at = At
  BY <1>1, <1>3, SaveStays DEF BatchInv, At
<1>5. items \in SUBSET Rows!Item /\ LastIn(seen, items)
  BY <1>3, RefreshRowsLast DEF LastIn
<1> HIDE DEF n, items
<1>6. /\ CursorOf(file, ino, origin, dead, table, Append(queue, items), Versioned, n)
      /\ Versioned => /\ ContextOf(file, origin, Append(queue, items), n.at, seen)
                      /\ QueueOf(file, Append(queue, items), n.at)
  BY <1>1, <1>4, <1>5, Queued
<1>7. Append(queue, items) \in Seq(SUBSET Rows!Item)
  BY <1>3, <1>5, AppendOf
<1> QED
  BY <1>2, <1>6, <1>7 DEF Saved, n

LEMMA SaveEnrich ==
  ASSUME Rows!RowsAssumption, RowsInv, Rows!Save, saving.by = "enrich"
  PROVE  /\ Saved(queue', saving.cursor)
         /\ Versioned => ContextOf(file, origin, queue', At, seen)
<1> DEFINE n == saving.cursor
<1>1. saving # Null /\ pc # "down" /\ SavingInv /\ n \in Rows!Cursor /\ CursorInv(n) /\ queue # <<>>
  BY DEF Rows!Save, RowsInv, ShapeInv, SavingInv, Rows!TypeOK, Rows!Saving
<1>2. queue' = Tail(queue)
  BY DEF Rows!Save
<1>3. QueueInv /\ queue \in Seq(SUBSET Rows!Item)
  BY <1>1, InLoop
<1>4. /\ Tail(queue) \in Seq(SUBSET Rows!Item)
      /\ \A i \in DOMAIN Tail(queue) : \E j \in DOMAIN queue : Tail(queue)[i] = queue[j]
  BY <1>1, <1>3, TailOf
<1>5. Versioned => n.at = cursor.at
  BY SaveStays
<1> DEFINE r == Tail(queue)
<1>6. CursorOf(file, ino, origin, dead, table, r, Versioned, n)
  <2>1. Moved(table, table, queue, Versioned) /\ \A i \in DOMAIN r : \E j \in DOMAIN queue :
          r[i] = queue[j]
    BY <1>4 DEF Moved
  <2> HIDE DEF r, n
  <2> QED
    BY <1>1, <2>1, TableMoves
<1>7. Versioned => QueueOf(file, r, n.at) /\ ContextOf(file, origin, r, At, seen)
  <2> HAVE Versioned
  <2>1. ContextOf(file, origin, queue, At, seen) /\ QueueOf(file, queue, n.at)
    BY <1>3, <1>5 DEF QueueInv
  <2>2. QueueOf(file, Tail(queue), n.at)
    BY <1>1, <1>3, <2>1, QueueGoesOn
  <2>3. ContextOf(file, origin, Tail(queue), At, seen)
    BY <1>4, <2>1, ContextQueue
  <2> QED
    BY <2>2, <2>3
<1> QED
  BY <1>2, <1>4, <1>6, <1>7 DEF Saved

\* An acknowledgement leaves the batch that was read meanwhile.
LEMMA SaveBatch ==
  ASSUME Rows!RowsAssumption, RowsInv, Rows!Save, saving.by = "enrich", batch.cursor # Null
  PROVE  BatchOf(file, ino, origin, dead, Versioned, saving.cursor, batch, rows)
<1> DEFINE n == saving.cursor
<1>1. saving # Null /\ pc # "down" /\ SavingInv /\ n \in Rows!Cursor /\ CursorInv(n)
  BY DEF Rows!Save, RowsInv, ShapeInv, SavingInv, Rows!TypeOK, Rows!Saving
<1>2. /\ cursor \in Rows!Cursor /\ cursor.ino \in 1 .. ino /\ BatchInv /\ file \in Seq(Rows!Block)
      /\ ino \in Nat /\ (Versioned => ino = 1) /\ cursor.at \in Nat
  BY <1>1, InLoop
<1>3. BatchOf(file, ino, origin, dead, Versioned, cursor, batch, rows)
  BY <1>2 DEF BatchInv
<1>4. n.ino \in 1 .. ino
  BY <1>1 DEF CursorInv, CursorOf, Placed
<1> HIDE DEF n
<1>5. CASE n.ino = cursor.ino /\ n.at = cursor.at
  <2>1. BatchOf(file, ino, origin, dead, Versioned, n, batch, rows)
    BY <1>3, <1>5 DEF BatchOf
  <2> QED
    BY <2>1 DEF n
<1>6. CASE n.ino < cursor.ino /\ cursor.at = 0
  <2> DEFINE all == Before(file, origin, batch.cursor.at)
  <2>1. \A end \in all : end > cursor.at
    <3>1. Rows!Ends(file) \subseteq 1 .. Len(file) /\ Len(file) \in Nat
      BY <1>2, EndsOf
    <3> QED
      BY <1>6, <3>1 DEF Before
  <2>2. n.ino # ino /\ ~ Versioned
    BY <1>2, <1>4, <1>6
  <2> HIDE DEF all
  <2>3. /\ {end \in all : cursor.ino = ino => end > cursor.at} = all
        /\ {end \in all : n.ino = ino => end > n.at} = all
    BY <2>1, <2>2
  <2>4. BatchOf(file, ino, origin, dead, Versioned, n, batch, rows)
    BY <1>3, <2>2, <2>3 DEF BatchOf, all
  <2> QED
    BY <2>4 DEF n
<1> QED
  BY <1>1, <1>5, <1>6 DEF SavingInv, n

LEMMA SaveKeeps ==
  ASSUME Rows!RowsAssumption, RowsInv, Rows!Save
  PROVE  RowsInv'
<1> DEFINE n == saving.cursor
<1>1. /\ Rows!TypeOK /\ WriterInv /\ ShapeInv /\ SavedInv
      /\ SavingInv /\ n \in Rows!Cursor /\ CursorInv(n) /\ saving # Null /\ pc # "down"
  BY DEF Rows!Save, RowsInv, ShapeInv, SavingInv, Rows!TypeOK, Rows!Saving
<1>2. /\ dead' = dead /\ table' = table /\ cached' = cached /\ seen' = seen
      /\ decided' = decided /\ done' = done /\ writing' = writing /\ file' = file /\ ino' = ino
      /\ rest' = rest /\ chunk' = chunk /\ origin' = origin
      /\ saved' = n /\ cursor' = n /\ saving' = Null
  BY DEF Rows!Save, Rows!worker, Rows!settings, Rows!store
<1>3. saving.by \in {"main", "refresh", "enrich"} /\ Saved(queue', n)
  <2>1. saving.by \in {"main", "refresh", "enrich"}
    BY <1>1 DEF Rows!TypeOK, Rows!Saving
  <2> HIDE DEF n
  <2> QED
    BY <2>1, SaveMain, SaveRefresh, SaveEnrich DEF n
<1>4. /\ cursor # Null /\ BatchInv /\ QueueInv /\ origin # Null /\ seen \in Seq(Rows!Line)
      /\ rows \in SUBSET Rows!Item
  BY <1>1, InLoop
<1>5. n # Null
  BY <1>1 DEF Rows!RowsAssumption
<1>6. Versioned' = Versioned
  BY <1>2 DEF Versioned
<1>7. Rows!NoBatch \in Rows!Batch /\ Rows!NoBatch.cursor = Null
  <2>1. <<>> \in Seq(Rows!Line) /\ {} \in SUBSET (Nat \X Nat)
    OBVIOUS
  <2> QED
    BY <2>1 DEF Rows!NoBatch, Rows!Batch
<1>8. CASE saving.by = "main"
  <2>1. pc' = "refresh" /\ batch' = Rows!NoBatch /\ rows' = {}
    BY <1>8 DEF Rows!Save
  <2>2. Versioned => ContextOf(file, origin, queue', n.at, seen)
    BY <1>8, SaveMain
  <2> HIDE DEF n
  <2>3. Rows!TypeOK'
    BY <1>1, <1>2, <1>3, <1>7, <2>1 DEF Rows!TypeOK, Saved
  <2>4. WriterInv' /\ ShapeInv'
    BY <1>1, <1>2, <1>4, <1>5, <2>1 DEF WriterInv, ShapeInv
  <2>5. SavedInv' /\ CursorInv(cursor)'
    BY <1>2, <1>3, <1>6 DEF SavedInv, CursorInv, Saved
  <2>6. BatchInv'
    BY <1>7, <2>1 DEF BatchInv
  <2>7. QueueInv'
    BY <1>2, <1>3, <1>6, <1>7, <2>1, <2>2 DEF QueueInv, At, Saved
  <2> QED
    BY <1>2, <2>3, <2>4, <2>5, <2>6, <2>7 DEF RowsInv
<1>9. CASE saving.by = "refresh"
  <2>1. pc' = "stat" /\ batch' = batch /\ rows' = rows
    BY <1>9 DEF Rows!Save
  <2>2. Versioned => ContextOf(file, origin, queue', n.at, seen)
    BY <1>9, SaveRefresh
  <2>3. batch.cursor = Null /\ batch = Rows!NoBatch
    BY <1>1, <1>4, <1>9 DEF SavingInv, BatchInv
  <2> HIDE DEF n
  <2>4. Rows!TypeOK'
    BY <1>1, <1>2, <1>3, <2>1 DEF Rows!TypeOK, Saved
  <2>5. WriterInv' /\ ShapeInv'
    BY <1>1, <1>2, <1>4, <1>5, <2>1 DEF WriterInv, ShapeInv
  <2>6. SavedInv' /\ CursorInv(cursor)'
    BY <1>2, <1>3, <1>6 DEF SavedInv, CursorInv, Saved
  <2>7. BatchInv'
    BY <2>1, <2>3 DEF BatchInv
  <2>8. QueueInv'
    BY <1>2, <1>3, <1>6, <2>1, <2>2, <2>3 DEF QueueInv, At, Saved
  <2> QED
    BY <1>2, <2>4, <2>5, <2>6, <2>7, <2>8 DEF RowsInv
<1>10. CASE saving.by = "enrich"
  <2>1. pc' = pc /\ batch' = batch /\ rows' = rows
    BY <1>10 DEF Rows!Save
  <2>2. Versioned => ContextOf(file, origin, queue', At, seen) /\ n.at = cursor.at
    BY <1>10, SaveEnrich, SaveStays
  <2>3. batch.cursor # Null => BatchOf(file, ino, origin, dead, Versioned, n, batch, rows)
    BY <1>10, SaveBatch
  <2> HIDE DEF n
  <2>4. Rows!TypeOK'
    BY <1>1, <1>2, <1>3, <2>1 DEF Rows!TypeOK, Saved
  <2>5. WriterInv' /\ ShapeInv'
    BY <1>1, <1>2, <1>4, <1>5, <2>1 DEF WriterInv, ShapeInv
  <2>6. SavedInv' /\ CursorInv(cursor)'
    BY <1>2, <1>3, <1>6 DEF SavedInv, CursorInv, Saved
  <2>7. BatchInv'
    BY <1>2, <1>4, <1>6, <2>1, <2>3 DEF BatchInv
  <2>8. QueueInv'
    BY <1>2, <1>3, <1>6, <2>1, <2>2 DEF QueueInv, At, Saved
  <2> QED
    BY <1>2, <2>4, <2>5, <2>6, <2>7, <2>8 DEF RowsInv
<1> QED
  BY <1>3, <1>8, <1>9, <1>10

LEMMA RowsInit ==
  ASSUME Rows!RowsAssumption, Rows!Init
  PROVE  RowsInv
<1>1. /\ decided = {} /\ done = {} /\ writing = Null /\ file = <<>> /\ ino = 1
      /\ rest \in BOOLEAN /\ chunk \in Chunks
      /\ saved = Null /\ origin = Null /\ cursor = Null /\ saving = Null
      /\ seen = <<>> /\ batch = Rows!NoBatch /\ rows = {} /\ pc = "down" /\ queue = <<>>
         /\ cached = {}
      /\ table = [b \in Buys |-> [ver |-> 0, chain |-> "none"]] /\ dead = {}
  BY DEF Rows!Init
<1>2. Rows!NoBatch \in Rows!Batch
  <2>1. <<>> \in Seq(Rows!Line) /\ {} \in SUBSET (Nat \X Nat)
    OBVIOUS
  <2> QED
    BY <2>1 DEF Rows!NoBatch, Rows!Batch
<1>3. <<>> \in Seq(Rows!Block) /\ <<>> \in Seq(Rows!Line) /\ <<>> \in Seq(SUBSET Rows!Item)
        /\ DOMAIN <<>> = {}
  OBVIOUS
<1>4. Rows!TypeOK
  BY <1>1, <1>2, <1>3 DEF Rows!TypeOK
<1>5. WriterInv
  BY <1>1, <1>3 DEF WriterInv, Ordered
<1>6. ShapeInv /\ SavedInv
  BY <1>1 DEF ShapeInv, SavedInv
<1> QED
  BY <1>1, <1>4, <1>5, <1>6 DEF RowsInv

LEMMA RowsStutter ==
  ASSUME RowsInv, UNCHANGED Rows!vars
  PROVE  RowsInv'
<1>1. /\ pc' = pc /\ dead' = dead /\ queue' = queue /\ table' = table /\ cached' = cached
      /\ decided' = decided /\ done' = done /\ writing' = writing /\ file' = file /\ ino' = ino
      /\ rest' = rest /\ chunk' = chunk /\ saved' = saved /\ origin' = origin /\ cursor' = cursor
      /\ seen' = seen /\ batch' = batch /\ rows' = rows /\ saving' = saving
  BY DEF Rows!vars, Rows!worker, Rows!settings, Rows!sidecar, Rows!loop, Rows!store
<1>2. Versioned' = Versioned
  BY <1>1 DEF Versioned
<1>3. Rows!TypeOK' = Rows!TypeOK /\ WriterInv' = WriterInv /\ ShapeInv' = ShapeInv
  BY <1>1 DEF Rows!TypeOK, WriterInv, ShapeInv
<1>4. /\ SavedInv' = SavedInv
      /\ (cursor # Null => CursorInv(cursor))' = (cursor # Null => CursorInv(cursor))
  BY <1>1, <1>2 DEF SavedInv, CursorInv
<1>5. BatchInv' = BatchInv /\ QueueInv' = QueueInv
  BY <1>1, <1>2 DEF BatchInv, QueueInv, At
<1>6. saving # Null => SavingInv' = SavingInv
  BY <1>1, <1>2 DEF SavingInv, CursorInv
<1> QED
  BY <1>1, <1>3, <1>4, <1>5, <1>6 DEF RowsInv

LEMMA RowsStep ==
  ASSUME Rows!RowsAssumption, RowsInv, [Rows!Next]_(Rows!vars)
  PROVE  RowsInv'
<1>1. CASE \E b \in Buys : Rows!Decide(b)
  BY <1>1, DecideKeeps
<1>2. CASE \E line \in Rows!Line : Rows!Produce(line)
  BY <1>2, ProduceKeeps
<1>3. CASE Rows!Flush \/ Rows!WorkerDies \/ Rows!Rotate
  BY <1>3, FlushKeeps, WorkerDiesKeeps, RotateKeeps
<1>4. CASE Rows!Start \/ Rows!Die \/ Rows!Stat \/ Rows!Read
  BY <1>4, SidecarStartKeeps, DieKeeps, StatKeeps, ReadKeeps
<1>5. CASE Rows!PersistMalformed \/ Rows!Raw \/ Rows!Commit
  BY <1>5, PersistMalformedKeeps, RawKeeps, CommitKeeps
<1>6. CASE Rows!Refresh \/ Rows!NoRefresh
  BY <1>6, RefreshKeeps, NoRefreshKeeps
<1>7. CASE Rows!Enrich \/ Rows!EnrichFails \/ Rows!Save
  BY <1>7, EnrichKeeps, EnrichFailsKeeps, SaveKeeps
<1>8. CASE UNCHANGED Rows!vars
  BY <1>8, RowsStutter
<1> QED
  BY <1>1, <1>2, <1>3, <1>4, <1>5, <1>6, <1>7, <1>8 DEF Rows!Next

LEMMA RowsSkipNothing ==
  ASSUME Rows!RowsAssumption, RowsInv
  PROVE  Rows!NothingSkipped
<1> SUFFICES ASSUME Rows!SavedHere, NEW end \in Rows!Ends(file), end <= saved.at,
                    Rows!Begin(file, end) >= origin
             PROVE  LET line == file[end].line
                        pending == {r \in saved.pending : r.buy = line.buy}
                    IN IF Rows!Whole(file, end)
                       THEN line.kind = "row" =>
                              /\ table[line.buy].ver > 0
                              /\ rest /\ ino = 1 => \/ table[line.buy].ver >= line.ver
                                                    \/ \E r \in pending : r.ver >= line.ver
                              /\ table[line.buy].chain = "none" => pending # {}
                       ELSE <<ino, Rows!Begin(file, end)>> \in dead
  BY DEF Rows!NothingSkipped
<1>1. saved # Null /\ saved.ino = ino /\ CursorInv(saved)
  BY DEF Rows!SavedHere, RowsInv, SavedInv
<1> DEFINE ends == Before(file, origin, saved.at)
           lines == RowsOf(file, ends)
<1>2. end \in ends
  BY DEF Before
<1>3. Broken(file, ino, ends) \subseteq dead /\ Covered(lines, table, saved.pending)
  BY <1>1 DEF CursorInv, CursorOf
<1>4. rest /\ ino = 1 => Current(lines, table, queue, saved.pending)
  BY <1>1 DEF CursorInv, CursorOf, Versioned
<1> HIDE DEF ends
<1>5. CASE ~ Rows!Whole(file, end)
  BY <1>2, <1>3, <1>5 DEF Broken
<1>6. CASE Rows!Whole(file, end) /\ file[end].line.kind = "row"
  <2> DEFINE line == file[end].line
  <2>1. line \in lines
    BY <1>2, <1>6 DEF RowsOf
  <2> HIDE DEF line, lines
  <2>2. table[line.buy].ver > 0
    BY <1>3, <2>1 DEF Covered
  <2>3. table[line.buy].chain = "none" => \E r \in saved.pending : r.buy = line.buy
    BY <1>3, <2>1 DEF Covered, Waiting
  <2>4. rest /\ ino = 1 => \/ table[line.buy].ver >= line.ver
                           \/ \E r \in saved.pending : r.buy = line.buy /\ r.ver >= line.ver
    BY <1>4, <2>1 DEF Current, Waiting
  <2> QED
    BY <1>6, <2>2, <2>3, <2>4 DEF line
<1>7. CASE Rows!Whole(file, end) /\ file[end].line.kind # "row"
  BY <1>7
<1> QED
  BY <1>5, <1>6, <1>7

-----------------------------------------------------------------------------
(* The parts together *)

LEMMA LanesMoves == [Next]_vars => [Lanes!Next]_(Lanes!vars)
BY DEF Next, RowsNext, ExitsNext, LanesNext, vars, lanesVars, Lanes!vars

\* Under any settings the start accepts, with any fees, a buy has a lane in every
\* mode but mixed, pays each lane its tip and a priority fee under the maximum, and
\* is reported as an error only if no lane took it.
THEOREM PaysItsLanes == Spec => []BuysPayTheirLanes
<1>1. Init => Lanes!LanesInv
  BY LanesConstants, LanesInitially DEF Init
<1>2. Lanes!LanesInv /\ [Next]_vars => Lanes!LanesInv'
  BY LanesConstants, LanesMoves, LanesInvariance
<1>3. Lanes!LanesInv => BuysPayTheirLanes
  BY LanesConstants, LanesPaid DEF BuysPayTheirLanes
<1> QED
  BY <1>1, <1>2, <1>3, PTL DEF Spec

LEMMA ExitsMoves == [Next]_vars => [Exits!Next]_(Exits!vars)
BY DEF Next, RowsNext, ExitsNext, LanesNext, vars, exitsVars, Exits!vars, Exits!settings,
       Exits!order, Exits!chain

\* Whatever an RPC reports, whichever answers are lost and wherever the worker ends, a
\* buy that may be under way is within its limits and, with the balance guard on, reserved
\* in full, and the answered sells of its schedule take no more than the steps so far, for
\* any plans and holdings.
THEOREM SellsAsPlanned == Spec => []PlannedAmountsOnly
<1>1. Init => Exits!ExitsInv
  BY ExitsConstants, ExitsInitially DEF Init
<1>2. Exits!ExitsInv /\ [Next]_vars => Exits!ExitsInv'
  BY ExitsConstants, ExitsMoves, ExitsInvariance
<1>3. Exits!ExitsInv => PlannedAmountsOnly
  BY ExitsPlanned DEF PlannedAmountsOnly
<1> QED
  BY <1>1, <1>2, <1>3, PTL DEF Spec

LEMMA RowsMoves == [Next]_vars => [Rows!Next]_(Rows!vars)
BY DEF Next, RowsNext, ExitsNext, LanesNext, vars, rowsVars, Rows!vars, Rows!worker,
       Rows!settings, Rows!sidecar, Rows!loop, Rows!store

\* Every line the saved cursor has passed is accounted for, for any number of executions
\* and lines, any sizes of batches and chunks and any number of troubles: an execution
\* is in the table in the passed copy or a later one, or waits with one, a row the chain
\* was not asked about waits for it, and what does not parse was reported.
THEOREM NothingLeftOut == Spec => []NothingSkipped
<1>1. Init => RowsInv
  BY RowsConstants, RowsInit DEF Init
<1>2. RowsInv /\ [Next]_vars => RowsInv'
  BY RowsConstants, RowsMoves, RowsStep
<1>3. RowsInv => NothingSkipped
  BY RowsConstants, RowsSkipNothing DEF NothingSkipped
<1> QED
  BY <1>1, <1>2, <1>3, PTL DEF Spec
=============================================================================
