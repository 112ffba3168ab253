---------------------------- MODULE FeatureChain ----------------------------
(***************************************************************************)
(* The device feature chain of shim/chain.rs.  The layer hands the driver a *)
(* chain of its own, in which the three features generation needs are on:  *)
(* a deep copy of the game's structures as far as their size is known, with *)
(* the rest of the game's own chain, which it may only read, linked behind. *)
(***************************************************************************)
EXTENDS Naturals, Sequences

CONSTANT MaxChain   \* bound on the structures of a chain

ASSUME ChainAssumption == MaxChain \in Nat

(* The structures that carry one of the features, one that carries none, and*)
(* one whose size the table does not list.                                  *)
Carries ==
  [vulkan13 |-> {"synchronization2"}, vulkan12 |-> {"timelineSemaphore", "shaderFloat16"},
   synchronization2 |-> {"synchronization2"}, timeline |-> {"timelineSemaphore"},
   float16 |-> {"shaderFloat16"}, other |-> {}, unknown |-> {}]

(* The structures SIZES lists.                                              *)
Listed == DOMAIN Carries \ {"unknown"}

Needed == {"synchronization2", "timelineSemaphore"}
Wanted(fp16) == IF fp16 THEN Needed \cup {"shaderFloat16"} ELSE Needed

Struct(type, on) == [type |-> type, on |-> on, of |-> "game"]
Carrier(chain, f) == {i \in DOMAIN chain : f \in Carries[chain[i].type]}
On(chain, f) == \E i \in DOMAIN chain : f \in chain[i].on

(* Where the copy stops: at the first structure of unknown size.            *)
Borrowed(chain) ==
  {i \in DOMAIN chain : \E j \in 1..i : chain[j].type \notin Listed}

(* A copy has on what the original has, and what it carries of the wanted.  *)
Copied(s, fp16) ==
  [s EXCEPT !.on = @ \cup (Carries[s.type] \cap Wanted(fp16)), !.of = "layer"]

(* A feature that is off where the layer may only read.                     *)
LeftOff(chain, f) == \E i \in Carrier(chain, f) \cap Borrowed(chain) : f \notin chain[i].on

(* A structure for a feature is prepended only when no other carries it.    *)
Added(chain, f, type) ==
  IF Carrier(chain, f) = {} THEN <<[Struct(type, {f}) EXCEPT !.of = "layer"]>> ELSE <<>>

Refused(chain) == \E f \in Needed : LeftOff(chain, f)

CopyFp16(chain, fp16) == fp16 /\ ~LeftOff(chain, "shaderFloat16")

Copy(chain, fp16) ==
     Added(chain, "timelineSemaphore", "timeline")
  \o (IF CopyFp16(chain, fp16) THEN Added(chain, "shaderFloat16", "float16") ELSE <<>>)
  \o Added(chain, "synchronization2", "synchronization2")
  \o [i \in DOMAIN chain |-> IF i \in Borrowed(chain) THEN chain[i] ELSE Copied(chain[i], fp16)]

-----------------------------------------------------------------------------
(* What the driver may object to in a chain: a structure twice, a feature   *)
(* carried twice.                                                           *)
WellFormed(types) ==
  \A i, j \in DOMAIN types :
    i # j => /\ types[i] # types[j]
             /\ Carries[types[i]] \cap Carries[types[j]] = {}

TypesOf(chain) == [i \in DOMAIN chain |-> chain[i].type]

(* The chains a game may pass: well formed ones, their features on or off.  *)
GameChains ==
  UNION {{[i \in DOMAIN types |-> Struct(types[i], on \cap Carries[types[i]])] :
            on \in SUBSET Wanted(TRUE)} :
         types \in {c \in UNION {[1..n -> DOMAIN Carries] : n \in 0..MaxChain} : WellFormed(c)}}

(* What is wrong with what the layer makes of a chain: the driver objects,  *)
(* a feature the layer goes on to use is off, one nobody asked for is on,   *)
(* or the game's structures are not all there, in order and as they were.   *)
Misuse(chain, fp16) ==
  LET made == Copy(chain, fp16)
      added == Len(made) - Len(chain)
      used == Wanted(CopyFp16(chain, fp16))
  IN IF Refused(chain) THEN {}
     ELSE {m \in {"feature chain malformed", "feature off", "feature unasked", "chain lost"} :
             CASE m = "feature chain malformed" -> ~WellFormed(TypesOf(made))
               [] m = "feature off" -> \E f \in used : ~On(made, f)
               [] m = "feature unasked" ->
                    \E f \in Wanted(TRUE) \ Wanted(fp16) : On(made, f) /\ ~On(chain, f)
               [] m = "chain lost" ->
                    \E i \in DOMAIN chain :
                      LET s == made[added + i]
                      IN \/ s.type # chain[i].type \/ ~(chain[i].on \subseteq s.on)
                         \/ s.of = "game" /\ s # chain[i]}

(* What comes of every chain a game may pass: no driver objects to any.     *)
ChainMisuse == UNION {Misuse(c, fp16) : c \in GameChains, fp16 \in BOOLEAN}
=============================================================================
