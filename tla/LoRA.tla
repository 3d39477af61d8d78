-------------------------------- MODULE LoRA --------------------------------
(***************************************************************************)
(* loraeval.lora: adapters beside frozen linear layers, folded into the    *)
(* base weight and taken out again.  A weight is an integer, the dense     *)
(* update of an adapter the adapter's own number.                          *)
(***************************************************************************)
EXTENDS Integers

CONSTANTS Wrapped,          \* the linear layers inject_lora wrapped
          Adapters,         \* values of (alpha / r) * B A; 0 is the initial one
          MaxMergedLoads    \* bound of the model

ASSUME LoRAAssumption == Adapters \subseteq Int /\ 0 \in Adapters /\ MaxMergedLoads \in Nat

VARIABLES
    base,          \* per layer, base.weight (0 before any merge)
    adapter,       \* per layer, the update of lora_A and lora_B
    merged,        \* per layer, the merged flag
    shipped,       \* lora_state_dict of some earlier moment
    mergedLoads    \* bound; history: adapters were loaded over merged ones

loraVars == <<base, adapter, merged, shipped, mergedLoads>>

LoRAInit == /\ base = [m \in Wrapped |-> 0]
            /\ adapter = [m \in Wrapped |-> 0]
            /\ merged = [m \in Wrapped |-> FALSE]
            /\ shipped = adapter
            /\ mergedLoads = 0

\* Fault: merging adds the update whatever the flag says.
MergedAgain(m) == base[m] + adapter[m]

MergedBase(m) == IF merged[m] THEN base[m] ELSE base[m] + adapter[m]
UnmergedBase(m) == IF merged[m] THEN base[m] - adapter[m] ELSE base[m]

\* merge and unmerge of some layers; merge_all and unmerge_all of all.
Merge(layers) ==
    /\ base' = [m \in Wrapped |-> IF m \in layers THEN MergedBase(m) ELSE base[m]]
    /\ merged' = [m \in Wrapped |-> m \in layers \/ merged[m]]
    /\ UNCHANGED <<adapter, shipped, mergedLoads>>

Unmerge(layers) ==
    /\ base' = [m \in Wrapped |-> IF m \in layers THEN UnmergedBase(m) ELSE base[m]]
    /\ merged' = [m \in Wrapped |-> m \notin layers /\ merged[m]]
    /\ UNCHANGED <<adapter, shipped, mergedLoads>>

\* An optimiser step: a merged layer's forward pass leaves its adapter out, so
\* the adapter gets no gradient.
OptimiserStep(a) ==
    /\ adapter' = [m \in Wrapped |-> IF merged[m] THEN adapter[m] ELSE a[m]]
    /\ UNCHANGED <<base, merged, shipped, mergedLoads>>

Ship == /\ shipped' = adapter
        /\ UNCHANGED <<base, adapter, merged, mergedLoads>>

\* load_lora_state_dict asks nobody whether the layers are merged.
LoadAdapter ==
    /\ LET over == \E m \in Wrapped : merged[m] /\ adapter[m] # shipped[m]
       IN  /\ over => mergedLoads < MaxMergedLoads
           /\ mergedLoads' = mergedLoads + IF over THEN 1 ELSE 0
    /\ adapter' = shipped
    /\ UNCHANGED <<base, merged, shipped>>

LoRANext == \/ \E layers \in SUBSET Wrapped : Merge(layers) \/ Unmerge(layers)
            \/ \E a \in [Wrapped -> Adapters] : OptimiserStep(a)
            \/ Ship \/ LoadAdapter

LoRASpec == LoRAInit /\ [][LoRANext]_loraVars

-----------------------------------------------------------------------------
(* What merging promises.                                                  *)

\* The weight forward() applies.
Effective(m) == base[m] + IF merged[m] THEN 0 ELSE adapter[m]

\* Merging, unmerging, training and shipping in any order never show: every
\* layer computes the pretrained weight plus its adapter's update, and an
\* unmerged layer's base is the pretrained weight again, unless other adapters
\* were loaded over merged ones.
MergeIsInvisible ==
    mergedLoads = 0 =>
        \A m \in Wrapped : /\ Effective(m) = adapter[m]
                           /\ ~merged[m] => base[m] = 0
=============================================================================
