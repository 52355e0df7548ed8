----------------------------- MODULE MCBucketing -----------------------------
(***************************************************************************)
(* Rollouts and experiments over every bucket: one context key for each    *)
(* value the hash can have, WeightScale included.                          *)
(***************************************************************************)
EXTENDS BucketingProperties

MCFlagKeys == {"f", "g"}
MCContextKinds == {"user", "org"}
KeyOfBucket == <<"k0", "k1", "k2", "k3", "k4">>
MCContextKeys == {KeyOfBucket[i] : i \in DOMAIN KeyOfBucket}
MCAttrNames == {"country", "age"}
MCValues == {Null, StringValue("de"), <<"number", 2>>, <<"number", 3>>}

BucketOfKey(key) == (CHOOSE i \in DOMAIN KeyOfBucket : KeyOfBucket[i] = key) - 1
Seeds == {<<>>, <<61>>}
MCSecondaryKeys == {<<>>, <<"k1">>}
Prefixes == {<<61>>} \cup {<<key, "salt">> : key \in MCFlagKeys}
HashedValues ==
  (MCValues \ {Null}) \cup {StringValue(s) : s \in MCContextKeys \cup MCContextKinds}

\* Every part of the input moves the bucket.
PrefixShift(prefix) == IF prefix = <<"f", "salt">> THEN 0 ELSE IF prefix = <<61>> THEN 1 ELSE 2
ValueShift(v) ==
  IF IsString(v) /\ v[2] \in MCContextKeys THEN BucketOfKey(v[2]) ELSE IF IsString(v) THEN 2 ELSE 3
MCHash ==
  [input \in Prefixes \X HashedValues \X MCSecondaryKeys |->
     (PrefixShift(input[1]) + ValueShift(input[2]) + Len(input[3])) % (WeightScale + 1)]

Individual(key, country, age, secondary) ==
  [key |-> key, secondary |-> secondary,
   attributes |-> [n \in MCAttrNames |-> IF n = "country" THEN country ELSE age]]
Individuals ==
  {Individual(key, StringValue("de"), <<"number", 3>>, <<>>) : key \in MCContextKeys}
    \cup {Individual("k0", Null, <<"number", 2>>, <<"k1">>)}
MCRolloutContexts ==
  {[valid |-> TRUE, individuals |-> [kind \in {kd} |-> i]] : kd \in MCContextKinds, i \in Individuals}

Weighing(weights) ==
  [n \in DOMAIN weights |-> [variation |-> n - 1, weight |-> weights[n], untracked |-> n = 2]]
WeightLists == {<<>>, <<4>>, <<1, 3>>, <<2, 1, 1>>, <<0, 0>>, <<1, 1>>, <<0, 2, 1>>}
MCRollouts ==
  {[kind |-> kd, contextKind |-> "user", variations |-> Weighing(w), bucketBy |-> by, seed |-> seed] :
     kd \in {"rollout", "experiment"}, w \in WeightLists,
     by \in {"", "country", "age", "/"}, seed \in Seeds}

NoTable == [s \in {} |-> <<>>]

\* The users in each bucket.
MCPopulation ==
  [b \in 0..WeightScale |->
     [valid |-> TRUE, individuals |->
        [kind \in {"user"} |-> Individual(KeyOfBucket[b + 1], Null, Null, <<>>)]]]
==============================================================================
