-------------------------------- MODULE Hss --------------------------------
(***************************************************************************)
(* A context of the hierarchical hash-based signature scheme HSS/LMS:      *)
(* crypto/hbs/hss/src and the tree cache of crypto/hbs/lms/src.  A private *)
(* key is a master seed and a counter; the counter is decomposed into one  *)
(* leaf per level, an upper leaf signs the public key of the tree below it,*)
(* the bottom leaf signs the message.  A leaf is a one-time key.           *)
(*                                                                         *)
(* Hashes are abstracted to what they are taken of: a tree is named by the *)
(* path of tree indices it is derived along, its root by the tree and the  *)
(* parameters it is built with.  The pair (lmsType, otsType) of a level is *)
(* one value of Types; a pair with one half still 0 is NoType.             *)
(* Levels count from 1 here and from 0 in the code.                        *)
(***************************************************************************)
EXTENDS Naturals, Sequences, FiniteSets

CONSTANTS
  Types,        \* pairs of an LMS type and an LM-OTS type
  Height,       \* height of the tree of a type
  MaxLevels,    \* HSS_MAX_LEVELS
  CounterBits,  \* width of the counter: 64 in the code
  ParaIds,      \* parameter sets of HssCtrlSetParaById: sequences of types
  MaxFails,     \* bound: calls of CRYPT_HSS_Sign that fail on the way
  Setters,      \* when the caller uses the setters: see MaySet
  Bounds        \* sets of bounds, of which one holds: [types, levels, seeds], namely the types
                \* and levels the caller asks for and the master seeds drawn

NoType == "none"

ASSUME HssAssumption ==
  /\ NoType \notin Types
  /\ Height \in [Types -> 1..(CounterBits - 1)] /\ \A t \in Types : 2^Height[t] \in Nat \ {0}
  /\ MaxLevels \in Nat \ {0} /\ CounterBits \in Nat \ {0} /\ 2^CounterBits \in Nat \ {0} /\ MaxFails \in Nat
  /\ \A b \in Bounds : b.types \subseteq Types /\ b.levels \in 1..MaxLevels /\ b.seeds \in Nat
  /\ \A s \in ParaIds : s \in Seq(Types) /\ Len(s) \in 1..MaxLevels
  /\ Setters \in {"unset", "noKey", "always"}

VARIABLES
  para,      \* HSS_Para of the context
  prv,       \* privateKey of the context, or NoKey
  pub,       \* publicKey of the context, or NoKey
  cache,     \* per level: treeCacheValid, cachedTreeIndex, cachedTree
  store,     \* the key last exported by CRYPT_HSS_GetPrvKey, or NoKey
  seeds,     \* number of master seeds drawn
  calls,     \* number of calls of CRYPT_HSS_Sign: the message of each is new
  fails,     \* number of those that failed on the way
  spent,     \* history: what every one-time key was used on
  published, \* history: the public keys of successful key generations
  sig,       \* history: the last signature handed out, or NoKey
  bound      \* the bounds of this behaviour, an element of Bounds

vars == <<para, prv, pub, cache, store, seeds, calls, fails, spent, published, sig, bound>>

Levels == 1..MaxLevels
NoKey == <<>>

-----------------------------------------------------------------------------
(* Parameters.                                                             *)

\* levelPara is what the level was last initialised with, type what the
\* setters asked for; ready is pubKeyLen # 0.
NoPara == [levels |-> 0, type |-> [i \in Levels |-> NoType],
           levelPara |-> [i \in Levels |-> NoType], ready |-> FALSE]

HeightOf(t) == IF t = NoType THEN 0 ELSE Height[t]

NumLeaves(p) == [i \in 1..p.levels |-> 2^HeightOf(p.levelPara[i])]

\* The number of signatures of the first i levels; 0 stands for one that does not fit the counter.
Total(leaves) ==
  LET total[i \in 0..Len(leaves)] ==
        IF i = 0 THEN 1
        ELSE IF total[i - 1] > (2^CounterBits - 1) \div leaves[i] THEN 0
        ELSE total[i - 1] * leaves[i]
  IN total

HssGetMaxSignatures(p) == IF p.levels = 0 THEN 0 ELSE Total(NumLeaves(p))[p.levels]

\* HssParaInit stops at the first level without a valid type and leaves what
\* it has set so far; parameters with too many signatures are cleared.
HssParaInit(p, levels, type) ==
  LET bad  == {i \in 1..levels : type[i] = NoType}
      stop == IF bad = {} THEN levels + 1 ELSE CHOOSE i \in bad : \A j \in bad : i <= j
      set  == [levels |-> levels,
               type |-> [i \in Levels |-> IF i < stop /\ i <= levels THEN type[i] ELSE NoType],
               levelPara |-> [i \in Levels |-> IF i < stop /\ i <= levels THEN type[i] ELSE NoType],
               ready |-> stop > levels]
  IN IF levels \notin Levels THEN p
     ELSE IF set.ready /\ HssGetMaxSignatures(set) = 0 THEN NoPara
     ELSE set

Prepared(p) == IF p.ready THEN p ELSE HssParaInit(p, p.levels, p.type)

-----------------------------------------------------------------------------
(* The leaf of every level that a counter stands for.                      *)

\* What is left of counter g above level i.
Remaining(leaves, g) ==
  LET remaining[i \in 1..(Len(leaves) + 1)] ==
        IF i = Len(leaves) + 1 THEN g ELSE remaining[i + 1] \div leaves[i]
  IN remaining

HssTree_CalculateIndices(p, g) ==
  LET leaves == NumLeaves(p)
      left   == Remaining(leaves, g)
  IN [i \in 1..p.levels |-> [tree |-> left[i], leaf |-> left[i + 1] % leaves[i]]]

\* Mutant: the trees of a level share one seed.
SeedsWithoutPosition(seed, at) ==
  [i \in DOMAIN at |-> <<seed>> \o [j \in 1..(i - 1) |-> 0]]

\* The trees are named by the derivation of their (I, seed).
HssGenerateAllSeeds(seed, at) ==
  [i \in DOMAIN at |-> <<seed>> \o [j \in 1..(i - 1) |-> at[j + 1].tree]]

-----------------------------------------------------------------------------
(* Signatures.                                                             *)

\* The Merkle tree over the leaves of a derived tree.
Merkle(id, type) == [id |-> id, type |-> type]

LmsPubKey(type, id, root) == [type |-> type, id |-> id, root |-> root]

HssCreateChildPubKey(p, ids, i) ==
  LmsPubKey(p.type[i], ids[i], Merkle(ids[i], p.levelPara[i]))

LmsValidateSignature(key, msg, s) ==
  /\ s.type = key.type
  /\ s.q < 2^HeightOf(key.type)
  /\ s.path = key.root
  /\ key.root.type = key.type
  /\ s.ots = [id |-> key.id, q |-> s.q, msg |-> msg]

\* parts[i] is the LMS signature of level i and, above the bottom, the public
\* key it signs.
HssTree_Verify(levels, key, msg, parts) ==
  /\ Len(parts) = levels
  /\ \A i \in 1..levels :
       LmsValidateSignature(IF i = 1 THEN key ELSE parts[i - 1].child,
                            IF i = levels THEN msg ELSE parts[i].child, parts[i])

\* Mutant: the counter is stored with a bit too few.
AdvanceWraps(k) == [k EXCEPT !.counter = (@ + 1) % 2^(CounterBits - 1)]

\* The counter is advanced before anything is signed; LmsPutBigendian stores HSS_PRVKEY_COUNTER_LEN bytes of it.
Advance(k) == [k EXCEPT !.counter = (@ + 1) % 2^CounterBits]

-----------------------------------------------------------------------------
(* The tree cache of a level.                                              *)

NoTree == <<>>
NoCache == [valid |-> FALSE, index |-> 0, tree |-> NoTree]

HssInvalidateAllTreeCaches == [i \in Levels |-> NoCache]

\* Mutant: a cache that outlives its tree.
CacheForAnyIndex(c, index) == [c EXCEPT !.index = index]

\* CRYPT_HSS_Gen drops the trees of the previous key.
ForgetTree(c) == [c EXCEPT !.valid = FALSE, !.index = 0]

\* CRYPT_HSS_Sign drops the tree of another index.
CacheFor(c, index) ==
  IF c.index = index THEN c ELSE [c EXCEPT !.valid = FALSE, !.index = index]

\* The tree in the cache is used when it is valid and has the right size.
Cached(c, type) ==
  c.valid /\ c.tree # NoTree /\ HeightOf(c.tree.type) = HeightOf(type)

BuildCachedTree(c, tree) ==
  IF Cached(c, tree.type) THEN c ELSE [c EXCEPT !.valid = TRUE, !.tree = tree]

-----------------------------------------------------------------------------
Init ==
  /\ para = NoPara /\ prv = NoKey /\ pub = NoKey
  /\ cache = [i \in Levels |-> NoCache]
  /\ store = NoKey /\ seeds = 0 /\ calls = 0 /\ fails = 0
  /\ spent = {} /\ published = {} /\ sig = NoKey
  /\ bound \in Bounds

\* The calls that a caller makes on the parameters: only to set them, as long
\* as there is no private key, or at any time.
MaySet ==
  CASE Setters = "unset"  -> prv = NoKey /\ ~para.ready
    [] Setters = "noKey"  -> prv = NoKey
    [] Setters = "always" -> TRUE

HssCtrlSetLevels(n) ==
  /\ MaySet
  /\ para' = [para EXCEPT !.levels = n]
  /\ UNCHANGED <<prv, pub, cache, store, seeds, calls, fails, spent, published, sig>>

\* HssCtrlSetLmsType and HssCtrlSetOtsType of one level.
HssCtrlSetType(i, t) ==
  /\ MaySet
  /\ i <= para.levels
  /\ para' = [para EXCEPT !.type = [para.type EXCEPT ![i] = t]]
  /\ UNCHANGED <<prv, pub, cache, store, seeds, calls, fails, spent, published, sig>>

HssCtrlSetParaById(s) ==
  /\ MaySet
  /\ para' = HssParaInit(para, Len(s), s)
  /\ UNCHANGED <<prv, pub, cache, store, seeds, calls, fails, spent, published, sig>>

\* HssCtrlGetSigLen and HssCtrlGetRemaining complete the parameters.
HssCtrlGet ==
  /\ para' = Prepared(para)
  /\ UNCHANGED <<prv, pub, cache, store, seeds, calls, fails, spent, published, sig>>

\* Key generation.  The public key and the zero of the counter are written
\* before the parameters are compressed, which fails on a level without type.
CRYPT_HSS_Gen ==
  LET p    == Prepared(para)
      seed == seeds + 1
      root == Merkle(<<seed>>, p.levelPara[1])
      key  == LmsPubKey(p.type[1], <<seed>>, root)
      types == [i \in 1..p.levels |-> p.type[i]]
  IN
  /\ seeds < bound.seeds
  /\ para.levels # 0
  /\ para' = p
  /\ IF ~p.ready
     THEN UNCHANGED <<prv, pub, cache, seeds, published>>
     ELSE /\ seeds' = seed
          /\ pub' = [levels |-> p.levels, key |-> key]
          /\ IF \A i \in 1..p.levels : p.type[i] # NoType
             THEN /\ prv' = [seed |-> seed, counter |-> 0, types |-> types]
                  /\ cache' = [i \in Levels |-> ForgetTree(cache[i])]
                  /\ published' = published \cup {pub'}
             ELSE /\ prv' = IF prv = NoKey THEN [seed |-> 0, counter |-> 0, types |-> <<>>]
                            ELSE [prv EXCEPT !.counter = 0]
                  /\ UNCHANGED <<cache, published>>
  /\ UNCHANGED <<store, calls, fails, spent, sig>>

\* CRYPT_HSS_Sign of a new message m.  Level stop is the first that fails, if any; exposed
\* says that it fails after the one-time signature was written, in building
\* the tree for the authentication path.
CRYPT_HSS_Sign(stop, exposed) ==
  LET m     == [message |-> calls + 1]
      at    == HssTree_CalculateIndices(para, prv.counter)
      ids   == HssGenerateAllSeeds(prv.seed, at)
      n     == para.levels
      child == [i \in 1..(n - 1) |-> HssCreateChildPubKey(para, ids, i + 1)]
      ots   == [i \in 1..n |-> [id |-> ids[i], q |-> at[i].leaf,
                                msg |-> IF i = n THEN m ELSE child[i]]]
      fresh == [i \in Levels |-> IF i > n THEN cache[i] ELSE CacheFor(cache[i], at[i].tree)]
      built == [i \in 1..n |-> BuildCachedTree(fresh[i], Merkle(ids[i], para.levelPara[i]))]
  IN
  /\ prv # NoKey /\ n # 0
  /\ prv.counter < HssGetMaxSignatures(para)
  /\ stop \in 1..(n + 1)
  \* Parameters that were never initialised fail in LmsTree_ComputeRoot.
  /\ \A i \in 1..n : para.levelPara[i] = NoType => stop < i \/ (stop = 1 /\ i = 1)
  /\ exposed => /\ stop <= n
                /\ \A i \in {stop, stop + 1} \cap (1..n) : para.levelPara[i] # NoType
                /\ ~Cached(fresh[stop], para.levelPara[stop])
  /\ stop <= n => fails < MaxFails
  /\ fails' = IF stop <= n THEN fails + 1 ELSE fails
  /\ calls' = calls + 1
  /\ prv' = Advance(prv)
  /\ cache' = [i \in Levels |->
                 IF i < stop /\ i <= n THEN built[i]
                 ELSE IF i = stop /\ exposed THEN [fresh[i] EXCEPT !.valid = FALSE]
                 ELSE fresh[i]]
  /\ spent' = spent \cup {ots[i] : i \in {j \in 1..n : j < stop \/ (j = stop /\ exposed)}}
  /\ sig' = IF stop <= n THEN sig
            ELSE [seed |-> prv.seed, msg |-> m,
                  parts |-> [i \in 1..n |->
                    [q |-> at[i].leaf, type |-> para.levelPara[i], ots |-> ots[i],
                     path |-> built[i].tree, child |-> IF i = n THEN NoKey ELSE child[i]]]]
  /\ store' = IF store # NoKey /\ store.seed = prv.seed THEN NoKey ELSE store
  /\ UNCHANGED <<para, pub, seeds, published>>

\* The caller keeps the exported key.  It must not use it after the key has
\* signed: CRYPT_HSS_Sign removes it from the store, and the caller exports
\* it anew.
CRYPT_HSS_GetPrvKey ==
  /\ prv # NoKey
  /\ store' = prv
  /\ UNCHANGED <<para, prv, pub, cache, seeds, calls, fails, spent, published, sig>>

\* The import of the exported key, into this context or its successor.
CRYPT_HSS_SetPrvKey ==
  LET p == HssParaInit(NoPara, Len(store.types), store.types)
  IN
  /\ store # NoKey
  /\ p.ready
  /\ para' = p
  /\ prv' = store
  /\ cache' = HssInvalidateAllTreeCaches
  /\ store' = NoKey
  /\ UNCHANGED <<pub, seeds, calls, fails, spent, published, sig>>

\* The import of a public key k of some key pair: only the first type is
\* in it, and no level is initialised.
CRYPT_HSS_SetPubKey(k) ==
  /\ MaySet
  /\ pub' = k
  /\ para' = [para EXCEPT !.levels = k.levels, !.type = [para.type EXCEPT ![1] = k.key.type]]
  /\ UNCHANGED <<prv, cache, store, seeds, calls, fails, spent, published, sig>>

\* The copy that replaces the context: refused when it holds a private key.
CRYPT_HSS_DupCtx ==
  /\ prv = NoKey
  /\ cache' = [i \in Levels |-> NoCache]
  /\ UNCHANGED <<para, prv, pub, store, seeds, calls, fails, spent, published, sig>>

\* The context is freed and another one made.
CRYPT_HSS_FreeCtx ==
  /\ para' = NoPara /\ prv' = NoKey /\ pub' = NoKey
  /\ cache' = [i \in Levels |-> NoCache]
  /\ UNCHANGED <<store, seeds, calls, fails, spent, published, sig>>

Next ==
  /\ \/ \E n \in 1..bound.levels : HssCtrlSetLevels(n)
     \/ \E i \in Levels, t \in bound.types : HssCtrlSetType(i, t)
     \/ \E s \in ParaIds \cap Seq(bound.types) : HssCtrlSetParaById(s)
     \/ HssCtrlGet
     \/ CRYPT_HSS_Gen
     \/ \E stop \in 1..(MaxLevels + 1), exposed \in BOOLEAN : CRYPT_HSS_Sign(stop, exposed)
     \/ CRYPT_HSS_GetPrvKey
     \/ CRYPT_HSS_SetPrvKey
     \/ \E k \in published : CRYPT_HSS_SetPubKey(k)
     \/ CRYPT_HSS_DupCtx
     \/ CRYPT_HSS_FreeCtx
  /\ UNCHANGED bound

Spec == Init /\ [][Next]_vars

-----------------------------------------------------------------------------
(* Properties.                                                             *)

KeyOK(k) ==
  \/ k = NoKey
  \/ /\ DOMAIN k = {"seed", "counter", "types"}
     /\ k.seed \in 0..seeds
     /\ k.counter \in 0..2^(CounterBits - 1)
     /\ \A i \in DOMAIN k.types : k.types[i] \in Types

\* Types of the context; the counter stays within the largest number of
\* signatures that HssGetMaxSignatures admits, so counter + 1 never wraps.
TypeOK ==
  /\ para.levels \in 0..MaxLevels /\ para.ready \in BOOLEAN
  /\ \A i \in Levels : {para.type[i], para.levelPara[i]} \subseteq Types \cup {NoType}
  /\ KeyOK(prv) /\ KeyOK(store)
  /\ \A i \in Levels : cache[i].valid => cache[i].tree # NoTree
  /\ bound \in Bounds /\ seeds \in 0..bound.seeds

\* No one-time key signs two different things: neither two messages nor two
\* public keys of the level below, whatever fails in between
\* (CRYPT_HSS_Sign advances the counter before it signs).
OneTimeUse ==
  \A s, t \in spent : s.id = t.id /\ s.q = t.q => s.msg = t.msg

\* A signature that CRYPT_HSS_Sign hands out verifies under the public key
\* of the key generation: every authentication path is of the tree that the
\* level above signed, although trees are cached from one call to the next.
SignatureVerifies ==
  sig # NoKey =>
    \A k \in published :
      k.key.id = <<sig.seed>> => HssTree_Verify(k.levels, k.key, sig.msg, sig.parts)

\* As long as a context holds the same master seed its counter never goes
\* back, neither by an import of an exported key nor by wrapping in its
\* HSS_PRVKEY_COUNTER_LEN bytes, and every CRYPT_HSS_Sign, also one that fails on the
\* way, moves it on.  (Callers that set parameters under a key can break
\* this, see Setters.)
CounterMonotone ==
  [][prv # NoKey /\ prv' # NoKey /\ prv'.seed = prv.seed =>
       /\ prv'.counter >= prv.counter
       /\ calls' # calls => prv'.counter > prv.counter]_vars

=============================================================================
