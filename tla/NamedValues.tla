----------------------------- MODULE NamedValues ------------------------------
(***************************************************************************)
(* The storages of variables by name: named_values of src/gen.c, one table *)
(* for the globals and all functions of a compilation, which nothing       *)
(* leaves until its end.  The table is uthash's: an entry is put in front  *)
(* of the chain of its bucket, and the chains are turned around when the   *)
(* table grows.  What the storages hold, and which names a function        *)
(* declares and looks up, is in the module Variables, whose actions        *)
(* consist of these.                                                       *)
(***************************************************************************)
EXTENDS Naturals, SequencesExt, FiniteSetsExt

CONSTANTS
  Hash,       \* of each name
  Buckets, Threshold   \* HASH_INITIAL_NUM_BUCKETS and HASH_BKT_CAPACITY_THRESH

Names == DOMAIN Hash

ASSUME NamedValuesAssumptions ==
  /\ \A name \in Names : Hash[name] \in Nat
  /\ Buckets \in Nat \ {0} /\ Threshold \in Nat \ {0}

VARIABLES
  slots,      \* history: the storages in the order they were made; owner 0 for globals
  table,      \* named_values
  uses,       \* history: the names looked up by the function so far: [name, slot, own]
  owner       \* the function that code is generated for, 0 for the globals

namedVars == <<slots, table, uses, owner>>

-----------------------------------------------------------------------------
(* uthash *)

EmptyTable == [chains |-> [b \in 1..Buckets |-> <<>>], mult |-> [b \in 1..Buckets |-> 0],
               ineff |-> 0, noexpand |-> FALSE, grown |-> 0]
BucketOf(name, n) == (Hash[name] % n) + 1
Items(t) == FoldFunction(LAMBDA chain, sum : Len(chain) + sum, 0, t.chains)

\* HASH_EXPAND_BUCKETS: one after the other, the items of a chain that belong to the bucket b
\* of n are put in front of each other.  Moved(...)[k] is what the first k items make.
Moved(chain, b, n, all) ==
  LET moved[k \in 0..Len(chain)] ==
        IF k = 0 THEN <<>>
        ELSE IF BucketOf(all[chain[k]].name, n) = b THEN <<chain[k]>> \o moved[k - 1]
        ELSE moved[k - 1]
  IN moved
RebuiltShort(chain, b, n, all) ==   \* mutant: the last one is forgotten
  Moved(chain, b, n, all)[IF chain = <<>> THEN 0 ELSE Len(chain) - 1]
Rebuilt(chain, b, n, all) == Moved(chain, b, n, all)[Len(chain)]

\* The length that chains should not exceed, in a table of n buckets
Ideal(items, n) == items \div n + (IF items % n # 0 THEN 1 ELSE 0)

\* How far the chains are allowed to exceed it: counted up as they are filled.
Mult(chains, items) ==
  LET ideal == Ideal(items, Len(chains))
      mult[c \in 0..items] ==
        IF c <= ideal THEN 0 ELSE mult[c - 1] + (IF c > mult[c - 1] * ideal THEN 1 ELSE 0)
  IN [b \in 1..Len(chains) |-> mult[Len(chains[b])]]

\* Growth that leaves more than half of the items behind that length is of no effect.
Ineff(before, chains, items) ==
  LET ideal == Ideal(items, Len(chains))
      Above(chain) == IF Len(chain) > ideal THEN Len(chain) - ideal ELSE 0
  IN IF FoldFunction(LAMBDA chain, sum : Above(chain) + sum, 0, chains) > items \div 2 THEN before + 1 ELSE 0

\* The items of a bucket go to two of the twice as many.
Expanded(t, all) ==
  LET old == Len(t.chains)
      chains == [b \in 1..2 * old |-> Rebuilt(t.chains[((b - 1) % old) + 1], b, 2 * old, all)]
      ineff == Ineff(t.ineff, chains, Items(t))
  IN [chains |-> chains, mult |-> Mult(chains, Items(t)), ineff |-> ineff,
      noexpand |-> t.noexpand \/ ineff > 1, grown |-> t.grown + 1]

\* HASH_ADD_KEYPTR of slot s; all are the storages with it.
AddLast(t, s, all) ==   \* mutant: at the end of the chain
  [t EXCEPT !.chains[BucketOf(all[s].name, Len(t.chains))] = Append(@, s)]
Add(t, s, all) ==
  LET b == BucketOf(all[s].name, Len(t.chains))
      u == [t EXCEPT !.chains[b] = <<s>> \o @]
  IN IF Len(u.chains[b]) >= (u.mult[b] + 1) * Threshold /\ ~u.noexpand THEN Expanded(u, all) ELSE u

\* HASH_FIND_STR: 0 if there is none.
Find(name) ==
  LET chain == table.chains[BucketOf(name, Len(table.chains))]
      k == SelectInSeq(chain, LAMBDA s : slots[s].name = name)
  IN IF k = 0 THEN 0 ELSE chain[k]

-----------------------------------------------------------------------------
(* The names of a compilation *)

\* The latest storage of the function for the name so far, or else the global.
Own(name) ==
  LET mine == {s \in DOMAIN slots : slots[s].name = name /\ slots[s].owner = owner}
      globals == {s \in DOMAIN slots : slots[s].name = name /\ slots[s].owner = 0}
      Latest(set) == IF set = {} THEN 0 ELSE CHOOSE s \in set : \A o \in set : o <= s
  IN IF mine # {} THEN Latest(mine) ELSE Latest(globals)

NamesInit == slots = <<>> /\ table = EmptyTable /\ uses = {} /\ owner = 0

\* A new storage, and its entry in the table.
Declare(name) ==
  /\ slots' = Append(slots, [name |-> name, owner |-> owner])
  /\ table' = Add(table, Len(slots) + 1, slots')

\* gen_codegen_variable() and gen_get_address(); a name that is not there ends the compilation.
LookUp(names) ==
  /\ \A name \in names : Find(name) # 0
  /\ uses' = uses \union {[name |-> name, slot |-> Find(name), own |-> Own(name)] : name \in names}

\* The code of the next function
NextFunction == owner' = owner + 1 /\ uses' = {} /\ UNCHANGED <<slots, table>>

NamesNext ==
  \/ \E names \in SUBSET Names :
       /\ LookUp(names)
       /\ UNCHANGED owner
       /\ (\E name \in Names : Declare(name)) \/ UNCHANGED <<slots, table>>
  \/ NextFunction

NamesSpec == NamesInit /\ [][NamesNext]_namedVars

-----------------------------------------------------------------------------
(* Properties *)

\* Every storage is in the table once, in the chain of its name, and nothing else is in it
\* (HASH_ADD_TO_BKT and HASH_EXPAND_BUCKETS): none is lost or doubled when the table grows.
StoredOnce ==
  /\ \A s \in DOMAIN slots :
       LET chain == table.chains[BucketOf(slots[s].name, Len(table.chains))]
       IN \E i \in DOMAIN chain : chain[i] = s /\ \A j \in DOMAIN chain : chain[j] = s => j = i
  /\ \A b \in DOMAIN table.chains : \A s \in Range(table.chains[b]) :
       s \in DOMAIN slots /\ BucketOf(slots[s].name, Len(table.chains)) = b

\* gen_codegen_variable() finds by its name the variable the text means, the latest one of the
\* function or else the global.  It finds something else in two cases only: an earlier function
\* declared the name, or the table has grown since, and an older one may stand in front.
Foreign(u) == slots[u.slot].owner \notin {0, owner}
NearestUnlessGrown == \A u \in uses : u.slot = u.own \/ Foreign(u) \/ table.grown > 0
================================================================================
