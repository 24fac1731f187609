------------------------------ MODULE CacheKeys ------------------------------
(***************************************************************************)
(* The default keys of @cached (zodiac_core/cache/decorators.py): which    *)
(* calls of decorated functions are answered with one another's results.   *)
(*                                                                         *)
(* A Python object is known by its identity; Kind and Content say what it  *)
(* holds.  Identities matter because the key is a hash of a pickle, and    *)
(* pickle writes a string it has already written as a reference: calls     *)
(* with equal arguments may pickle differently.  The hash is taken to be   *)
(* injective, and one call is one step: what happens while calls for one   *)
(* key overlap is the subject of GetOrSet.                                 *)
(***************************************************************************)
EXTENDS Naturals, Sequences, FiniteSets, SequencesExt

CONSTANTS
  Names,      \* the strings keyword arguments are named by
  Objects,    \* the objects calls pass, closed under the members of tuples
  Kind,       \* Kind[o]: what o is, one of the five below
  Content,    \* Content[o]: its value, a number; a tuple's members, a sequence
  Functions,  \* the decorated functions
  Base,       \* Base[f]: "module:qualname" of f; closures may share one
  CacheOf,    \* CacheOf[f]: the cache f names, or the default one
  Receiver,   \* Receiver[f]: f's first parameter is "cls", "self" or neither ("")
  Included,   \* Included[f]: include_cls for a "cls", include_self for a "self"
  Calls       \* the calls that are made: function, positional and keyword arguments

VARIABLES
  store,   \* the entries of the caches: key, cache, and the call that filled it
  answered \* the last call, if the cache answered it, and the call that computed the answer

keysVars == <<store, answered>>

Flat  == "flat"   \* None, bool, int, float: pickled in place every time
Text  == "text"   \* str, bytes: pickled once, then referred to by identity
Tuple == "tuple"
Class == "class"  \* a class, or an instance: worth its module and qualname
Other == "other"  \* list, dict, ORM object...

------------------------------------------------------------------------------
(* Calls. *)

\* A keyword is passed once, and a decorated method is called on a receiver.  The
\* numbers that stand for the names are in the order of the names.
ASSUME CallsAssumption ==
  /\ \A n \in Names : Content[n] \in Nat
  /\ \A c \in Calls :
       /\ c.fn \in Functions /\ c.args \in Seq(Objects) /\ c.kwargs \in Seq(Names \X Objects)
       /\ \A i, j \in DOMAIN c.kwargs : i # j => Content[c.kwargs[i][1]] # Content[c.kwargs[j][1]]
       /\ Receiver[c.fn] # "" => c.args # <<>> /\ Kind[c.args[1]] = Class

\* Whether the key builder accepts a value (_normalize_key_part).
Supported[o \in Objects] ==
  \/ Kind[o] \in {Flat, Text}
  \/ Kind[o] = Tuple /\ \A i \in DOMAIN Content[o] : Supported[Content[o][i]]

\* What an argument is worth, whatever object carries it.
Value[o \in Objects] ==
  IF Kind[o] = Tuple
  THEN <<Tuple, [i \in DOMAIN Content[o] |-> Value[Content[o][i]]]>>
  ELSE <<Kind[o], Content[o]>>

\* The strings and bytes pickle meets inside a value, in its order.
Strings[o \in Objects] ==
  CASE Kind[o] = Text  -> <<o>>
    [] Kind[o] = Tuple -> FlattenSeq([i \in DOMAIN Content[o] |-> Strings[Content[o][i]]])
    [] OTHER           -> <<>>

------------------------------------------------------------------------------
(* The key. *)

\* The receiver is named by its class when the decorator asks for it.
NamesReceiver(c) == Receiver[c.fn] # "" /\ Included[c.fn] /\ c.args # <<>>

\* normalized_args_input less the receiver that has been replaced by a name.
PlainArgs(c) == IF NamesReceiver(c) THEN Tail(c.args) ELSE c.args
ReceiverName(c) == IF NamesReceiver(c) THEN <<Content[c.args[1]]>> ELSE <<>>

Accepts(c) == /\ \A i \in DOMAIN PlainArgs(c) : Supported[PlainArgs(c)[i]]
              /\ \A i \in DOMAIN c.kwargs : Supported[c.kwargs[i][2]]

\* Mutant: The keywords are left in call order.
SortedKwargsUnsorted(c) == c.kwargs

\* sorted(kwargs.items()): the same pairs, their names ascending.
SortedKwargs(c) ==
  CHOOSE kws \in [DOMAIN c.kwargs -> Range(c.kwargs)] :
    /\ Range(kws) = Range(c.kwargs)
    /\ \A i, j \in DOMAIN kws : i < j => Content[kws[i][1]] < Content[kws[j][1]]

\* Mutant: The keywords' values are pickled without their names.
PickleNameless(c) ==
  [receiver |-> ReceiverName(c), shared |-> {},
   args |-> [i \in DOMAIN PlainArgs(c) |-> Value[PlainArgs(c)[i]]],
   kwargs |-> [i \in DOMAIN c.kwargs |-> Value[SortedKwargs(c)[i][2]]]]

\* pickle.dumps: the values in order, and which strings among them are one
\* object.  The receiver's name is a string made for the call, and the tuples
\* are rebuilt by normalisation, so neither is shared with anything.
Pickle(c) ==
  LET kws == SortedKwargs(c)
      ids == FlattenSeq([i \in DOMAIN PlainArgs(c) |-> Strings[PlainArgs(c)[i]]])
             \o FlattenSeq([i \in DOMAIN kws |-> <<kws[i][1]>> \o Strings[kws[i][2]]])
  IN [receiver |-> ReceiverName(c),
      args     |-> [i \in DOMAIN PlainArgs(c) |-> Value[PlainArgs(c)[i]]],
      kwargs   |-> [i \in DOMAIN kws |-> <<Content[kws[i][1]], Value[kws[i][2]]>>],
      shared   |-> {p \in (DOMAIN ids) \X (DOMAIN ids) :
                      p[1] < p[2] /\ ids[p[1]] = ids[p[2]]}]

DefaultKey(c) == <<Base[c.fn], Pickle(c)>>

------------------------------------------------------------------------------
(* The wrapper. *)

KeysInit == store = {} /\ answered = <<>>

Found(c) == {e \in store : e.cache = CacheOf[c.fn] /\ e.key = DefaultKey(c)}

\* An unsupported argument raises TypeError before anything is looked up.
Reject(c) == /\ ~Accepts(c)
             /\ answered' = <<>>
             /\ UNCHANGED store

\* The key is in the cache: the function is not called.
Hit(c) == /\ Accepts(c)
          /\ \E e \in Found(c) : answered' = <<c, e.call>>
          /\ UNCHANGED store

\* It is not: the function runs, and its result is stored.
Miss(c) == /\ Accepts(c) /\ Found(c) = {}
           /\ answered' = <<>>
           /\ store' = store \union
                {[cache |-> CacheOf[c.fn], key |-> DefaultKey(c), call |-> c]}

\* It returns None, or raises: nothing is stored (_skip_none).
MissUnstored(c) == /\ Accepts(c) /\ Found(c) = {}
                   /\ answered' = <<>>
                   /\ UNCHANGED store

\* A stored entry reaches its ttl.
Expire == /\ \E e \in store : store' = store \ {e}
          /\ answered' = <<>>

Wrapper(c) == Reject(c) \/ Hit(c) \/ Miss(c) \/ MissUnstored(c)

KeysNext == (\E c \in Calls : Wrapper(c)) \/ Expire

KeysSpec == KeysInit /\ [][KeysNext]_keysVars

------------------------------------------------------------------------------
(* Properties. *)

\* Calls that pass the same values: the same function as far as the key can
\* tell, the same receiver class where it counts, equal arguments by position
\* and by name.
EqualCalls(c, d) ==
  /\ Base[c.fn] = Base[d.fn]
  /\ ReceiverName(c) = ReceiverName(d)
  /\ [i \in DOMAIN PlainArgs(c) |-> Value[PlainArgs(c)[i]]]
       = [i \in DOMAIN PlainArgs(d) |-> Value[PlainArgs(d)[i]]]
  /\ {<<Content[c.kwargs[i][1]], Value[c.kwargs[i][2]]>> : i \in DOMAIN c.kwargs}
       = {<<Content[d.kwargs[i][1]], Value[d.kwargs[i][2]]>> : i \in DOMAIN d.kwargs}

\* A call is only ever answered with what an equal call computed: arguments
\* that differ in value, in type, by position or by name never share an entry,
\* nor do two receiver classes when the decorator includes them
\* (_default_key_builder).
AnswersMatch ==
  answered # <<>> => /\ EqualCalls(answered[1], answered[2])
                     /\ CacheOf[answered[1].fn] = CacheOf[answered[2].fn]

\* Passing the same objects by the same names fills one entry, in whatever
\* order the keywords are written (sorted in _default_key_builder).
KeywordOrderIrrelevant ==
  \A e, g \in store :
    /\ e.call.fn = g.call.fn
    /\ e.call.args = g.call.args
    /\ Range(e.call.kwargs) = Range(g.call.kwargs)
    => e = g

==============================================================================
