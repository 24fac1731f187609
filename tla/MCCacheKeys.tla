---------------------------- MODULE MCCacheKeys ----------------------------
(* Decorated functions, argument objects and calls few enough for TLC. *)
EXTENDS CacheKeys

\* 1 is one object, the string of content 1 exists twice; a list hides in a tuple.
One   == 1
A1    == 2
A2    == 3
B     == 4
List  == 5
TupleA    == 6
TupleList == 7
Dog == 8
Cat == 9
KindOf == <<Flat, Text, Text, Text, Other, Tuple, Tuple, Class, Class>>
ContentOf == <<1, 1, 1, 2, 1, <<A1>>, <<List>>, 1, 2>>

AllObjects == DOMAIN KindOf
TwoNames == {A1, B}

\* Two functions of one name (closures), each with its cache; a method that
\* names its receiver's class, and one that does not.
SomeFunctions == {"f", "h", "speak", "walk"}
BaseOf == [f |-> "m:f", h |-> "m:f", speak |-> "m:speak", walk |-> "m:walk"]
Caches == [f |-> "default", h |-> "other", speak |-> "default",
           walk |-> "default"]
Receivers == [f |-> "", h |-> "", speak |-> "self", walk |-> "cls"]
Includes  == [f |-> FALSE, h |-> FALSE, speak |-> TRUE, walk |-> FALSE]

Passing(objects, keywords) ==
    {ks \in SeqOf(TwoNames \X objects, keywords) :
        \A i, j \in DOMAIN ks : i # j => ks[i][1] # ks[j][1]}

CallsOf(fs, args, kwargs) == [fn : fs, args : args, kwargs : kwargs]

\* Functions get strings and a list, by position or by name; methods values
\* of every kind.
SomeCalls ==
    CallsOf({"f"}, SeqOf({A1, A2}, 1), Passing({A1, A2}, 2))
    \cup CallsOf({"h"}, {<<>>, <<A1>>}, Passing({A1, List}, 1))
    \cup CallsOf({"speak", "walk"},
                 {<<r>> \o rest : r \in {Dog, Cat},
                                 rest \in SeqOf({One, A1, List, TupleA, TupleList, Dog}, 1)},
                 {<<>>})

\* At most this many entries at once.
MaxEntries == 2
FewEntries == Cardinality(store) <= MaxEntries
=============================================================================
