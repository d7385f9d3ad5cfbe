---------------------------- MODULE MCMemoryBus ----------------------------
(***************************************************************************)
(* MemoryBus with three lanes and words of two bytes.  Words 0, 2 and 4    *)
(* are in one bank, word 1 in the other.  A lane stores its own value.     *)
(***************************************************************************)
EXTENDS MemoryBus

Load(a)         == [op |-> "load", addr |-> a, data |-> << >>]
Store(a, mask, v) == [op |-> "store", addr |-> a, data |-> [b \in mask |-> v]]

\* Lane l uses the word words[l + 1]; -1 stands for a lane that is masked off.
Active(words) == {l \in Lanes : words[l + 1] >= 0}
Loads(words)  == [l \in Active(words) |-> Load(words[l + 1])]
\* Whole words, or lane l the bytes masks[l + 1].
Stores(words) == [l \in Active(words) |-> Store(words[l + 1], Bytes, l + 1)]
Packed(words, masks) ==
  [l \in Active(words) |-> Store(words[l + 1], masks[l + 1], l + 1)]

\* Three words of a bank, two and one of them again, two banks; stores to
\* the same word by lanes that need one port, two ports, or wait.
LoadInstrs  == {Loads(p) : p \in {<<0, 2, 4>>, <<2, 2, 0>>, <<1, -1, 0>>}}
StoreInstrs == {Stores(p) : p \in {<<0, 2, 4>>, <<0, 2, 0>>, <<2, 0, 0>>, <<0, 2, 2>>}}
                 \cup {Packed(<<0, 0, 0>>, <<{1}, {2}, {1}>>)}

\* Only core 0 loads; core 1 stores.
OneLoads == [c \in Cores |-> IF c = 0 THEN LoadInstrs \cup StoreInstrs
                             ELSE {Stores(<<0, 2, 4>>), Stores(<<2, 0, 0>>)}]
\* All cores load.
AllLoad == [c \in Cores |-> {Loads(<<0, 2, 1>>), Loads(<<-1, 0, 0>>), Stores(<<0, 2, 0>>)}]

MCHost == {Load(0), Store(0, Bytes, 9), Store(2, Bytes, 9)}
=============================================================================
