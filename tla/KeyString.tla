------------------------------ MODULE KeyString ------------------------------
(***************************************************************************)
(* The strings that SaveOrIgnoreResult() makes of sorted outputs: the key  *)
(* of the lore, 8 bits to a character, and the two fields of a datalog     *)
(* line, 6 bits to a character; and how the back-end makes a key to look   *)
(* for (backend/parser.php) and reads a value (backend/solver.php).        *)
(*                                                                         *)
(* A character is its index in the character set, a bit field a pair of a  *)
(* value and a width.                                                      *)
(***************************************************************************)
EXTENDS OutputOrder, SequencesExt

CONSTANTS
  NumInputs,    \* num_inputs, at most 4
  Wirings,      \* the gate_inputs of some networks
  sys_outputs   \* sys_outputs[n]: the gate of output n

bits == 2^NumInputs

ASSUME FieldsAssumption ==
  /\ NumInputs \in 1..4 /\ WordValues \subseteq 0..2^bits - 1 /\ NumWords = 1
  /\ MaxOutputs < 32
  /\ Wirings \subseteq Seq(0..63)
  /\ sys_outputs \in [1..MaxOutputs -> 0..31]
-----------------------------------------------------------------------------
\* make_string().

\* addbits() adds above what is in the cache, and takes characters from below.
AddBits(outbits, s, value, n) ==
  LET cache == s.cache + value * 2^s.cached_bits
      total == s.cached_bits + n
      chars == total \div outbits
  IN  [cache       |-> cache \div 2^(outbits * chars),
       cached_bits |-> total % outbits,
       binary      |-> s.binary \o
                         [c \in 1..chars |-> (cache \div 2^(outbits * (c - 1))) % 2^outbits]]

AddAll(fields, outbits) ==
  FoldLeft(LAMBDA s, field : AddBits(outbits, s, field[1], field[2]),
           [cache |-> 0, cached_bits |-> 0, binary |-> << >>], fields)

\* Mutant of MakeString: bits that do not fill a character are left out.
MakeStringCut(fields, outbits) == AddAll(fields, outbits).binary

MakeString(fields, outbits) ==
  LET s == AddAll(fields, outbits) IN
  IF s.cached_bits = 0 THEN s.binary ELSE AddBits(outbits, s, 0, outbits - s.cached_bits).binary

\* keymaker: the bits of the tables one by one in a line, all of a table at
\* once in the lore.  With 5 inputs and more the latter are whole words.
KeyFields(tables, outbits) ==
  IF outbits = 6
  THEN << <<NumInputs, 5>>, <<Len(tables), 5>> >> \o
       [n \in 1..Len(tables) * bits |->
          <<(tables[(n - 1) \div bits + 1][1] \div 2^((n - 1) % bits)) % 2, 1>>]
  ELSE [n \in 1..Len(tables) |-> <<tables[n][1], bits>>]

\* Mutant of ValueFields: the outputs as the network has them.
ValueFieldsUnsorted(wiring, order) ==
  [n \in 1..Len(wiring) |-> <<wiring[n], 6>>] \o
  [n \in 1..Len(order) |-> <<sys_outputs[n], 5>>]

\* valuemaker.
ValueFields(wiring, order) ==
  [n \in 1..Len(wiring) |-> <<wiring[n], 6>>] \o
  [n \in 1..Len(order) |-> <<sys_outputs[order[n]], 5>>]
-----------------------------------------------------------------------------
\* The back-end.

\* BASE64decoder: Get(n) reads characters until it has n bits.
Decoder(data) == [data |-> data, cache_data |-> 0, cache_bits |-> 0, pos |-> 1, got |-> << >>]
Get(d, n) ==
  LET more  == IF d.cache_bits >= n THEN 0 ELSE (n - d.cache_bits + 5) \div 6
      cache == d.cache_data +
               FoldLeft(LAMBDA sum, c :
                          sum + d.data[d.pos + c - 1] * 2^(d.cache_bits + 6 * (c - 1)),
                        0, [c \in 1..more |-> c])
  IN  [d EXCEPT !.cache_data = cache \div 2^n, !.cache_bits = @ + 6 * more - n,
                !.pos = @ + more, !.got = Append(@, cache % 2^n)]

GetAll(data, widths) == FoldLeft(Get, Decoder(data), widths).got

\* Parser::LookUp(): the key for a truth table that has a row for every value of
\* the inputs, with a bit for every output.  BASE64encoder is make_string().
LookUp(num_inputs, num_outputs, truthtable) ==
  MakeString(<< <<num_inputs, 5>>, <<num_outputs, 5>> >> \o
             [n \in 1..num_outputs * Len(truthtable) |->
                LET output == (n - 1) \div Len(truthtable)
                    row    == ((n - 1) % Len(truthtable)) + 1
                IN  <<(truthtable[row] \div 2^output) % 2, 1>>], 6)

\* Solver::Solve(): the sizes are read from the key, the gates from the value.
SolverSizes(key) == GetAll(key, <<5, 5>>)
SolverGates(value, num_gates, num_outputs) ==
  LET all == GetAll(value, [n \in 1..2 * num_gates |-> 6] \o [n \in 1..num_outputs |-> 5])
  IN  [gate_from |-> SubSeq(all, 1, 2 * num_gates),
       out_from  |-> SubSeq(all, 2 * num_gates + 1, Len(all))]
-----------------------------------------------------------------------------
\* Properties.

\* The rows of the truth table that the parser has for these outputs.
Rows(tables) == [row \in 1..bits |->
  FoldLeft(LAMBDA sum, n : sum + ((tables[n][1] \div 2^(row - 1)) % 2) * 2^(n - 1),
           0, [n \in 1..Len(tables) |-> n])]

\* A line can be found and tells the truth: its key is the one the back-end
\* makes of the same outputs, and of the value the back-end makes the gates of
\* the network, and for each output of the key a gate that computes it, although
\* the outputs have been sorted and the fields run across the characters.
LineTellsTheTruth == pc = "next" /\ i = NumOutputs => \A wiring \in Wirings :
  LET tables == [n \in 1..NumOutputs |-> results[Now][output_order[n]]]
      key    == MakeString(KeyFields(tables, 6), 6)
      gates  == SolverGates(MakeString(ValueFields(wiring, output_order), 6),
                            Len(wiring) \div 2, NumOutputs)
  IN  /\ key = LookUp(NumInputs, NumOutputs, Rows(tables))
      /\ SolverSizes(key) = <<NumInputs, NumOutputs>>
      /\ gates.gate_from = wiring
      /\ \A n \in 1..NumOutputs : \E m \in 1..NumOutputs :
           gates.out_from[n] = sys_outputs[m] /\ tables[n] = results[Now][m]

\* The lore takes two lists of outputs for the same only if they are: nothing
\* else than the characters says where a table ends.
LoreKeysDiffer == pc = "done" /\ keys[1] # NoKey =>
  \A tables \in [1..NumOutputs -> Tables] :
    MakeString(KeyFields(tables, 8), 8) = MakeString(KeyFields(keys[1], 8), 8) => tables = keys[1]
=============================================================================
