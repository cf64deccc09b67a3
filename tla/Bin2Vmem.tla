------------------------------ MODULE Bin2Vmem ------------------------------
(***************************************************************************)
(* The converter from binary images to the VMEM files that simulations and *)
(* boot ROMs load (src/tools/utils/bin2vmem.c): the command line, the copy *)
(* of the image, byte by byte, and the two kinds of padding.  Byte k of    *)
(* the image is the number k; the output is a sequence of rows, each with  *)
(* its printed address, if any, and its words of bytes.                    *)
(***************************************************************************)
EXTENDS Integers, Sequences

LOCAL INSTANCE FiniteSetsExt
LOCAL INSTANCE SequencesExt

CONSTANTS
  WORDS_PER_LINE_DEFAULT,
  BYTES_PER_WORD_DEFAULT,
  CommandLines,  \* sequences of arguments [opt, val]; val is -1 where it is missing
  Images         \* lengths of the image

PAD_FILL == 0
NoAddr == -1

VARIABLES
  pc,       \* "args", "copy", "word", "row", "count", "addr", "done" or "failed"
  args,     \* arguments left
  fd,       \* the input file is open
  size, pos,  \* length of the image, bytes read
  bytes_per_word, bytes_per_word_tmp, words_per_line, printing_addr,
  pad_row_end, pad_row_number, pad_addr_end, pad_addr_number,
  current_word_addr, word_counter, byte_counter, total_byte_counter, row_counter,
  starting_new_line,
  out       \* rows written

options == <<fd, bytes_per_word, bytes_per_word_tmp, words_per_line, printing_addr, pad_row_end,
             pad_row_number, pad_addr_end, pad_addr_number>>
counters == <<current_word_addr, word_counter, byte_counter, row_counter, starting_new_line, out>>
vars == <<pc, args, size, pos, options, counters, total_byte_counter>>

(* bytes_per_word_tmp is not initialised.                                  *)
Init ==
  /\ pc = "args" /\ args \in CommandLines /\ fd = FALSE
  /\ size \in Images /\ pos = 0
  /\ bytes_per_word = BYTES_PER_WORD_DEFAULT /\ bytes_per_word_tmp \in {0, 1}
  /\ words_per_line = WORDS_PER_LINE_DEFAULT /\ printing_addr = TRUE
  /\ pad_row_end = FALSE /\ pad_row_number = 0 /\ pad_addr_end = FALSE /\ pad_addr_number = 0
  /\ current_word_addr = 0 /\ word_counter = 0 /\ byte_counter = 0 /\ total_byte_counter = 0
  /\ row_counter = 1 /\ starting_new_line = TRUE /\ out = <<>>

-----------------------------------------------------------------------------
(* The command line: one argument, with its value, per step.               *)

Synfmt ==
  /\ words_per_line' = 1 /\ printing_addr' = FALSE
  /\ UNCHANGED <<pc, fd, bytes_per_word, bytes_per_word_tmp, pad_row_end, pad_row_number, pad_addr_end,
                 pad_addr_number>>

(* -bpw=N, --bpw N: a value that is not positive is ignored; a missing one *)
(* is what the variable happens to hold.                                   *)
Bpw(val) ==
  /\ bytes_per_word_tmp' = IF val = -1 THEN bytes_per_word_tmp ELSE val
  /\ bytes_per_word' = IF bytes_per_word_tmp' > 0 THEN bytes_per_word_tmp' ELSE bytes_per_word
  /\ UNCHANGED <<pc, fd, words_per_line, printing_addr, pad_row_end, pad_row_number, pad_addr_end, pad_addr_number>>

(* --pad-to-row: not without a number, and not after --pad-to-addr.        *)
PadToRow(val) ==
  /\ IF val = -1 \/ pad_addr_end
     THEN pc' = "failed" /\ UNCHANGED <<pad_row_end, pad_row_number>>
     ELSE pad_row_end' = TRUE /\ pad_row_number' = val /\ UNCHANGED pc
  /\ UNCHANGED <<fd, bytes_per_word, bytes_per_word_tmp, words_per_line, printing_addr, pad_addr_end, pad_addr_number>>

(* --pad-to-addr: not without an address, and not twice.                   *)
PadToAddr(val) ==
  /\ IF val = -1 \/ pad_addr_end
     THEN pc' = "failed" /\ UNCHANGED <<pad_addr_end, pad_addr_number>>
     ELSE pad_addr_end' = TRUE /\ pad_addr_number' = val /\ UNCHANGED pc
  /\ UNCHANGED <<fd, bytes_per_word, bytes_per_word_tmp, words_per_line, printing_addr, pad_row_end, pad_row_number>>

(* Anything else is the input file.                                        *)
Open(val) ==
  /\ IF val = -1 THEN pc' = "failed" /\ UNCHANGED fd ELSE fd' = TRUE /\ UNCHANGED pc
  /\ UNCHANGED <<bytes_per_word, bytes_per_word_tmp, words_per_line, printing_addr, pad_row_end,
                 pad_row_number, pad_addr_end, pad_addr_number>>

Argument ==
  /\ pc = "args" /\ args # <<>>
  /\ args' = Tail(args)
  /\ LET a == Head(args) IN
       \/ a.opt = "synfmt" /\ Synfmt
       \/ a.opt = "bpw" /\ Bpw(a.val)
       \/ a.opt = "row" /\ PadToRow(a.val)
       \/ a.opt = "addr" /\ PadToAddr(a.val)
       \/ a.opt = "file" /\ Open(a.val)
  /\ UNCHANGED <<size, pos, counters, total_byte_counter>>

Start ==
  /\ pc = "args" /\ args = <<>>
  /\ pc' = IF fd THEN "copy" ELSE "failed"
  /\ UNCHANGED <<args, size, pos, options, counters, total_byte_counter>>

-----------------------------------------------------------------------------
(* The output.                                                             *)

(* The address counts bytes.                                               *)
NextRow_Bytes(words) ==
  IF words = words_per_line
  THEN /\ word_counter' = 0
       /\ current_word_addr' = current_word_addr + words_per_line * bytes_per_word
       /\ starting_new_line' = TRUE
       /\ row_counter' = row_counter + 1
  ELSE /\ word_counter' = words
       /\ starting_new_line' = FALSE
       /\ UNCHANGED <<current_word_addr, row_counter>>

(* The row is full: the next one starts.                                   *)
NextRow(words) ==
  IF words = words_per_line
  THEN /\ word_counter' = 0
       /\ current_word_addr' = current_word_addr + words_per_line
       /\ starting_new_line' = TRUE
       /\ row_counter' = row_counter + 1
  ELSE /\ word_counter' = words
       /\ starting_new_line' = FALSE
       /\ UNCHANGED <<current_word_addr, row_counter>>

(* A byte is printed, after the address on a new row and after a blank at  *)
(* the start of a word.                                                    *)
PrintByte(b) ==
  LET rows == IF starting_new_line
              THEN Append(out, [addr |-> IF printing_addr THEN current_word_addr ELSE NoAddr,
                                words |-> <<>>])
              ELSE out
      row == Last(rows)
      words == IF byte_counter = 0 THEN Append(row.words, <<b>>)
               ELSE Front(row.words) \o <<Append(Last(row.words), b)>>
      full == byte_counter + 1 = bytes_per_word
  IN  /\ out' = Front(rows) \o <<[row EXCEPT !.words = words]>>
      /\ byte_counter' = IF full THEN 0 ELSE byte_counter + 1
      /\ NextRow(IF full THEN word_counter + 1 ELSE word_counter)

CopyByte ==
  /\ pc = "copy" /\ pos < size
  /\ PrintByte(pos + 1)
  /\ pos' = pos + 1
  /\ UNCHANGED <<pc, args, size, options, total_byte_counter>>

EndOfFile ==
  /\ pc = "copy" /\ pos = size
  /\ pc' = CASE pad_row_end -> "word" [] ~pad_row_end /\ pad_addr_end -> "count" [] OTHER -> "done"
  /\ UNCHANGED <<args, size, pos, options, counters, total_byte_counter>>

(* Padding to a row first completes the last word.                         *)
PadWord ==
  /\ pc = "word"
  /\ pc' = "row"
  /\ IF byte_counter > 0
     THEN LET row == Last(out)
              fill == [k \in 1 .. bytes_per_word - byte_counter |-> PAD_FILL]
          IN  /\ out' = Front(out) \o <<[row EXCEPT !.words = Front(@) \o <<Last(@) \o fill>>]>>
              /\ byte_counter' = 0
              /\ NextRow(word_counter + 1)
     ELSE UNCHANGED counters
  /\ UNCHANGED <<args, size, pos, options, total_byte_counter>>

PadRow ==
  /\ pc = "row"
  /\ IF row_counter < pad_row_number + 1
     THEN PrintByte(PAD_FILL) /\ UNCHANGED pc
     ELSE pc' = "count" /\ UNCHANGED counters
  /\ UNCHANGED <<args, size, pos, options, total_byte_counter>>

(* "Figure out where we are".                                              *)
CountBytes ==
  /\ pc = "count"
  /\ total_byte_counter' = current_word_addr * bytes_per_word + word_counter * bytes_per_word + byte_counter
  /\ pc' = "addr"
  /\ UNCHANGED <<args, size, pos, options, counters>>

PadAddr ==
  /\ pc = "addr"
  /\ IF (pad_addr_end /\ total_byte_counter < pad_addr_number) \/ (pad_row_end /\ row_counter < pad_row_number + 1)
     THEN /\ PrintByte(PAD_FILL)
          /\ total_byte_counter' = total_byte_counter + 1
          /\ UNCHANGED pc
     ELSE pc' = "done" /\ UNCHANGED <<counters, total_byte_counter>>
  /\ UNCHANGED <<args, size, pos, options>>

Next == Argument \/ Start \/ CopyByte \/ EndOfFile \/ PadWord \/ PadRow \/ CountBytes \/ PadAddr

Spec == Init /\ [][Next]_vars

-----------------------------------------------------------------------------
(* Where a loader puts the words of a row: at its address, or after those  *)
(* of the rows before it.                                                  *)
RowAddr(r) ==
  IF out[r].addr # NoAddr THEN out[r].addr
  ELSE FoldLeft(LAMBDA n, x : n + Len(x.words), 0, SubSeq(out, 1, r - 1))

(* The bytes a loader stores, with their byte addresses.                   *)
Loaded ==
  UNION {UNION {{<<(RowAddr(r) + w - 1) * bytes_per_word + b - 1, out[r].words[w][b]>> :
                  b \in DOMAIN out[r].words[w]} : w \in DOMAIN out[r].words} : r \in DOMAIN out}

(* How much the options ask for.                                           *)
Padded ==
  LET whole == ((size + bytes_per_word - 1) \div bytes_per_word) * bytes_per_word
      rows == IF pad_row_end THEN Max({whole, pad_row_number * words_per_line * bytes_per_word}) ELSE size
  IN  IF pad_addr_end THEN Max({rows, pad_addr_number}) ELSE rows

(* In every format a loader finds the image, byte by byte at its address,  *)
(* followed by exactly the padding asked for, all words whole but perhaps  *)
(* the last one.  (bin2vmem, "Pad UP to (not including) that address")     *)
VmemFaithful ==
  pc = "done" =>
    /\ Loaded = {<<a, IF a < size THEN a + 1 ELSE PAD_FILL>> : a \in 0 .. Padded - 1}
    /\ \A r \in DOMAIN out, w \in 1 .. words_per_line :
         r < Len(out) \/ w < Len(out[r].words) =>
           w \in DOMAIN out[r].words /\ Len(out[r].words[w]) = bytes_per_word
=============================================================================
