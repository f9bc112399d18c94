---------------------------- MODULE ImageLoader ----------------------------
(***************************************************************************)
(* MemoryImage::load() (memory/image.cpp:35-127), token by token, with the *)
(* stores of the program between two loads.  A file is a sequence of       *)
(* lines, a line a sequence of tokens; a token is an address or a byte     *)
(* with the number its digits stand for, None when they are no number.     *)
(***************************************************************************)
EXTENDS Signals, SequencesExt

CONSTANTS
  MemorySize,   \* kMemorySize
  MaxTokens,    \* tokens of a file
  MaxLines      \* lines of a file

VARIABLES
  bytes,                    \* bytes_
  load_byte_count,          \* load_byte_count_
  highest_loaded_address,   \* highest_loaded_address_, None when empty
  current_address,          \* None until has_current_address
  line_number,
  result,   \* what load() returned, None while it reads
  file      \* history: the lines read so far, None once the program has stored

image == <<bytes, load_byte_count, highest_loaded_address>>
vars == <<image, current_address, line_number, result, file>>

Tokens == [kind : {"address"}, value : Maybe(0 .. MemorySize)]
            \cup [kind : {"byte"}, value : Maybe(0 .. ByteSize)]

zeros == [address \in 0 .. MemorySize - 1 |-> 0]

----------------------------------------------------------------------------
Init ==
  /\ bytes = zeros /\ load_byte_count = 0 /\ highest_loaded_address = None
  /\ current_address = None /\ line_number = 0
  /\ result = [status |-> "kSuccess", loaded_byte_count |-> 0, error_line |-> 0]
  /\ file = <<>>

clear == bytes' = zeros /\ load_byte_count' = 0 /\ highest_loaded_address' = None

(* load() is called, for the first time or again. *)
Begin ==
  /\ result # None
  /\ clear
  /\ current_address' = None /\ line_number' = 0
  /\ result' = None
  /\ file' = <<>>

(* std::getline() finds another line. *)
GetLine ==
  /\ result = None
  /\ Len(file) < MaxLines
  /\ line_number' = line_number + 1
  /\ file' = Append(file, <<>>)
  /\ UNCHANGED <<image, current_address, result>>

make_result(status, error_line) ==
  [status |-> status, loaded_byte_count |-> load_byte_count, error_line |-> error_line]

in_memory_or_behind(address) == address <= MemorySize
in_memory(address) == address < MemorySize

(* Why a token ends the load, in the order of the tests. *)
token_fault(token) ==
  CASE token.kind = "address" /\ token.value = None -> "kInvalidAddress"
    [] token.kind = "address" /\ token.value # None /\ ~in_memory(token.value) ->
         "kAddressOutOfBounds"
    [] token.kind = "byte" /\ current_address = None -> "kMissingAddress"
    [] token.kind = "byte" /\ current_address # None /\ token.value \notin Byte -> "kInvalidByte"
    [] token.kind = "byte" /\ current_address # None /\ token.value \in Byte
         /\ ~in_memory(current_address) -> "kAddressOutOfBounds"
    [] OTHER -> None

latest_address(address) == address
higher_address(address) ==
  IF highest_loaded_address = None \/ address > highest_loaded_address
  THEN address ELSE highest_loaded_address

take_token(token) ==
  \/ /\ token.kind = "address"
     /\ current_address' = token.value
     /\ UNCHANGED image
  \/ /\ token.kind = "byte"
     /\ bytes' = [bytes EXCEPT ![current_address] = token.value]
     /\ load_byte_count' = load_byte_count + 1
     /\ highest_loaded_address' = higher_address(current_address)
     /\ current_address' = current_address + 1

Token ==
  /\ result = None
  /\ file # <<>> /\ Len(FlattenSeq(file)) < MaxTokens
  /\ \E token \in Tokens :
       /\ file' = [file EXCEPT ![Len(file)] = Append(@, token)]
       /\ \/ /\ token_fault(token) = None
             /\ take_token(token)
             /\ UNCHANGED result
          \/ /\ token_fault(token) # None
             /\ result' = make_result(token_fault(token), line_number)
             /\ UNCHANGED <<image, current_address>>
  /\ UNCHANGED line_number

(* No further line: the end of the file, or the stream failed. *)
End ==
  /\ result = None
  /\ \E status \in {"kSuccess", "kStreamError"} : result' = make_result(status, 0)
  /\ UNCHANGED <<image, current_address, line_number, file>>

(* write_byte(), by the program that runs on the image. *)
StoreByte ==
  /\ result # None
  /\ \E address \in DOMAIN bytes, value \in Byte : bytes' = [bytes EXCEPT ![address] = value]
  /\ file' = None
  /\ UNCHANGED <<load_byte_count, highest_loaded_address, current_address, line_number, result>>

Next == Begin \/ GetLine \/ Token \/ End \/ StoreByte

Spec == Init /\ [][Next]_vars

----------------------------------------------------------------------------
(* What a file says, read as a whole. *)
tokens == FlattenSeq(file)

address_tokens_before(k) == {j \in 1 .. k - 1 : tokens[j].kind = "address"}

(* Where the byte of a token goes: behind the latest address, as many      *)
(* bytes further as there are in between.                                  *)
place(k) ==
  LET j == Max(address_tokens_before(k)) IN tokens[j].value + (k - j - 1)

is_sound(k) ==
  \/ tokens[k].kind = "address" /\ tokens[k].value \in 0 .. MemorySize - 1
  \/ /\ tokens[k].kind = "byte" /\ tokens[k].value \in Byte
     /\ address_tokens_before(k) # {} /\ place(k) \in 0 .. MemorySize - 1

placed == {k \in DOMAIN tokens : tokens[k].kind = "byte" /\ is_sound(k)}

(* While a file is read and after it, complete or cut short by a fault,    *)
(* the image holds what the tokens read so far say and nothing of an       *)
(* earlier load or run: the last byte for an address wins, the rest is     *)
(* zero, and the statistics (image.cpp:109-117) count overwritten bytes    *)
(* too but name the highest address, not the last.                         *)
ImageIsTheFile ==
  file # None =>
    /\ \A address \in DOMAIN bytes :
         LET writers == {k \in placed : place(k) = address}
         IN  bytes[address] = IF writers = {} THEN 0 ELSE tokens[Max(writers)].value
    /\ load_byte_count = Cardinality(placed)
    /\ highest_loaded_address =
         IF placed = {} THEN None ELSE Max({place(k) : k \in placed})

(* load() stops at the first token that is not sound, wherever it is, and  *)
(* says on which line (image.cpp:63-107); a file without one is accepted   *)
(* unless the stream fails.                                                *)
FaultsAreReported ==
  file # None /\ result # None =>
    LET faulty == {k \in DOMAIN tokens : ~is_sound(k)}
    IN  /\ faulty \subseteq {Len(tokens)}
        /\ faulty = {} <=> result.status \in {"kSuccess", "kStreamError"}
        /\ result.error_line = IF faulty = {} THEN 0 ELSE Len(file)
        /\ result.loaded_byte_count = Cardinality(placed)
============================================================================
