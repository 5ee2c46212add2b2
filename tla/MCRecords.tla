----------------------------- MODULE MCRecords ------------------------------
(***************************************************************************)
(* What a message carries with it, on small instances: its id (Snowflake,  *)
(* with numbers 0 to 2 in each millisecond), its mentions (Mentions, texts *)
(* of up to three atoms), its lines (Multiline), its files (Uploads), its *)
(* reactions, its pin and its place in a read state.                       *)
(* They share no state, so a behaviour moves only the one that "focus"     *)
(* names and TLC sees the sum of their state spaces, not the product.      *)
(***************************************************************************)
EXTENDS Snowflake, Mentions, Multiline, Reactions, Pins, ReadState, Uploads

VARIABLE focus

MCInit ==
  /\ Init /\ MentionInit /\ MultilineInit /\ ReactInit /\ PinInit
  /\ ReadInit /\ UploadInit
  /\ focus \in {"ids", "mentions", "lines", "reactions", "pins", "reads", "uploads"}
  /\ focus # "mentions" => content = <<Sign(" ")>> /\ \A p \in Bouncers : nicks[p] = <<"a">>
  /\ focus # "lines" => hasCap /\ \A l \in LineLimits, b \in ByteLimits : maxLines <= l /\ maxBytes <= b

\* What all parts but the one named leave alone.
Others(part) ==
  /\ focus = part
  /\ part # "ids" => UNCHANGED vars
  /\ part # "mentions" => UNCHANGED mentionVars
  /\ part # "lines" => UNCHANGED lineVars
  /\ part # "reactions" => UNCHANGED reactVars
  /\ part # "pins" => UNCHANGED pinVars
  /\ part # "reads" => UNCHANGED readVars
  /\ part # "uploads" => UNCHANGED uploadVars
  /\ UNCHANGED focus

MCNext ==
  \/ Others("ids") /\ Next
  \/ Others("mentions") /\ MentionNext
  \/ Others("lines") /\ MultilineNext
  \/ Others("reactions") /\ ReactNext
  \/ Others("pins") /\ PinNext
  \/ Others("reads") /\ ReadNext
  \/ Others("uploads") /\ UploadNext

MCSpec == MCInit /\ [][MCNext]_<<vars, mentionVars, lineVars, reactVars,
                           pinVars, readVars, uploadVars, focus>>
=============================================================================
