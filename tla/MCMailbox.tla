----------------------------- MODULE MCMailbox -----------------------------
(***************************************************************************)
(* Instances of Mailbox for TLC.                                           *)
(***************************************************************************)
EXTENDS Mailbox

Pair(proptag, w1, w2) == [proptag |-> proptag, value |-> <<w1, w2>>]
Ask(proptag) == [retry |-> FALSE, tags |-> <<Pair(proptag, 5, 6)>>]

\* framebuffer_init under gpu_init, then what get_system_config asks for, and an
\* array with a tag that has no value before one that has.
KernelCalls ==
  <<[retry |-> TRUE, tags |-> <<Pair(FB_SET_PHYSICAL_DIMENSIONS, 656, 416),
                                Pair(FB_SET_VIRTUAL_DIMENSIONS, 656, 416),
                                Pair(FB_SET_BITS_PER_PIXEL, 24, 0),
                                Pair(FB_ALLOCATE_BUFFER, 16, 0)>>],
    Ask(GET_BOARD_REV), Ask(GET_ARM_MEMORY), Ask(GET_CLOCK_RATE),
    Ask(FB_GET_PHYSICAL_DIMENSIONS),
    [retry |-> FALSE, tags |-> <<Pair(FB_RELESE_BUFFER, 7, 8), Pair(GET_BOARD_REV, 5, 6)>>]>>
=============================================================================
