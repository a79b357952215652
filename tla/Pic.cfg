SPECIFICATION Spec
CONSTANTS
  Top = 2
  Cascade = 2
  Timer = 0
  Crtv = 1
  DefaultImr <- AllMasked
  Guests <- BothGuests
INVARIANTS TypeOK VsyncInRetrace
PROPERTIES FullyNested MaskIsObeyed PromptService RequestsKept VsyncKept
