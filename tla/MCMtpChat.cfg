CONSTANTS
  w = w
  l = l
  e = e
  Vocab = {w, l, e}
  Eos = {e}
  Lead = {l}
  Replacement = Replacement
  SelfHidden = SelfHidden
  Prompts <- MCPrompts
  Limits = {1, 4, 6}
  Law <- MCLaw
  DraftLaw <- MCDraftLaw
  Context = 9
  BlockSize = 4
SPECIFICATION Spec
INVARIANTS ModelsAligned RoundsHaveRoom
PROPERTIES KeepsPromise
