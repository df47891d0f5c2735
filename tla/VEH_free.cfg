\* A handler is removed while another thread dispatches.
CONSTANTS
    Thread = {t1, t2}
    Entry = {e1, e2}
    Anchor = Anchor
    None = None
SPECIFICATION Spec
INVARIANTS
    NoUseAfterFree
